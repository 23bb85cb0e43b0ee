------------------------- MODULE AuthSessionsProofs -------------------------
(***************************************************************************)
(* Proofs about AuthSessions, for any number of users, requests and tokens *)
(* and any durations.  Inv is the inductive invariant: it says of every    *)
(* parked request what its record still guarantees (RequestOK), and of     *)
(* every row what the requests that wrote it have left behind (RowOK).     *)
(***************************************************************************)
EXTENDS AuthSessions, TLAPS

\* What a parked request can rely on.  One that is opening a session has not
\* been overtaken by a mass revocation, or knows it (raced); one that has
\* revoked its token finds it revoked or gone until it inserts the new row.
RequestOK(q) ==
  /\ q.pc \in Opening =>
       /\ q.user \in User
       /\ q.raced \/ q.epoch = revocations[q.user]
       /\ q.raced \/ q.pw = account[q.user].pw
  /\ q.pc \in {"register", "logout", "newReset", "rehash"} => q.user \in User
  /\ q.pc \in {"mail", "rehash"} =>
       q.key \in ResetId /\ resetToken[q.key].st = "stored"
  /\ q.pc = "compare" => q.token = None
  /\ q.pc \in {"match", "revoke"} => q.token \in RefreshId
  /\ q.token # None =>
       /\ q.pc \in Opening
       /\ refreshToken[q.token].st # "free"
       /\ q.pc \in {"sign", "insert"} => ~Unrevoked(refreshToken[q.token])
  /\ q.signedAt <= now

\* The lifetime resolveExpiryDate gives a row.
RowTTL == IF Readable THEN RefreshTTL ELSE Fallback

LEMMA RowTTLType == RowTTL \in Nat
  BY TTLAssumption DEF RowTTL

\* What holds of a RefreshToken row.
RowOK(row) ==
  /\ row.st # "free" => row.userId \in User
  /\ row.parent # None =>
       /\ refreshToken[row.parent].st # "free"
       /\ ~Unrevoked(refreshToken[row.parent])
  /\ Unrevoked(row) =>
       /\ row.raced \/ row.epoch = revocations[row.userId]
       /\ row.raced \/ row.pw = account[row.userId].pw
  /\ row.st = "stored" => row.signedAt + RowTTL <= row.expiresAt
  /\ row.st = "deleted" =>
       row.revokedAt # None \/ row.signedAt + RowTTL < now

\* What holds of a PasswordResetToken row.
ResetOK(row) ==
  /\ row.st = "stored" => row.userId \in User
  /\ row.mailed \/ row.usedAt # None => row.st = "stored"

Inv ==
  /\ TypeOK
  /\ \A r \in Request : RequestOK(req[r])
  /\ \A t \in RefreshId : RowOK(refreshToken[t])
  /\ \A k \in ResetId : ResetOK(resetToken[k])

LEMMA InitInv == Init => Inv
  BY NoneAssumption
  DEF Init, Inv, TypeOK, RequestOK, RowOK, ResetOK, Idle, FreeRow, FreeReset,
      RequestRecord, RefreshRow, ResetRow, Pc, Opening, Unrevoked

LEMMA IdleOK == Idle \in RequestRecord /\ (TypeOK => RequestOK(Idle))
  BY DEF TypeOK, RequestOK, Idle, RequestRecord, Pc, Opening

-----------------------------------------------------------------------------
\* A step that only moves one request to an acceptable record keeps Inv: it
\* is how every read and every early return is handled.
LEMMA OnlyRequest ==
  ASSUME Inv, NEW r \in Request, NEW x \in RequestRecord, RequestOK(x),
         req' = [req EXCEPT ![r] = x],
         UNCHANGED <<now, account, refreshToken, resetToken, revocations>>
  PROVE  Inv'
  <1>1. TypeOK'
    BY DEF Inv, TypeOK
  <1>2. \A q \in Request : RequestOK(req[q])'
    <2> SUFFICES ASSUME NEW q \in Request PROVE RequestOK(req[q])'
      OBVIOUS
    <2>1. CASE q = r
      <3>1. req'[q] = x
        BY <2>1 DEF Inv, TypeOK
      <3>2. QED
        BY <3>1 DEF RequestOK, Unrevoked
    <2>2. CASE q # r
      <3>1. req'[q] = req[q]
        BY <2>2 DEF Inv, TypeOK
      <3>2. QED
        BY <3>1 DEF Inv, RequestOK, Unrevoked
    <2>3. QED
      BY <2>1, <2>2
  <1>3. \A t \in RefreshId : RowOK(refreshToken[t])'
    BY DEF Inv, RowOK, Unrevoked
  <1>4. \A k \in ResetId : ResetOK(resetToken[k])'
    BY DEF Inv, ResetOK
  <1>5. QED
    BY <1>1, <1>2, <1>3, <1>4 DEF Inv

LEMMA StartInv ==
  ASSUME Inv, NEW r \in Request, NEW u \in User,
         RegisterStart(r, u) \/ LoginStart(r, u) \/ LogoutStart(r, u)
           \/ RequestResetStart(r, u)
  PROVE  Inv'
  <1> DEFINE fresh(pc) == [Idle EXCEPT !.pc = pc, !.user = u]
             login == [Idle EXCEPT !.pc = "compare", !.user = u,
                                   !.pw = account[u].pw,
                                   !.epoch = revocations[u]]
  <1>1. ASSUME NEW pc \in {"register", "logout", "newReset"}
        PROVE  fresh(pc) \in RequestRecord /\ RequestOK(fresh(pc))
    <2>1. fresh(pc) \in RequestRecord
      BY <1>1 DEF RequestRecord, Idle, Pc, Opening
    <2>2. RequestOK(fresh(pc))
      BY <1>1 DEF Inv, TypeOK, RequestOK, Idle, Opening
    <2>3. QED
      BY <2>1, <2>2
  <1>2. login \in RequestRecord /\ RequestOK(login)
    <2>1. login \in RequestRecord
      BY DEF Inv, TypeOK, RequestRecord, Idle, Pc, Opening
    <2>2. RequestOK(login)
      BY DEF Inv, TypeOK, RequestOK, Idle, Opening
    <2>3. QED
      BY <2>1, <2>2
  <1>3. CASE RegisterStart(r, u)
    BY <1>3, <1>1, OnlyRequest DEF RegisterStart
  <1>4. CASE LoginStart(r, u)
    BY <1>4, <1>2, OnlyRequest DEF LoginStart
  <1>5. CASE LogoutStart(r, u)
    BY <1>5, <1>1, OnlyRequest DEF LogoutStart
  <1>6. CASE RequestResetStart(r, u)
    BY <1>6, <1>1, OnlyRequest DEF RequestResetStart
  <1>7. QED
    BY <1>3, <1>4, <1>5, <1>6

LEMMA ValidateInv ==
  ASSUME Inv, NEW r \in Request, NEW t \in RefreshId, RefreshValidate(r, t)
  PROVE  Inv'
  <1> DEFINE row == refreshToken[t]
             x == [Idle EXCEPT !.pc = "match", !.user = row.userId, !.token = t,
                               !.pw = row.pw, !.epoch = row.epoch,
                               !.raced = row.raced]
  <1>1. row \in RefreshRow /\ RowOK(row) /\ Unrevoked(row) /\ row.st = "stored"
    BY DEF Inv, TypeOK, RefreshValidate, Accepted, Unrevoked
  <1>2. x \in RequestRecord
    BY <1>1 DEF RequestRecord, RefreshRow, Idle, Pc, Opening
  <1>3. RequestOK(x)
    BY <1>1 DEF Inv, TypeOK, RequestOK, RowOK, RefreshRow, Idle, Opening
  <1>4. req' = [req EXCEPT ![r] = x]
    BY DEF RefreshValidate
  <1> HIDE DEF x
  <1>5. QED
    BY <1>2, <1>3, <1>4, OnlyRequest DEF RefreshValidate

LEMMA ResetCheckInv ==
  ASSUME Inv, NEW r \in Request, NEW k \in ResetId, ResetCheck(r, k)
  PROVE  Inv'
  <1> DEFINE x == [Idle EXCEPT !.pc = "rehash", !.user = resetToken[k].userId,
                               !.key = k]
  <1>1. resetToken[k] \in ResetRow /\ ResetOK(resetToken[k])
          /\ resetToken[k].st = "stored"
    BY DEF Inv, TypeOK, ResetCheck, ResetAccepted
  <1>2. x \in RequestRecord
    BY <1>1 DEF RequestRecord, ResetRow, Idle, Pc, Opening
  <1>3. RequestOK(x)
    BY <1>1 DEF Inv, TypeOK, RequestOK, ResetOK, Idle, Opening
  <1>4. req' = [req EXCEPT ![r] = x]
    BY DEF ResetCheck
  <1> HIDE DEF x
  <1>5. QED
    BY <1>2, <1>3, <1>4, OnlyRequest DEF ResetCheck

LEMMA SignInv ==
  ASSUME Inv, NEW r \in Request, Sign(r)
  PROVE  Inv'
  <1> DEFINE x == [req[r] EXCEPT !.pc = "insert", !.signedAt = now]
  <1>1. req[r] \in RequestRecord /\ RequestOK(req[r])
    BY DEF Inv, TypeOK
  <1>2. x \in RequestRecord
    BY <1>1 DEF Inv, TypeOK, RequestRecord, Pc, Opening
  <1>3. RequestOK(x)
    BY <1>1 DEF Inv, TypeOK, Sign, RequestOK, RequestRecord, Opening
  <1>4. req' = [req EXCEPT ![r] = x]
    BY <1>1 DEF Sign, Inv, TypeOK, RequestRecord
  <1> HIDE DEF x
  <1>5. QED
    BY <1>2, <1>3, <1>4, OnlyRequest DEF Sign

LEMMA RefreshUserInv ==
  ASSUME Inv, NEW r \in Request, RefreshUser(r)
  PROVE  Inv'
  <1> DEFINE x == IF account[req[r].user].st = "active"
                    THEN [req[r] EXCEPT !.pc = "revoke"]
                    ELSE Idle
  <1>1. req[r] \in RequestRecord /\ RequestOK(req[r])
    BY DEF Inv, TypeOK
  <1>2. x \in RequestRecord
    BY <1>1, IdleOK DEF RequestRecord, Pc, Opening
  <1>3. RequestOK(x)
    <2>1. CASE x = Idle
      BY <2>1, IdleOK DEF Inv
    <2>2. CASE x = [req[r] EXCEPT !.pc = "revoke"]
      BY <1>1, <2>2 DEF Inv, TypeOK, RefreshUser, RequestOK, RequestRecord, Opening
    <2>3. QED
      BY <2>1, <2>2
  <1>4. req' = [req EXCEPT ![r] = x]
    BY DEF RefreshUser
  <1> HIDE DEF x
  <1>5. QED
    BY <1>2, <1>3, <1>4, OnlyRequest DEF RefreshUser

LEMMA FailInv ==
  ASSUME Inv, NEW r \in Request, Fail(r)
  PROVE  Inv'
  BY IdleOK, OnlyRequest DEF Fail, Inv

-----------------------------------------------------------------------------
\* What every step but a mass revocation does to the rows: none goes back to
\* "free", none is revived, and no password or revocation count moves.
Persistent ==
  /\ now' >= now
  /\ \A u \in User : /\ revocations'[u] = revocations[u]
                     /\ account'[u].pw = account[u].pw
  /\ \A t \in RefreshId :
       refreshToken[t].st # "free" =>
         /\ refreshToken'[t].st # "free"
         /\ ~Unrevoked(refreshToken[t]) => ~Unrevoked(refreshToken'[t])
  /\ \A k \in ResetId :
       resetToken[k].st = "stored" => resetToken'[k].st = "stored"

\* Under such a step a request that does not move keeps its guarantees.
LEMMA OthersKeep ==
  ASSUME Inv, TypeOK', Persistent, NEW q \in Request, req'[q] = req[q]
  PROVE  RequestOK(req[q])'
  <1>1. req[q] \in RequestRecord /\ RequestOK(req[q])
    BY DEF Inv, TypeOK
  <1>2. req[q].signedAt <= now'
    BY <1>1 DEF Persistent, RequestOK, RequestRecord, TypeOK, Inv
  <1>3. req[q].token # None =>
          /\ req[q].token \in RefreshId
          /\ refreshToken'[req[q].token].st # "free"
          /\ ~Unrevoked(refreshToken[req[q].token])
               => ~Unrevoked(refreshToken'[req[q].token])
    BY <1>1 DEF Persistent, RequestOK, RequestRecord
  <1>4. QED
    BY <1>1, <1>2, <1>3 DEF Persistent, RequestOK, Unrevoked

\* And so does a row that the step does not touch.
LEMMA RowKeeps ==
  ASSUME Inv, TypeOK', Persistent, NEW t \in RefreshId,
         refreshToken'[t] = refreshToken[t]
  PROVE  RowOK(refreshToken[t])'
  <1>1. refreshToken[t] \in RefreshRow /\ RowOK(refreshToken[t])
    BY DEF Inv, TypeOK
  <1> DEFINE p == refreshToken[t].parent
  <1>2. p # None =>
          /\ p \in RefreshId
          /\ refreshToken'[p].st # "free"
          /\ ~Unrevoked(refreshToken'[p])
    BY <1>1 DEF Persistent, RowOK, RefreshRow
  <1>3. now \in Nat /\ now' \in Nat /\ now <= now'
    BY DEF Persistent, TypeOK, Inv
  <1>4. Unrevoked(refreshToken[t]) => refreshToken[t].userId \in User
    BY <1>1 DEF RowOK, Unrevoked
  <1>5. QED
    BY <1>1, <1>2, <1>3, <1>4, RowTTLType
    DEF Persistent, RowOK, Unrevoked, RefreshRow

LEMMA RegisterCreateInv ==
  ASSUME Inv, NEW r \in Request, RegisterCreate(r)
  PROVE  Inv'
  <1> DEFINE u == req[r].user
  <1>1. u \in User
    BY DEF Inv, RegisterCreate, RequestOK
  <1>2. CASE account[u].st = "none"
    <2> DEFINE x == [Idle EXCEPT !.pc = "sign", !.user = u,
                                 !.pw = account[u].pw, !.epoch = revocations[u]]
    <2>1. x \in RequestRecord
      BY <1>1 DEF Inv, TypeOK, RequestRecord, Idle, Pc, Opening
    <2>2. req' = [req EXCEPT ![r] = x]
      BY <1>2 DEF RegisterCreate
    <2>3. account' = [account EXCEPT ![u].st = "active"]
            /\ UNCHANGED <<now, refreshToken, resetToken, revocations>>
      BY <1>2 DEF RegisterCreate
    <2>4. /\ x.pc = "sign" /\ x.user = u /\ x.token = None /\ x.signedAt = 0
          /\ x.pw = account[u].pw /\ x.epoch = revocations[u]
      BY DEF Idle
    <2> HIDE DEF x
    <2>5. TypeOK'
      BY <1>1, <2>1, <2>2, <2>3 DEF Inv, TypeOK
    <2>6. Persistent
      BY <2>3 DEF Persistent, Inv, TypeOK
    <2>7. \A q \in Request : RequestOK(req[q])'
      <3>1. ASSUME NEW q \in Request, q # r PROVE RequestOK(req[q])'
        BY <2>2, <2>5, <2>6, <3>1, OthersKeep DEF Inv, TypeOK
      <3>2. req'[r] = x
        BY <2>2 DEF Inv, TypeOK
      <3>3. account'[u].pw = account[u].pw
        BY <2>3 DEF Inv, TypeOK
      <3>4. RequestOK(req[r])'
        BY <1>1, <2>3, <2>4, <3>2, <3>3 DEF RequestOK, Opening, Inv, TypeOK
      <3>5. QED
        BY <3>1, <3>4
    <2>8. \A t \in RefreshId : RowOK(refreshToken[t])'
      BY <2>3, <2>5, <2>6, RowKeeps
    <2>9. \A k \in ResetId : ResetOK(resetToken[k])'
      BY <2>3 DEF Inv, ResetOK
    <2>10. QED
      BY <2>5, <2>7, <2>8, <2>9 DEF Inv
  <1>3. CASE account[u].st # "none"
    BY <1>3, IdleOK, OnlyRequest DEF RegisterCreate, Inv
  <1>4. QED
    BY <1>2, <1>3

LEMMA RefreshRevokeInv ==
  ASSUME Inv, NEW r \in Request, RefreshRevoke(r)
  PROVE  Inv'
  <1>1. req[r] \in RequestRecord /\ RequestOK(req[r])
    BY DEF Inv, TypeOK
  <1>2. PICK t \in RefreshId : t = req[r].token
    BY <1>1 DEF RequestOK, RefreshRevoke
  <1>3. CASE refreshToken[t].st = "stored"
    <2> DEFINE x == [req[r] EXCEPT !.pc = "sign"]
               row == [refreshToken[t] EXCEPT !.revokedAt = now]
    <2>1. x \in RequestRecord
      BY <1>1 DEF RequestRecord, Pc, Opening
    <2>2. req' = [req EXCEPT ![r] = x]
      BY <1>2, <1>3 DEF RefreshRevoke
    <2>3. refreshToken[t] \in RefreshRow /\ row \in RefreshRow
      BY <1>2 DEF Inv, TypeOK, RefreshRow
    <2>4. refreshToken' = [refreshToken EXCEPT ![t] = row]
            /\ UNCHANGED <<now, account, resetToken, revocations>>
      BY <1>2, <1>3 DEF RefreshRevoke, Revoke
    <2>5. /\ row.st = "stored" /\ ~Unrevoked(row)
          /\ row.userId = refreshToken[t].userId
          /\ row.parent = refreshToken[t].parent
          /\ row.signedAt = refreshToken[t].signedAt
          /\ row.expiresAt = refreshToken[t].expiresAt
      BY <1>3, <2>3, NoneAssumption DEF Unrevoked, RefreshRow, Inv, TypeOK
    <2>6. /\ x.pc = "sign" /\ x.user = req[r].user /\ x.token = t
          /\ x.pw = req[r].pw /\ x.epoch = req[r].epoch
          /\ x.raced = req[r].raced /\ x.signedAt = req[r].signedAt
      BY <1>1, <1>2 DEF RequestRecord
    <2>7. req[r].pc = "revoke"
      BY DEF RefreshRevoke
    <2> HIDE DEF x, row
    <2>8. TypeOK'
      BY <2>1, <2>2, <2>3, <2>4 DEF Inv, TypeOK
    <2>9. /\ refreshToken'[t] = row
          /\ \A s \in RefreshId : s # t => refreshToken'[s] = refreshToken[s]
          /\ req'[r] = x
          /\ \A q \in Request : q # r => req'[q] = req[q]
      BY <1>2, <2>2, <2>4 DEF Inv, TypeOK
    <2>10. Persistent
      BY <2>4, <2>5, <2>9 DEF Persistent, Inv, TypeOK
    <2>11. \A q \in Request : RequestOK(req[q])'
      <3>1. ASSUME NEW q \in Request, q # r PROVE RequestOK(req[q])'
        BY <2>8, <2>9, <2>10, <3>1, OthersKeep
      <3>2. RequestOK(req[r])'
        BY <1>1, <2>4, <2>5, <2>6, <2>7, <2>9
        DEF RequestOK, Opening, Unrevoked
      <3>3. QED
        BY <3>1, <3>2
    <2>12. \A s \in RefreshId : RowOK(refreshToken[s])'
      <3>1. ASSUME NEW s \in RefreshId, s # t PROVE RowOK(refreshToken[s])'
        BY <2>8, <2>9, <2>10, <3>1, RowKeeps
      <3>2. RowOK(refreshToken[t])
        BY <1>2 DEF Inv
      <3>3. RowOK(refreshToken[t])'
        <4> DEFINE p == row.parent
        <4>1. p # None =>
                /\ p \in RefreshId
                /\ refreshToken'[p].st # "free"
                /\ ~Unrevoked(refreshToken'[p])
          BY <2>3, <2>5, <2>10, <3>2 DEF Persistent, RowOK, RefreshRow
        <4>2. QED
          BY <1>3, <2>5, <2>9, <3>2, <4>1 DEF RowOK, Unrevoked
      <3>4. QED
        BY <3>1, <3>3
    <2>13. \A k \in ResetId : ResetOK(resetToken[k])'
      BY <2>4 DEF Inv, ResetOK
    <2>14. QED
      BY <2>8, <2>11, <2>12, <2>13 DEF Inv
  <1>4. CASE refreshToken[t].st # "stored"
    BY <1>2, <1>4, IdleOK, OnlyRequest DEF RefreshRevoke, Inv
  <1>5. QED
    BY <1>3, <1>4

LEMMA IssueInv ==
  ASSUME Inv, NEW r \in Request, NEW t \in RefreshId, Issue(r, t)
  PROVE  Inv'
  <1>1. req[r] \in RequestRecord /\ RequestOK(req[r]) /\ req[r].pc = "insert"
    BY DEF Inv, TypeOK, Issue
  <1> DEFINE row == [st |-> "stored", userId |-> req[r].user,
                     expiresAt |-> ResolveExpiryDate(RefreshTTL),
                     revokedAt |-> None, signedAt |-> req[r].signedAt,
                     parent |-> req[r].token, pw |-> req[r].pw,
                     epoch |-> req[r].epoch, raced |-> req[r].raced]
  <1>2. row \in RefreshRow
    BY <1>1, RowTTLType
    DEF Inv, TypeOK, RequestRecord, RefreshRow, ResolveExpiryDate, RowTTL
  <1>3. /\ refreshToken' = [refreshToken EXCEPT ![t] = row]
        /\ req' = [req EXCEPT ![r] = Idle]
        /\ UNCHANGED <<now, account, resetToken, revocations>>
        /\ refreshToken[t].st = "free"
    BY DEF Issue
  <1>4. /\ row.st = "stored" /\ row.userId = req[r].user
        /\ row.expiresAt = now + RowTTL /\ row.signedAt = req[r].signedAt
        /\ row.parent = req[r].token /\ row.pw = req[r].pw
        /\ row.epoch = req[r].epoch /\ row.raced = req[r].raced
    BY DEF ResolveExpiryDate, RowTTL
  <1> HIDE DEF row
  <1>5. TypeOK'
    BY <1>2, <1>3, IdleOK DEF Inv, TypeOK
  <1>6. /\ refreshToken'[t] = row
        /\ \A s \in RefreshId : s # t => refreshToken'[s] = refreshToken[s]
        /\ req'[r] = Idle
        /\ \A q \in Request : q # r => req'[q] = req[q]
    BY <1>3 DEF Inv, TypeOK
  <1>7. Persistent
    BY <1>3, <1>4, <1>6 DEF Persistent, Inv, TypeOK
  <1>8. \A q \in Request : RequestOK(req[q])'
    <2>1. ASSUME NEW q \in Request, q # r PROVE RequestOK(req[q])'
      BY <1>5, <1>6, <1>7, <2>1, OthersKeep
    <2>2. RequestOK(req[r])'
      BY <1>3, <1>6 DEF RequestOK, Idle, Opening, Inv, TypeOK
    <2>3. QED
      BY <2>1, <2>2
  <1>9. \A s \in RefreshId : RowOK(refreshToken[s])'
    <2>1. ASSUME NEW s \in RefreshId, s # t PROVE RowOK(refreshToken[s])'
      BY <1>5, <1>6, <1>7, <2>1, RowKeeps
    <2>2. RowOK(refreshToken[t])'
      <3>1. row.parent # None =>
              /\ row.parent \in RefreshId
              /\ refreshToken'[row.parent].st # "free"
              /\ ~Unrevoked(refreshToken'[row.parent])
        BY <1>1, <1>2, <1>4, <1>7 DEF Persistent, RequestOK, RefreshRow
      <3>2. row.signedAt + RowTTL <= row.expiresAt
        BY <1>1, <1>4, RowTTLType DEF RequestOK, RequestRecord, Inv, TypeOK
      <3>3. QED
        BY <1>1, <1>3, <1>4, <1>6, <3>1, <3>2
        DEF RowOK, RequestOK, Opening, Unrevoked
    <2>3. QED
      BY <2>1, <2>2
  <1>10. \A k \in ResetId : ResetOK(resetToken[k])'
    BY <1>3 DEF Inv, ResetOK
  <1>11. QED
    BY <1>5, <1>8, <1>9, <1>10 DEF Inv

LEMMA RequestResetCreateInv ==
  ASSUME Inv, NEW r \in Request, NEW k \in ResetId, RequestResetCreate(r, k)
  PROVE  Inv'
  <1>1. req[r] \in RequestRecord /\ RequestOK(req[r]) /\ req[r].pc = "newReset"
    BY DEF Inv, TypeOK, RequestResetCreate
  <1> DEFINE row == [st |-> "stored", userId |-> req[r].user,
                     expiresAt |-> now + ResetTTL, usedAt |-> None,
                     mailed |-> FALSE]
             x == [req[r] EXCEPT !.pc = "mail", !.key = k]
  <1>2. row \in ResetRow /\ x \in RequestRecord
    <2>1. row \in ResetRow
      BY <1>1, TTLAssumption DEF Inv, TypeOK, RequestRecord, ResetRow
    <2>2. x \in RequestRecord
      BY <1>1 DEF RequestRecord, Pc, Opening
    <2>3. QED
      BY <2>1, <2>2
  <1>3. /\ resetToken' = [resetToken EXCEPT ![k] = row]
        /\ UNCHANGED <<now, account, refreshToken, revocations>>
    BY DEF RequestResetCreate
  <1>4. req' = [req EXCEPT ![r] = x]
    BY <1>1 DEF RequestResetCreate, Inv, TypeOK, RequestRecord
  <1>5. /\ row.st = "stored" /\ row.userId = req[r].user /\ ~row.mailed
        /\ row.usedAt = None /\ x.pc = "mail" /\ x.key = k /\ x.token = req[r].token
        /\ x.signedAt = req[r].signedAt
    BY <1>1 DEF RequestRecord
  <1> HIDE DEF row, x
  <1>6. TypeOK'
    BY <1>2, <1>3, <1>4 DEF Inv, TypeOK
  <1>7. /\ resetToken'[k] = row
        /\ \A j \in ResetId : j # k => resetToken'[j] = resetToken[j]
        /\ req'[r] = x
        /\ \A q \in Request : q # r => req'[q] = req[q]
    BY <1>3, <1>4 DEF Inv, TypeOK
  <1>8. Persistent
    BY <1>3, <1>5, <1>7 DEF Persistent, Inv, TypeOK
  <1>9. \A q \in Request : RequestOK(req[q])'
    <2>1. ASSUME NEW q \in Request, q # r PROVE RequestOK(req[q])'
      BY <1>6, <1>7, <1>8, <2>1, OthersKeep
    <2>2. RequestOK(req[r])'
      BY <1>1, <1>3, <1>5, <1>7 DEF RequestOK, Opening
    <2>3. QED
      BY <2>1, <2>2
  <1>10. \A t \in RefreshId : RowOK(refreshToken[t])'
    BY <1>3, <1>6, <1>8, RowKeeps
  <1>11. \A j \in ResetId : ResetOK(resetToken[j])'
    BY <1>1, <1>5, <1>7 DEF Inv, ResetOK, RequestOK
  <1>12. QED
    BY <1>6, <1>9, <1>10, <1>11 DEF Inv

LEMMA RequestResetMailInv ==
  ASSUME Inv, NEW r \in Request, RequestResetMail(r)
  PROVE  Inv'
  <1>1. req[r] \in RequestRecord /\ RequestOK(req[r]) /\ req[r].pc = "mail"
    BY DEF Inv, TypeOK, RequestResetMail
  <1>2. PICK k \in ResetId : k = req[r].key
    BY <1>1 DEF RequestOK
  <1> DEFINE row == [resetToken[k] EXCEPT !.mailed = TRUE]
  <1>3. resetToken[k] \in ResetRow /\ row \in ResetRow
    BY DEF Inv, TypeOK, ResetRow
  <1>4. /\ resetToken' = [resetToken EXCEPT ![k] = row]
        /\ req' = [req EXCEPT ![r] = Idle]
        /\ UNCHANGED <<now, account, refreshToken, revocations>>
    BY <1>2 DEF RequestResetMail
  <1>5. row.st = "stored" /\ row.userId = resetToken[k].userId
          /\ resetToken[k].st = "stored"
    BY <1>1, <1>2, <1>3 DEF RequestOK, ResetRow
  <1> HIDE DEF row
  <1>6. TypeOK'
    BY <1>3, <1>4, IdleOK DEF Inv, TypeOK
  <1>7. /\ resetToken'[k] = row
        /\ \A j \in ResetId : j # k => resetToken'[j] = resetToken[j]
        /\ req'[r] = Idle
        /\ \A q \in Request : q # r => req'[q] = req[q]
    BY <1>4 DEF Inv, TypeOK
  <1>8. Persistent
    BY <1>4, <1>5, <1>7 DEF Persistent, Inv, TypeOK
  <1>9. \A q \in Request : RequestOK(req[q])'
    <2>1. ASSUME NEW q \in Request, q # r PROVE RequestOK(req[q])'
      BY <1>6, <1>7, <1>8, <2>1, OthersKeep
    <2>2. RequestOK(req[r])'
      BY <1>4, <1>7 DEF RequestOK, Idle, Opening, Inv, TypeOK
    <2>3. QED
      BY <2>1, <2>2
  <1>10. \A t \in RefreshId : RowOK(refreshToken[t])'
    BY <1>4, <1>6, <1>8, RowKeeps
  <1>11. \A j \in ResetId : ResetOK(resetToken[j])'
    BY <1>5, <1>7 DEF Inv, ResetOK
  <1>12. QED
    BY <1>6, <1>9, <1>10, <1>11 DEF Inv

\* Cleanup, deactivation and the clock move no request.
LEMMA CleanupInv ==
  ASSUME Inv, Cleanup
  PROVE  Inv'
  <1>1. UNCHANGED <<now, account, resetToken, req, revocations>>
    BY DEF Cleanup
  <1>2. ASSUME NEW t \in RefreshId
        PROVE  \/ refreshToken'[t] = refreshToken[t]
               \/ /\ Disposable(refreshToken[t])
                  /\ refreshToken'[t] = [refreshToken[t] EXCEPT !.st = "deleted"]
    BY DEF Cleanup
  <1>3. ASSUME NEW t \in RefreshId PROVE refreshToken'[t] \in RefreshRow
    <2>1. refreshToken[t] \in RefreshRow
      BY DEF Inv, TypeOK
    <2>2. [refreshToken[t] EXCEPT !.st = "deleted"] \in RefreshRow
      BY <2>1 DEF RefreshRow
    <2>3. QED
      BY <1>2, <2>1, <2>2
  <1>4. TypeOK'
    <2>1. refreshToken' \in [RefreshId -> RefreshRow]
      BY <1>3 DEF Cleanup
    <2>2. QED
      BY <1>1, <2>1 DEF Inv, TypeOK
  <1>5. Persistent
    <2>1. ASSUME NEW t \in RefreshId, refreshToken[t].st # "free"
          PROVE  /\ refreshToken'[t].st # "free"
                 /\ ~Unrevoked(refreshToken[t]) => ~Unrevoked(refreshToken'[t])
      BY <1>2, <2>1 DEF Inv, TypeOK, RefreshRow, Unrevoked
    <2>2. QED
      BY <1>1, <2>1 DEF Persistent, Inv, TypeOK
  <1>6. \A q \in Request : RequestOK(req[q])'
    BY <1>1, <1>4, <1>5, OthersKeep
  <1>7. ASSUME NEW t \in RefreshId PROVE RowOK(refreshToken[t])'
    <2>1. CASE refreshToken'[t] = refreshToken[t]
      BY <1>4, <1>5, <2>1, RowKeeps
    <2>2. CASE /\ Disposable(refreshToken[t])
               /\ refreshToken'[t] = [refreshToken[t] EXCEPT !.st = "deleted"]
      <3> DEFINE old == refreshToken[t]
                 new == [old EXCEPT !.st = "deleted"]
      <3>1. old \in RefreshRow /\ RowOK(old) /\ Disposable(old)
        BY <2>2 DEF Inv, TypeOK
      <3>2. /\ new.st = "deleted" /\ new.userId = old.userId
            /\ new.parent = old.parent /\ new.revokedAt = old.revokedAt
            /\ new.signedAt = old.signedAt /\ ~Unrevoked(new)
        BY <3>1 DEF RefreshRow, Unrevoked
      <3>3. refreshToken'[t] = new
        BY <2>2
      <3>4. new.parent # None => /\ refreshToken'[new.parent].st # "free"
                                 /\ ~Unrevoked(refreshToken'[new.parent])
        BY <1>5, <3>1, <3>2 DEF Persistent, RowOK, RefreshRow
      <3>5. new.revokedAt # None \/ new.signedAt + RowTTL < now
        BY <3>1, <3>2, RowTTLType
        DEF Disposable, RowOK, RefreshRow, Inv, TypeOK
      <3>6. new.userId \in User
        BY <3>1, <3>2 DEF RowOK, Disposable
      <3> HIDE DEF new, old
      <3>7. QED
        BY <1>1, <3>2, <3>3, <3>4, <3>5, <3>6 DEF RowOK, Unrevoked
    <2>3. QED
      BY <1>2, <2>1, <2>2
  <1>8. \A k \in ResetId : ResetOK(resetToken[k])'
    BY <1>1 DEF Inv, ResetOK
  <1>9. QED
    BY <1>4, <1>6, <1>7, <1>8 DEF Inv

LEMMA SurroundingsInv ==
  ASSUME Inv, Tick \/ (\E u \in User : Deactivate(u)) \/ UNCHANGED vars
  PROVE  Inv'
  <1>1. UNCHANGED <<refreshToken, resetToken, req, revocations>>
    BY DEF Tick, Deactivate, vars
  <1>2. TypeOK' /\ now <= now'
    BY DEF Tick, Deactivate, vars, Inv, TypeOK
  <1>3. \A u \in User : account'[u].pw = account[u].pw
    BY DEF Tick, Deactivate, vars, Inv, TypeOK
  <1>4. Persistent
    BY <1>1, <1>2, <1>3 DEF Persistent, Inv, TypeOK
  <1>5. \A q \in Request : RequestOK(req[q])'
    BY <1>1, <1>2, <1>4, OthersKeep
  <1>6. \A t \in RefreshId : RowOK(refreshToken[t])'
    BY <1>1, <1>2, <1>4, RowKeeps
  <1>7. \A k \in ResetId : ResetOK(resetToken[k])'
    BY <1>1 DEF Inv, ResetOK
  <1>8. QED
    BY <1>2, <1>5, <1>6, <1>7 DEF Inv

-----------------------------------------------------------------------------
\* A mass revocation of u by request r: logoutAll, and resetPassword with the
\* new password on top.  It leaves no unrevoked row of u behind and marks every
\* request of u that is opening a session, so nothing unmarked can be stale.
LEMMA MassRevocation ==
  ASSUME Inv, NEW r \in Request, NEW u \in User,
         now' = now,
         refreshToken' = RevokeAll(u),
         req' = [Overtaken(u) EXCEPT ![r] = Idle],
         revocations' = [revocations EXCEPT ![u] = @ + 1],
         account' \in [User -> [st : {"none", "active", "inactive"}, pw : Nat]],
         \A v \in User : v # u => account'[v].pw = account[v].pw,
         resetToken' \in [ResetId -> ResetRow],
         \A k \in ResetId : /\ resetToken'[k].st = resetToken[k].st
                            /\ resetToken'[k].userId = resetToken[k].userId
                            /\ resetToken'[k].mailed = resetToken[k].mailed
                            /\ resetToken'[k].usedAt # resetToken[k].usedAt
                                 => resetToken[k].st = "stored"
  PROVE  Inv'
  <1>1. ASSUME NEW t \in RefreshId
        PROVE  /\ refreshToken[t] \in RefreshRow
               /\ refreshToken'[t] \in RefreshRow
               /\ refreshToken'[t].st = refreshToken[t].st
               /\ refreshToken'[t].userId = refreshToken[t].userId
               /\ refreshToken'[t].parent = refreshToken[t].parent
               /\ refreshToken'[t].signedAt = refreshToken[t].signedAt
               /\ refreshToken'[t].expiresAt = refreshToken[t].expiresAt
               /\ Unrevoked(refreshToken'[t]) =>
                    /\ refreshToken'[t] = refreshToken[t]
                    /\ refreshToken[t].userId # u
               /\ refreshToken[t].revokedAt # None
                    => refreshToken'[t].revokedAt # None
    <2> DEFINE old == refreshToken[t]
               new == [old EXCEPT !.revokedAt = now]
    <2>1. old \in RefreshRow
      BY DEF Inv, TypeOK
    <2>2. /\ new \in RefreshRow /\ new.st = old.st /\ new.userId = old.userId
          /\ new.parent = old.parent /\ new.signedAt = old.signedAt
          /\ new.expiresAt = old.expiresAt /\ new.revokedAt # None
      <3>1. now \in Nat /\ now # None
        BY NoneAssumption DEF Inv, TypeOK
      <3>2. QED
        BY <2>1, <3>1 DEF RefreshRow
    <2>3. refreshToken'[t] = IF Unrevoked(old) /\ old.userId = u THEN new ELSE old
      BY DEF RevokeAll
    <2> HIDE DEF new, old
    <2>4. QED
      BY <2>1, <2>2, <2>3 DEF Unrevoked, old
  <1>2. ASSUME NEW q \in Request, q # r
        PROVE  /\ req[q] \in RequestRecord /\ RequestOK(req[q])
               /\ req'[q] \in RequestRecord
               /\ req'[q].pc = req[q].pc /\ req'[q].user = req[q].user
               /\ req'[q].token = req[q].token /\ req'[q].key = req[q].key
               /\ req'[q].signedAt = req[q].signedAt
               /\ req'[q].pw = req[q].pw /\ req'[q].epoch = req[q].epoch
               /\ req[q].raced => req'[q].raced
               /\ req[q].pc \in Opening /\ req[q].user = u => req'[q].raced
    <2> DEFINE old == req[q]
               new == [old EXCEPT !.raced = TRUE]
    <2>1. old \in RequestRecord /\ RequestOK(old)
      BY DEF Inv, TypeOK
    <2>2. /\ new \in RequestRecord
          /\ new.pc = old.pc /\ new.user = old.user /\ new.token = old.token
          /\ new.key = old.key /\ new.signedAt = old.signedAt
          /\ new.pw = old.pw /\ new.epoch = old.epoch /\ new.raced
      BY <2>1 DEF RequestRecord
    <2>3. req'[q] = IF old.pc \in Opening /\ old.user = u THEN new ELSE old
      BY <1>2 DEF Overtaken
    <2> HIDE DEF new
    <2>4. QED
      BY <2>1, <2>2, <2>3
  <1>3. req'[r] = Idle
    BY DEF Overtaken
  <1>4. TypeOK'
    <2>1. refreshToken' \in [RefreshId -> RefreshRow]
      BY <1>1 DEF RevokeAll
    <2>2. req' \in [Request -> RequestRecord]
      <3>1. ASSUME NEW q \in Request
            PROVE  /\ req[q] \in RequestRecord
                   /\ [req[q] EXCEPT !.raced = TRUE] \in RequestRecord
        <4>1. req[q] \in RequestRecord
          BY DEF Inv, TypeOK
        <4>2. QED
          BY <4>1 DEF RequestRecord
      <3>2. Overtaken(u) \in [Request -> RequestRecord]
        BY <3>1 DEF Overtaken
      <3>3. QED
        BY <3>2, IdleOK
    <2>3. now' \in Nat /\ revocations' \in [User -> Nat]
      BY DEF Inv, TypeOK
    <2>4. QED
      BY <2>1, <2>2, <2>3 DEF TypeOK
  <1>5. \A q \in Request : RequestOK(req[q])'
    <2>1. ASSUME NEW q \in Request, q # r PROVE RequestOK(req[q])'
      <3>1. req[q].pc \in Opening =>
              /\ req[q].user \in User
              /\ req'[q].raced \/ req[q].epoch = revocations'[req[q].user]
              /\ req'[q].raced \/ req[q].pw = account'[req[q].user].pw
        BY <1>2, <2>1 DEF RequestOK, Inv, TypeOK
      <3>2. req[q].token # None =>
              /\ req[q].pc \in Opening
              /\ refreshToken'[req[q].token].st # "free"
              /\ req[q].pc \in {"sign", "insert"}
                   => ~Unrevoked(refreshToken'[req[q].token])
        BY <1>1, <1>2, <2>1 DEF RequestOK, RequestRecord
      <3>3. QED
        BY <1>2, <2>1, <3>1, <3>2 DEF RequestOK, Unrevoked
    <2>2. RequestOK(req[r])'
      BY <1>3, <1>4, IdleOK DEF RequestOK, Idle, Opening, TypeOK
    <2>3. QED
      BY <2>1, <2>2
  <1>6. \A t \in RefreshId : RowOK(refreshToken[t])'
    <2> SUFFICES ASSUME NEW t \in RefreshId PROVE RowOK(refreshToken[t])'
      OBVIOUS
    <2>1. RowOK(refreshToken[t])
      BY DEF Inv
    <2>2. refreshToken'[t].parent # None =>
            /\ refreshToken'[refreshToken'[t].parent].st # "free"
            /\ ~Unrevoked(refreshToken'[refreshToken'[t].parent])
      BY <1>1, <2>1 DEF RowOK, RefreshRow
    <2>3. Unrevoked(refreshToken'[t]) =>
            LET row == refreshToken'[t] IN
            /\ row.raced \/ row.epoch = revocations'[row.userId]
            /\ row.raced \/ row.pw = account'[row.userId].pw
      <3> SUFFICES ASSUME Unrevoked(refreshToken'[t])
                   PROVE  LET row == refreshToken'[t] IN
                          /\ row.raced \/ row.epoch = revocations'[row.userId]
                          /\ row.raced \/ row.pw = account'[row.userId].pw
        OBVIOUS
      <3>1. /\ refreshToken'[t] = refreshToken[t] /\ Unrevoked(refreshToken[t])
            /\ refreshToken[t].userId \in User /\ refreshToken[t].userId # u
        BY <1>1, <2>1 DEF RowOK, Unrevoked
      <3>2. QED
        BY <2>1, <3>1 DEF RowOK, Inv, TypeOK
    <2>4. QED
      BY <1>1, <2>1, <2>2, <2>3 DEF RowOK, Unrevoked
  <1>7. \A k \in ResetId : ResetOK(resetToken[k])'
    BY DEF Inv, ResetOK
  <1>8. QED
    BY <1>4, <1>5, <1>6, <1>7 DEF Inv

LEMMA LogoutAllInv ==
  ASSUME Inv, NEW r \in Request, LogoutAll(r)
  PROVE  Inv'
  <1>1. RequestOK(req[r]) /\ req[r].pc = "logout"
    BY DEF Inv, LogoutAll
  <1>2. PICK u \in User : u = req[r].user
    BY <1>1 DEF RequestOK
  <1>3. QED
    BY <1>2, MassRevocation DEF LogoutAll, Inv, TypeOK

LEMMA ResetCommitInv ==
  ASSUME Inv, NEW r \in Request, ResetCommit(r)
  PROVE  Inv'
  <1>1. RequestOK(req[r]) /\ req[r].pc = "rehash"
    BY DEF Inv, ResetCommit
  <1>2. PICK u \in User : u = req[r].user
    BY <1>1 DEF RequestOK
  <1>3. PICK k \in ResetId : k = req[r].key
    BY <1>1 DEF RequestOK
  <1>4. /\ account' = [account EXCEPT ![u].pw = @ + 1]
        /\ resetToken' = [resetToken EXCEPT ![k].usedAt = now]
        /\ refreshToken' = RevokeAll(u)
        /\ req' = [Overtaken(u) EXCEPT ![r] = Idle]
        /\ revocations' = [revocations EXCEPT ![u] = @ + 1]
        /\ now' = now
    BY <1>2, <1>3 DEF ResetCommit
  <1>5. /\ account' \in [User -> [st : {"none", "active", "inactive"}, pw : Nat]]
        /\ \A v \in User : v # u => account'[v].pw = account[v].pw
    BY <1>4 DEF Inv, TypeOK
  <1>6. resetToken[k] \in ResetRow
          /\ [resetToken[k] EXCEPT !.usedAt = now] \in ResetRow
    BY DEF Inv, TypeOK, ResetRow
  <1>7. resetToken' \in [ResetId -> ResetRow]
    BY <1>4, <1>6 DEF Inv, TypeOK
  <1>8. \A j \in ResetId : /\ resetToken'[j].st = resetToken[j].st
                           /\ resetToken'[j].userId = resetToken[j].userId
                           /\ resetToken'[j].mailed = resetToken[j].mailed
                           /\ resetToken'[j].usedAt # resetToken[j].usedAt
                                => resetToken[j].st = "stored"
    BY <1>1, <1>3, <1>4, <1>6 DEF Inv, TypeOK, ResetRow, RequestOK
  <1>9. QED
    BY <1>4, <1>5, <1>7, <1>8, MassRevocation

-----------------------------------------------------------------------------
LEMMA NextInv == Inv /\ [Next]_vars => Inv'
  <1> SUFFICES ASSUME Inv, [Next]_vars PROVE Inv'
    OBVIOUS
  <1>1. ASSUME NEW r \in Request, Step(r) PROVE Inv'
    BY <1>1, StartInv, ValidateInv, IssueInv, RequestResetCreateInv,
       ResetCheckInv, RegisterCreateInv, SignInv, RefreshUserInv,
       RefreshRevokeInv, LogoutAllInv, RequestResetMailInv, ResetCommitInv,
       FailInv
    DEF Step
  <1>2. QED
    BY <1>1, CleanupInv, SurroundingsInv DEF Next

\* Inv is invariant: what every parked request and every row may rely on, in
\* every reachable state.
THEOREM InvHolds == Spec => []Inv
  BY InitInv, NextInv, PTL DEF Spec

\* The rows and the closures keep their shapes (schema.prisma).
THEOREM TypeCorrect == Spec => []TypeOK
  <1>1. Inv => TypeOK
    BY DEF Inv
  <1>2. QED
    BY <1>1, InvHolds, PTL

\* However refreshes interleave, a rotated token is never usable next to the
\* token issued for it (auth.service.ts refresh).
THEOREM Rotation == Spec => []NoTwoGenerations
  <1>1. Inv => NoTwoGenerations
    BY DEF Inv, RowOK, NoTwoGenerations
  <1>2. QED
    BY <1>1, InvHolds, PTL

\* A logout or reset misses a session only through a request it overtook
\* (auth.service.ts logoutAll, resetPassword).
THEOREM RevocationReach == Spec => []RevocationReachesAll
  <1>1. Inv => RevocationReachesAll
    BY DEF Inv, RowOK, RevocationReachesAll
  <1>2. QED
    BY <1>1, InvHolds, PTL

\* A live session that no reset overtook proves the password in force.
THEOREM PasswordMatch == Spec => []SessionMatchesPassword
  <1>1. Inv => SessionMatchesPassword
    BY DEF Inv, RowOK, SessionMatchesPassword
  <1>2. QED
    BY <1>1, InvHolds, PTL

\* The cleanup job deletes no unrevoked row before its JWT has expired, or, if
\* the configured lifetime cannot be read, before its 7 days are over
\* (auth.service.ts resolveExpiryDate, cleanup-expired-tokens.processor.ts).
THEOREM CleanupSafe == Spec => []CleanupTakesDeadRows
  <1>1. ASSUME Inv PROVE CleanupTakesDeadRows
    <2> SUFFICES ASSUME NEW t \in RefreshId, refreshToken[t].st = "deleted",
                        refreshToken[t].revokedAt = None
                 PROVE  \/ refreshToken[t].signedAt + RefreshTTL <= now
                        \/ ~Readable /\ refreshToken[t].signedAt + Fallback < now
      BY DEF CleanupTakesDeadRows
    <2>1. refreshToken[t].signedAt + RowTTL < now
      BY <1>1 DEF Inv, RowOK
    <2>2. refreshToken[t].signedAt \in Nat /\ now \in Nat
      BY <1>1 DEF Inv, TypeOK, RefreshRow
    <2> QED
      BY <2>1, <2>2, TTLAssumption DEF RowTTL
  <1>2. QED
    BY <1>1, InvHolds, PTL

-----------------------------------------------------------------------------
\* The action properties.  Every step is one of three kinds: it leaves the rows
\* alone, it writes RefreshToken rows without reviving one, or it commits.

\* No step revives a RefreshToken row or forgets that a reset link was used.
LEMMA NothingRevived ==
  ASSUME Inv, [Next]_vars
  PROVE  /\ \A t \in RefreshId :
              refreshToken[t].st # "free" /\ ~Unrevoked(refreshToken[t]) =>
                refreshToken'[t].st # "free" /\ ~Unrevoked(refreshToken'[t])
         /\ \A k \in ResetId :
              resetToken[k].usedAt # None => resetToken'[k].usedAt # None
  <1> DEFINE Rows == \A t \in RefreshId :
               refreshToken[t].st # "free" /\ ~Unrevoked(refreshToken[t]) =>
                 refreshToken'[t].st # "free" /\ ~Unrevoked(refreshToken'[t])
             Links == \A k \in ResetId :
               resetToken[k].usedAt # None => resetToken'[k].usedAt # None
  <1> USE NoneAssumption DEF Inv, TypeOK
  <1>1. ASSUME NEW r \in Request, Step(r) PROVE Rows
    <2>1. CASE UNCHANGED refreshToken
      BY <2>1
    <2>2. ASSUME NEW t \in RefreshId, Issue(r, t) PROVE Rows
      BY <2>2 DEF Issue, Unrevoked
    <2>3. CASE RefreshRevoke(r)
      <3>1. PICK s \in RefreshId : s = req[r].token
        BY <2>3 DEF RefreshRevoke, RequestOK
      <3>2. CASE refreshToken' = Revoke(s)
        BY <3>2 DEF Revoke, RefreshRow, Unrevoked
      <3>3. QED
        BY <2>3, <3>1, <3>2 DEF RefreshRevoke
    <2>4. ASSUME NEW u \in User, refreshToken' = RevokeAll(u) PROVE Rows
      BY <2>4 DEF RevokeAll, Unrevoked
    <2>5. LogoutAll(r) \/ ResetCommit(r) => req[r].user \in User
      BY DEF LogoutAll, ResetCommit, RequestOK
    <2>6. QED
      BY <1>1, <2>1, <2>2, <2>3, <2>4, <2>5
      DEF Step, RegisterStart, LoginStart, LogoutStart, RequestResetStart,
          RefreshValidate, RequestResetCreate, ResetCheck, RegisterCreate, Sign,
          RefreshUser, LogoutAll, RequestResetMail, ResetCommit, Fail
  <1>2. CASE Cleanup
    <2>1. Rows
      <3> SUFFICES ASSUME NEW t \in RefreshId, refreshToken[t].st # "free",
                          ~Unrevoked(refreshToken[t])
                   PROVE  refreshToken'[t].st # "free" /\ ~Unrevoked(refreshToken'[t])
        OBVIOUS
      <3>1. refreshToken[t] \in RefreshRow
        OBVIOUS
      <3>2. QED
        BY <1>2, <3>1 DEF Cleanup, Unrevoked, RefreshRow
    <2>2. QED
      BY <1>2, <2>1 DEF Cleanup
  <1>3. ASSUME NEW r \in Request, Step(r) PROVE Links
    <2>1. CASE UNCHANGED resetToken
      BY <2>1
    <2>2. ASSUME NEW k \in ResetId, RequestResetCreate(r, k) PROVE Links
      <3>1. resetToken[k].usedAt = None
        BY <2>2 DEF RequestResetCreate, ResetOK
      <3>2. QED
        BY <2>2, <3>1 DEF RequestResetCreate
    <2>3. CASE RequestResetMail(r)
      <3>1. PICK k \in ResetId : k = req[r].key
        BY <2>3 DEF RequestResetMail, RequestOK
      <3>2. QED
        BY <2>3, <3>1 DEF RequestResetMail, ResetRow
    <2>4. CASE ResetCommit(r)
      <3>1. PICK k \in ResetId : k = req[r].key
        BY <2>4 DEF ResetCommit, RequestOK
      <3>2. QED
        BY <2>4, <3>1 DEF ResetCommit, ResetRow
    <2>5. QED
      BY <1>3, <2>1, <2>2, <2>3, <2>4
      DEF Step, RegisterStart, LoginStart, LogoutStart, RequestResetStart,
          RefreshValidate, Issue, ResetCheck, RegisterCreate, Sign,
          RefreshUser, RefreshRevoke, LogoutAll, Fail
  <1>4. CASE Tick \/ (\E u \in User : Deactivate(u)) \/ UNCHANGED vars
    BY <1>4 DEF Tick, Deactivate, vars
  <1>5. QED
    BY <1>1, <1>2, <1>3, <1>4 DEF Next

\* A request comes to hold a refresh token only by validating it, and to hold a
\* reset link for hashing only by checking it.
LEMMA HeldOnlyIfAccepted ==
  ASSUME Inv, [Next]_vars, NEW r \in Request
  PROVE  /\ \A t \in RefreshId :
              req'[r].token = t =>
                req[r].token = t \/ Unrevoked(refreshToken[t])
         /\ \A k \in ResetId :
              req'[r].pc = "rehash" /\ req'[r].key = k =>
                \/ req[r].pc = "rehash" /\ req[r].key = k
                \/ resetToken[k].usedAt = None
  <1> DEFINE Held == /\ \A t \in RefreshId :
                          req'[r].token = t =>
                            req[r].token = t \/ Unrevoked(refreshToken[t])
                     /\ \A k \in ResetId :
                          req'[r].pc = "rehash" /\ req'[r].key = k =>
                            \/ req[r].pc = "rehash" /\ req[r].key = k
                            \/ resetToken[k].usedAt = None
  <1> USE NoneAssumption DEF Inv, TypeOK
  <1>1. CASE req'[r] = req[r] \/ req'[r] = Idle
    BY <1>1 DEF Idle
  <1>2. ASSUME NEW q \in Request, Step(q) PROVE Held
    <2>1. CASE q = r
      <3>1. ASSUME NEW u \in User,
                   RegisterStart(r, u) \/ LoginStart(r, u) \/ LogoutStart(r, u)
                     \/ RequestResetStart(r, u)
            PROVE  Held
        <4>1. req'[r].token = None /\ req'[r].pc # "rehash"
          <5>1. CASE RegisterStart(r, u)
            BY <5>1 DEF RegisterStart, Idle
          <5>2. CASE LoginStart(r, u)
            BY <5>2 DEF LoginStart, Idle
          <5>3. CASE LogoutStart(r, u)
            BY <5>3 DEF LogoutStart, Idle
          <5>4. CASE RequestResetStart(r, u)
            BY <5>4 DEF RequestResetStart, Idle
          <5>5. QED
            BY <3>1, <5>1, <5>2, <5>3, <5>4
        <4>2. QED
          BY <4>1
      <3>2. ASSUME NEW t \in RefreshId, RefreshValidate(r, t) PROVE Held
        BY <3>2 DEF RefreshValidate, Accepted, Idle
      <3>3. ASSUME NEW k \in ResetId, ResetCheck(r, k) PROVE Held
        BY <3>3 DEF ResetCheck, ResetAccepted, Idle
      <3>4. ASSUME NEW k \in ResetId, RequestResetCreate(r, k) PROVE Held
        BY <3>4 DEF RequestResetCreate, RequestRecord
      <3>5. CASE RegisterCreate(r)
        <4>1. CASE account[req[r].user].st = "none"
          <5> DEFINE x == [Idle EXCEPT !.pc = "sign", !.user = req[r].user,
                                       !.pw = account[req[r].user].pw,
                                       !.epoch = revocations[req[r].user]]
          <5>1. req' = [req EXCEPT ![r] = x]
            BY <3>5, <4>1 DEF RegisterCreate
          <5>2. x.token = None /\ x.pc = "sign"
            BY DEF Idle
          <5> HIDE DEF x
          <5>3. req'[r] = x
            BY <5>1
          <5>4. QED
            BY <5>2, <5>3
        <4>2. CASE account[req[r].user].st # "none"
          BY <1>1, <3>5, <4>2 DEF RegisterCreate
        <4>3. QED
          BY <4>1, <4>2
      <3>6. CASE Sign(r)
        BY <3>6 DEF Sign, RequestRecord
      <3>7. CASE RefreshUser(r)
        BY <3>7 DEF RefreshUser, RequestRecord, Idle
      <3>8. CASE RefreshRevoke(r)
        BY <3>8 DEF RefreshRevoke, RequestRecord, Idle
      <3>9. (\E t \in RefreshId : Issue(r, t)) \/ LogoutAll(r)
              \/ RequestResetMail(r) \/ ResetCommit(r) \/ Fail(r)
              => req'[r] = Idle
        BY DEF Issue, LogoutAll, RequestResetMail, ResetCommit, Fail, Overtaken
      <3>10. QED
        BY <1>1, <1>2, <2>1, <3>1, <3>2, <3>3, <3>4, <3>5, <3>6, <3>7, <3>8, <3>9
        DEF Step
    <2>2. CASE q # r
      <3>1. /\ req'[r].token = req[r].token
            /\ req'[r].pc = req[r].pc
            /\ req'[r].key = req[r].key
        <4>1. LogoutAll(q) \/ ResetCommit(q) => req[q].user \in User
          BY DEF LogoutAll, ResetCommit, RequestOK
        <4>2. ASSUME NEW u \in User, req' = [Overtaken(u) EXCEPT ![q] = Idle]
              PROVE  /\ req'[r].token = req[r].token
                     /\ req'[r].pc = req[r].pc
                     /\ req'[r].key = req[r].key
          BY <2>2, <4>2 DEF Overtaken, RequestRecord
        <4>3. LogoutAll(q) \/ ResetCommit(q)
                => req' = [Overtaken(req[q].user) EXCEPT ![q] = Idle]
          BY DEF LogoutAll, ResetCommit
        <4>4. CASE LogoutAll(q) \/ ResetCommit(q)
          BY <4>1, <4>2, <4>3, <4>4
        <4>5. CASE ~(LogoutAll(q) \/ ResetCommit(q))
          BY <1>2, <2>2, <4>5
          DEF Step, RegisterStart, LoginStart, LogoutStart, RequestResetStart,
              RefreshValidate, Issue, RequestResetCreate, ResetCheck,
              RegisterCreate, Sign, RefreshUser, RefreshRevoke,
              RequestResetMail, Fail
        <4>6. QED
          BY <4>4, <4>5
      <3>2. QED
        BY <3>1
    <2>3. QED
      BY <2>1, <2>2
  <1>3. CASE Cleanup \/ Tick \/ (\E u \in User : Deactivate(u)) \/ UNCHANGED vars
    BY <1>1, <1>3 DEF Cleanup, Tick, Deactivate, vars
  <1>4. QED
    BY <1>2, <1>3 DEF Next

\* A refresh token that is revoked or deleted, with no request in flight that
\* had validated it, never opens a session again (jwt-refresh.strategy.ts).
THEOREM SpentForGood == Spec => SpentStaysSpent
  <1>1. ASSUME Inv, [Next]_vars, NEW t \in RefreshId, Spent(t)
        PROVE  Spent(t)'
    BY <1>1, NothingRevived, HeldOnlyIfAccepted DEF Spent
  <1>2. Inv /\ [Next]_vars
          => [\A t \in RefreshId : Spent(t) => Spent(t)']_vars
    BY <1>1
  <1>3. QED
    BY <1>2, InvHolds, PTL DEF Spec, SpentStaysSpent

\* A reset link that was used, with no request still hashing for it, never
\* changes the password again (auth.service.ts resetPassword).
THEOREM ConsumedForGood == Spec => ConsumedStaysConsumed
  <1>1. ASSUME Inv, [Next]_vars, NEW k \in ResetId, Consumed(k)
        PROVE  Consumed(k)'
    BY <1>1, NothingRevived, HeldOnlyIfAccepted DEF Consumed
  <1>2. Inv /\ [Next]_vars
          => [\A k \in ResetId : Consumed(k) => Consumed(k)']_vars
    BY <1>1
  <1>3. QED
    BY <1>2, InvHolds, PTL DEF Spec, ConsumedStaysConsumed

-----------------------------------------------------------------------------
\* The refinement of TokenRotation.  Three kinds of step are visible there:
\* a request takes hold of a token (RefreshValidate), lets go of it (Issue,
\* or failing), or some tokens die; the other steps stutter.

\* A refresh goes on for the account of the token it presented.
SameUser ==
  \A r \in Request :
    req[r].token # None => req[r].user = refreshToken[req[r].token].userId

Lives == [t \in RefreshId |-> Life(refreshToken[t])]
Owners == [t \in RefreshId |-> refreshToken[t].userId]
Helds == [r \in Request |-> req[r].token]

\* Tokens die at most, and no refresh gets or loses its hold.
Fading ==
  /\ Helds' = Helds
  /\ Owners' = Owners
  /\ \A t \in RefreshId : \/ Lives'[t] = Lives[t]
                          \/ Lives[t] = "live" /\ Lives'[t] = "dead"

\* No request moves on to another token, no row to another user.
Steady ==
  /\ \A q \in Request : \/ req'[q].token = None
                        \/ req'[q].token = req[q].token /\ req'[q].user = req[q].user
  /\ \A t \in RefreshId :
       refreshToken[t].st # "free" => refreshToken'[t].userId = refreshToken[t].userId

LEMMA FadingEnds ==
  ASSUME Fading
  PROVE  Abstract!End
  <1> DEFINE T == {t \in RefreshId : Lives[t] = "live" /\ Lives'[t] = "dead"}
  <1>1. Lives' = [t \in RefreshId |-> IF t \in T THEN "dead" ELSE Lives[t]]
    <2>1. \A t \in RefreshId : Lives'[t] = IF t \in T THEN "dead" ELSE Lives[t]
      BY DEF Fading
    <2>2. Lives' = [t \in RefreshId |-> Lives'[t]]
      BY DEF Lives
    <2> HIDE DEF T
    <2> QED
      BY <2>1, <2>2
  <1>2. T \in SUBSET {t \in RefreshId : Lives[t] = "live"}
    OBVIOUS
  <1>3. Helds' = Helds /\ Owners' = Owners
    BY DEF Fading
  <1> HIDE DEF T
  <1> QED
    BY <1>1, <1>2, <1>3
       DEF Abstract!End, Abstract!Dead, Abstract!Live, Lives, Owners, Helds

LEMMA SteadyKeeps ==
  ASSUME Inv, SameUser, Steady
  PROVE  SameUser'
  <1> SUFFICES ASSUME NEW r \in Request, req'[r].token # None
               PROVE  req'[r].user = refreshToken'[req'[r].token].userId
    BY DEF SameUser
  <1>1. req'[r].token = req[r].token /\ req'[r].user = req[r].user
    BY DEF Steady
  <1>2. /\ req[r].token \in RefreshId /\ refreshToken[req[r].token].st # "free"
        /\ req[r].user = refreshToken[req[r].token].userId
    BY <1>1 DEF Inv, TypeOK, RequestRecord, RequestOK, SameUser
  <1> QED
    BY <1>1, <1>2 DEF Steady

\* A request that moves on and keeps what it holds.
LEMMA MovesOn ==
  ASSUME Inv, NEW r \in Request, NEW x, req' = [req EXCEPT ![r] = x],
         refreshToken' = refreshToken, x.token = req[r].token,
         x.token = None \/ x.user = req[r].user
  PROVE  Fading /\ Steady
  <1>1. req'[r] = x /\ \A q \in Request : q # r => req'[q] = req[q]
    BY DEF Inv, TypeOK
  <1>2. Helds' = Helds
    BY <1>1 DEF Helds
  <1>3. Steady
    BY <1>1 DEF Steady
  <1> QED
    BY <1>2, <1>3 DEF Fading, Lives, Owners

\* A request that ends without an answer: a refresh lets go of its token.
LEMMA LetsGo ==
  ASSUME Inv, NEW r \in Request, req' = [req EXCEPT ![r] = Idle],
         refreshToken' = refreshToken
  PROVE  Abstract!Next /\ Steady
  <1>1. req'[r] = Idle /\ Idle.token = None
        /\ \A q \in Request : q # r => req'[q] = req[q]
    BY DEF Inv, TypeOK, Idle
  <1>2. Steady
    BY <1>1 DEF Steady
  <1>3. CASE req[r].token = None
    <2>1. Helds' = Helds
      BY <1>1, <1>3 DEF Helds
    <2>2. Fading
      BY <2>1 DEF Fading, Lives, Owners
    <2> QED
      BY <1>2, <2>2, FadingEnds DEF Abstract!Next
  <1>4. CASE req[r].token # None
    <2>1. Helds[r] # None
      BY <1>4 DEF Helds
    <2>2. Helds' = [Helds EXCEPT ![r] = None]
      <3>1. Helds' = [q \in Request |-> IF q = r THEN None ELSE Helds[q]]
        BY <1>1 DEF Helds
      <3>2. Helds = [q \in Request |-> Helds[q]]
        BY DEF Helds
      <3> QED
        BY <3>1, <3>2
    <2> DEFINE T == {t \in RefreshId : FALSE}
    <2>3. Lives' = [t \in RefreshId |-> IF t \in T THEN "dead" ELSE Lives[t]]
      BY DEF Lives
    <2>4. T \in SUBSET ({Helds[r]} \cap {t \in RefreshId : Lives[t] = "live"})
      OBVIOUS
    <2>5. Owners' = Owners
      BY DEF Owners
    <2> HIDE DEF T
    <2>6. Abstract!Abandon(r)
      BY <2>1, <2>2, <2>3, <2>4, <2>5
         DEF Abstract!Abandon, Abstract!Dead, Abstract!Live, Lives, Owners, Helds
    <2> QED
      BY <1>2, <2>6 DEF Abstract!Next
  <1> QED
    BY <1>3, <1>4

\* A request that holds no token, and starts, goes on or ends.
LEMMA UnheldRotates ==
  ASSUME Inv, NEW r \in Request,
         \/ \E u \in User : \/ RegisterStart(r, u) \/ LoginStart(r, u)
                            \/ LogoutStart(r, u) \/ RequestResetStart(r, u)
         \/ \E k \in ResetId : RequestResetCreate(r, k) \/ ResetCheck(r, k)
         \/ RegisterCreate(r) \/ RequestResetMail(r)
  PROVE  Abstract!Next /\ Steady
  <1>1. req[r] \in RequestRecord /\ RequestOK(req[r]) /\ Idle.token = None
    BY DEF Inv, TypeOK, Idle
  <1>2. req[r].token = None
    BY <1>1 DEF RegisterStart, LoginStart, LogoutStart, RequestResetStart,
         RequestResetCreate, ResetCheck, RegisterCreate, RequestResetMail,
         RequestOK, Opening
  <1>3. refreshToken' = refreshToken
    BY DEF RegisterStart, LoginStart, LogoutStart, RequestResetStart,
         RequestResetCreate, ResetCheck, RegisterCreate, RequestResetMail
  <1> DEFINE new(pc, u) == [Idle EXCEPT !.pc = pc, !.user = u]
             login(pc, u) == [Idle EXCEPT !.pc = pc, !.user = u, !.pw = account[u].pw,
                                          !.epoch = revocations[u]]
             check(u, k) == [Idle EXCEPT !.pc = "rehash", !.user = u, !.key = k]
             mail(k) == [req[r] EXCEPT !.pc = "mail", !.key = k]
  <1>4. \A u, k, pc : /\ new(pc, u).token = None /\ login(pc, u).token = None
                      /\ check(u, k).token = None
    BY DEF Idle
  <1>5. \A k : mail(k).token = None
    BY <1>1, <1>2 DEF RequestRecord
  <1>6. \/ \E pc, u : req' = [req EXCEPT ![r] = new(pc, u)]
        \/ \E pc, u : req' = [req EXCEPT ![r] = login(pc, u)]
        \/ \E u, k : req' = [req EXCEPT ![r] = check(u, k)]
        \/ \E k : req' = [req EXCEPT ![r] = mail(k)]
        \/ req' = [req EXCEPT ![r] = Idle]
    <2>1. ASSUME NEW u \in User, RegisterStart(r, u) PROVE req' = [req EXCEPT ![r] = new("register", u)]
      BY <2>1 DEF RegisterStart
    <2>2. ASSUME NEW u \in User, LoginStart(r, u) PROVE req' = [req EXCEPT ![r] = login("compare", u)]
      BY <2>2 DEF LoginStart
    <2>3. ASSUME NEW u \in User, LogoutStart(r, u) PROVE req' = [req EXCEPT ![r] = new("logout", u)]
      BY <2>3 DEF LogoutStart
    <2>4. ASSUME NEW u \in User, RequestResetStart(r, u)
          PROVE  req' = [req EXCEPT ![r] = new("newReset", u)]
      BY <2>4 DEF RequestResetStart
    <2>5. ASSUME NEW k \in ResetId, RequestResetCreate(r, k)
          PROVE  req' = [req EXCEPT ![r] = mail(k)]
      BY <1>1, <2>5 DEF RequestResetCreate, RequestRecord, Inv, TypeOK
    <2>6. ASSUME NEW k \in ResetId, ResetCheck(r, k)
          PROVE  req' = [req EXCEPT ![r] = check(resetToken[k].userId, k)]
      BY <2>6 DEF ResetCheck
    <2>7. ASSUME RegisterCreate(r)
          PROVE  \/ req' = [req EXCEPT ![r] = login("sign", req[r].user)]
                 \/ req' = [req EXCEPT ![r] = Idle]
      BY <2>7 DEF RegisterCreate
    <2>8. ASSUME RequestResetMail(r) PROVE req' = [req EXCEPT ![r] = Idle]
      BY <2>8 DEF RequestResetMail
    <2> HIDE DEF new, login, check, mail
    <2> QED
      BY <2>1, <2>2, <2>3, <2>4, <2>5, <2>6, <2>7, <2>8
  <1> HIDE DEF new, login, check, mail
  <1>7. \E x : req' = [req EXCEPT ![r] = x] /\ x.token = None
    BY <1>1, <1>4, <1>5, <1>6
  <1> QED
    BY <1>2, <1>3, <1>7, MovesOn, FadingEnds DEF Abstract!Next

LEMMA ValidateRotates ==
  ASSUME Inv, SameUser, NEW r \in Request, NEW t \in RefreshId, RefreshValidate(r, t)
  PROVE  Abstract!Present(r, t) /\ SameUser'
  <1> DEFINE row == refreshToken[t]
             x == [Idle EXCEPT !.pc = "match", !.user = row.userId, !.token = t,
                               !.pw = row.pw, !.epoch = row.epoch,
                               !.raced = row.raced]
  <1>1. req[r].token = None /\ x.token = t /\ x.user = row.userId
    BY DEF RefreshValidate, Idle
  <1>2. /\ req' = [req EXCEPT ![r] = x] /\ refreshToken' = refreshToken
        /\ Unrevoked(row) /\ row.st = "stored"
    BY DEF RefreshValidate, Accepted, Unrevoked
  <1> HIDE DEF x
  <1>3. req'[r] = x /\ \A q \in Request : q # r => req'[q] = req[q]
    BY <1>2 DEF Inv, TypeOK
  <1>4. Helds[r] = None /\ Helds' = [Helds EXCEPT ![r] = t]
    BY <1>1, <1>3 DEF Helds
  <1>5. Lives' = Lives /\ Owners' = Owners /\ Lives[t] = "live"
    BY <1>2 DEF Lives, Owners, Life
  <1>6. Abstract!Present(r, t)
    BY <1>4, <1>5 DEF Abstract!Present, Lives, Owners, Helds
  <1>7. SameUser'
    BY <1>1, <1>2, <1>3 DEF SameUser
  <1> QED
    BY <1>6, <1>7

LEMMA RevokeRotates ==
  ASSUME Inv, NEW r \in Request, RefreshRevoke(r)
  PROVE  Abstract!Next /\ Steady
  <1>1. req[r] \in RequestRecord /\ RequestOK(req[r])
    BY DEF Inv, TypeOK
  <1>2. PICK t \in RefreshId : t = req[r].token
    BY <1>1 DEF RequestOK, RefreshRevoke
  <1>3. CASE refreshToken[t].st = "stored"
    <2> DEFINE x == [req[r] EXCEPT !.pc = "sign"]
               row == [refreshToken[t] EXCEPT !.revokedAt = now]
    <2>1. /\ req' = [req EXCEPT ![r] = x]
          /\ refreshToken' = [refreshToken EXCEPT ![t] = row]
      BY <1>2, <1>3 DEF RefreshRevoke, Revoke
    <2>2. x.token = req[r].token /\ x.user = req[r].user
      BY <1>1 DEF RequestRecord
    <2>3. row.st = "stored" /\ ~Unrevoked(row) /\ row.userId = refreshToken[t].userId
      BY <1>3, NoneAssumption DEF Unrevoked, RefreshRow, Inv, TypeOK
    <2> HIDE DEF x, row
    <2>4. req'[r] = x /\ \A q \in Request : q # r => req'[q] = req[q]
      BY <2>1 DEF Inv, TypeOK
    <2>5. /\ refreshToken'[t] = row
          /\ \A s \in RefreshId : s # t => refreshToken'[s] = refreshToken[s]
      BY <2>1 DEF Inv, TypeOK
    <2>6. Steady
      BY <2>2, <2>3, <2>4, <2>5 DEF Steady
    <2>7. Helds' = Helds /\ Owners' = Owners
      BY <2>2, <2>3, <2>4, <2>5 DEF Helds, Owners
    <2>8. \A s \in RefreshId : \/ Lives'[s] = Lives[s]
                               \/ Lives[s] = "live" /\ Lives'[s] = "dead"
      BY <1>3, <2>3, <2>5 DEF Lives, Life
    <2> QED
      BY <2>6, <2>7, <2>8, FadingEnds DEF Fading, Abstract!Next
  <1>4. CASE refreshToken[t].st # "stored"
    BY <1>2, <1>4, LetsGo DEF RefreshRevoke
  <1> QED
    BY <1>3, <1>4

LEMMA IssueRotates ==
  ASSUME Inv, SameUser, NEW r \in Request, NEW t \in RefreshId, Issue(r, t)
  PROVE  Abstract!Next /\ Steady
  <1> DEFINE row == [st |-> "stored", userId |-> req[r].user,
                     expiresAt |-> ResolveExpiryDate(RefreshTTL),
                     revokedAt |-> None, signedAt |-> req[r].signedAt,
                     parent |-> req[r].token, pw |-> req[r].pw,
                     epoch |-> req[r].epoch, raced |-> req[r].raced]
  <1>1. /\ req[r] \in RequestRecord /\ RequestOK(req[r]) /\ req[r].pc = "insert"
        /\ req[r].user \in User
    BY DEF Inv, TypeOK, Issue, RequestOK, Opening
  <1>2. /\ refreshToken' = [refreshToken EXCEPT ![t] = row]
        /\ req' = [req EXCEPT ![r] = Idle]
        /\ refreshToken[t].st = "free"
    BY DEF Issue
  <1>3. Unrevoked(row) /\ row.st = "stored" /\ row.userId = req[r].user
    BY DEF Unrevoked
  <1> HIDE DEF row
  <1>4. /\ refreshToken'[t] = row
        /\ \A s \in RefreshId : s # t => refreshToken'[s] = refreshToken[s]
        /\ req'[r] = Idle /\ Idle.token = None
        /\ \A q \in Request : q # r => req'[q] = req[q]
    BY <1>2 DEF Inv, TypeOK, Idle
  <1>5. Steady
    BY <1>2, <1>4 DEF Steady
  <1>6. Lives[t] = "free" /\ Lives' = [Lives EXCEPT ![t] = "live"]
    BY <1>2, <1>3, <1>4 DEF Lives, Life
  <1>7. Owners' = [Owners EXCEPT ![t] = req[r].user]
    BY <1>3, <1>4 DEF Owners
  <1>8. CASE req[r].token = None
    <2>1. Helds' = Helds
      BY <1>4, <1>8 DEF Helds
    <2>2. PICK a \in User : a = req[r].user
      BY <1>1
    <2>3. Abstract!Open(t, a)
      BY <1>6, <1>7, <2>1, <2>2 DEF Abstract!Open, Lives, Owners, Helds
    <2> QED
      BY <1>5, <2>3 DEF Abstract!Next
  <1>9. CASE req[r].token # None
    <2>1. PICK p \in RefreshId : p = req[r].token
      BY <1>1, <1>9 DEF RequestRecord
    <2>2. /\ refreshToken[p].st # "free" /\ ~Unrevoked(refreshToken[p])
          /\ refreshToken[p].userId = req[r].user
      BY <1>1, <1>9, <2>1 DEF RequestOK, SameUser
    <2>3. Lives[p] = "dead" /\ Owners[p] = req[r].user /\ Helds[r] = p /\ p # None
      BY <1>9, <2>1, <2>2 DEF Lives, Owners, Helds, Life
    <2>4. Helds' = [Helds EXCEPT ![r] = None]
      BY <1>4 DEF Helds
    <2>5. [s \in RefreshId |-> IF s \in {p} THEN "dead" ELSE Lives[s]] = Lives
      BY <2>3 DEF Lives
    <2>6. Abstract!Rotate(r, t)
      BY <1>6, <1>7, <2>3, <2>4, <2>5
         DEF Abstract!Rotate, Abstract!Dead, Lives, Owners, Helds
    <2> QED
      BY <1>5, <2>6 DEF Abstract!Next
  <1> QED
    BY <1>8, <1>9

\* A logout or a reset: the tokens of its user die.
LEMMA CommitRotates ==
  ASSUME Inv, NEW r \in Request, LogoutAll(r) \/ ResetCommit(r)
  PROVE  Abstract!Next /\ Steady
  <1>1. req[r].token = None
    BY DEF Inv, LogoutAll, ResetCommit, RequestOK, Opening
  <1>2. PICK u : /\ refreshToken' = RevokeAll(u)
                 /\ req' = [Overtaken(u) EXCEPT ![r] = Idle]
    BY DEF LogoutAll, ResetCommit
  <1>3. \A q \in Request : /\ req'[q].token = req[q].token
                           /\ q # r => req'[q].user = req[q].user
    <2> SUFFICES ASSUME NEW q \in Request
                 PROVE  /\ req'[q].token = req[q].token
                        /\ q # r => req'[q].user = req[q].user
      OBVIOUS
    <2>1. req[q] \in RequestRecord
      BY DEF Inv, TypeOK
    <2>2. CASE q = r
      BY <1>1, <1>2, <2>2 DEF Overtaken, Idle
    <2>3. CASE q # r
      <3>1. req'[q] = req[q] \/ req'[q] = [req[q] EXCEPT !.raced = TRUE]
        BY <1>2, <2>3 DEF Overtaken
      <3> QED
        BY <2>1, <3>1, <2>3 DEF RequestRecord
    <2> QED
      BY <2>2, <2>3
  <1>4. \A t \in RefreshId :
          \/ refreshToken'[t] = refreshToken[t]
          \/ /\ Unrevoked(refreshToken[t]) /\ ~Unrevoked(refreshToken'[t])
             /\ refreshToken'[t].st = refreshToken[t].st
             /\ refreshToken'[t].userId = refreshToken[t].userId
    BY <1>2, NoneAssumption DEF RevokeAll, Unrevoked, Inv, TypeOK, RefreshRow
  <1>5. Steady
    BY <1>1, <1>3, <1>4 DEF Steady
  <1>6. Helds' = Helds /\ Owners' = Owners
    BY <1>3, <1>4 DEF Helds, Owners
  <1>7. \A t \in RefreshId : \/ Lives'[t] = Lives[t]
                             \/ Lives[t] = "live" /\ Lives'[t] = "dead"
    BY <1>4 DEF Lives, Life, Unrevoked
  <1> QED
    BY <1>5, <1>6, <1>7, FadingEnds DEF Fading, Abstract!Next

LEMMA AroundRotates ==
  ASSUME Inv, Cleanup \/ Tick \/ (\E u \in User : Deactivate(u)) \/ UNCHANGED vars
  PROVE  Abstract!Next /\ Steady
  <1>1. req' = req
    BY DEF Cleanup, Tick, Deactivate, vars
  <1>2. \A t \in RefreshId :
          \/ refreshToken'[t] = refreshToken[t]
          \/ /\ refreshToken[t].st = "stored" /\ refreshToken'[t].st = "deleted"
             /\ refreshToken'[t].userId = refreshToken[t].userId
    <2>1. CASE Cleanup
      BY <2>1 DEF Cleanup, Disposable, Inv, TypeOK, RefreshRow
    <2>2. CASE ~Cleanup
      BY <2>2 DEF Tick, Deactivate, vars
    <2> QED
      BY <2>1, <2>2
  <1>3. Steady
    BY <1>1, <1>2 DEF Steady
  <1>4. Helds' = Helds /\ Owners' = Owners
    BY <1>1, <1>2 DEF Helds, Owners
  <1>5. \A t \in RefreshId : \/ Lives'[t] = Lives[t]
                             \/ Lives[t] = "live" /\ Lives'[t] = "dead"
    BY <1>2 DEF Lives, Life, Unrevoked
  <1> QED
    BY <1>3, <1>4, <1>5, FadingEnds DEF Fading, Abstract!Next

LEMMA NextRotates ==
  ASSUME Inv, SameUser, [Next]_vars
  PROVE  Abstract!Next /\ SameUser'
  <1>1. ASSUME NEW r \in Request, Step(r) PROVE Abstract!Next /\ SameUser'
    <2>1. ASSUME NEW t \in RefreshId, RefreshValidate(r, t)
          PROVE  Abstract!Next /\ SameUser'
      <3>1. Abstract!Present(r, t) /\ SameUser'
        BY <2>1, ValidateRotates
      <3> QED
        BY <3>1 DEF Abstract!Next
    <2>2. CASE Sign(r)
      <3> DEFINE x == [req[r] EXCEPT !.pc = "insert", !.signedAt = now]
      <3>1. req' = [req EXCEPT ![r] = x] /\ refreshToken' = refreshToken
        BY <2>2 DEF Sign, Inv, TypeOK, RequestRecord
      <3>2. x.token = req[r].token /\ x.user = req[r].user
        BY DEF Inv, TypeOK, RequestRecord
      <3> HIDE DEF x
      <3> QED
        BY <3>1, <3>2, MovesOn, FadingEnds, SteadyKeeps DEF Abstract!Next
    <2>3. CASE RefreshUser(r)
      <3> DEFINE x == [req[r] EXCEPT !.pc = "revoke"]
      <3>1. /\ req' = [req EXCEPT ![r] = x] \/ req' = [req EXCEPT ![r] = Idle]
            /\ refreshToken' = refreshToken
        BY <2>3 DEF RefreshUser
      <3>2. x.token = req[r].token /\ x.user = req[r].user
        BY DEF Inv, TypeOK, RequestRecord
      <3> HIDE DEF x
      <3> QED
        BY <3>1, <3>2, MovesOn, LetsGo, FadingEnds, SteadyKeeps DEF Abstract!Next
    <2>4. CASE Fail(r)
      BY <2>4, LetsGo, SteadyKeeps DEF Fail
    <2> QED
      BY <1>1, <2>1, <2>2, <2>3, <2>4, UnheldRotates, RevokeRotates, IssueRotates,
         CommitRotates, SteadyKeeps DEF Step
  <1>2. CASE Cleanup \/ Tick \/ (\E u \in User : Deactivate(u)) \/ UNCHANGED vars
    BY <1>2, AroundRotates, SteadyKeeps
  <1> QED
    BY <1>1, <1>2 DEF Next

\* Sessions implement TokenRotation, for any number of accounts, requests and
\* tokens (auth.service.ts, jwt-refresh.strategy.ts, the cleanup job).
THEOREM Implements == Spec => ImplementsRotation
  <1>1. Init => Abstract!Init /\ SameUser
    <2> SUFFICES ASSUME Init PROVE Abstract!Init /\ SameUser
      OBVIOUS
    <2>1. SameUser
      BY DEF Init, Idle, SameUser
    <2>2. /\ Lives = [t \in RefreshId |-> "free"]
          /\ Owners = [t \in RefreshId |-> None]
          /\ Helds = [r \in Request |-> None]
      BY DEF Init, Idle, FreeRow, Lives, Owners, Helds, Life
    <2> QED
      BY <2>1, <2>2 DEF Abstract!Init, Lives, Owners, Helds
  <1>2. Inv /\ SameUser /\ [Next]_vars => [Abstract!Next]_Abstract!vars /\ SameUser'
    BY NextRotates
  <1> QED
    BY <1>1, <1>2, InvHolds, PTL DEF Spec, ImplementsRotation, Abstract!Spec

=============================================================================
