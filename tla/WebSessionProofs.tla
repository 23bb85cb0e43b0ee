-------------------------- MODULE WebSessionProofs --------------------------
(***************************************************************************)
(* Proofs about WebSession, for any number of calls and tokens: however    *)
(* the answers of concurrent refreshes overtake one another, the tab does  *)
(* not fall back to a rotated refresh token.                               *)
(***************************************************************************)
EXTENDS WebSession, TLAPS

\* A pair in an answer is known to nobody else yet: not stored, not presented,
\* and so not rotated.
Undelivered(c) ==
  LET t == call[c].got IN
    t # None =>
      /\ call[c].pc = "minted"
      /\ session[t].st \in {"live", "ended"}
      /\ store # t
      /\ \A d \in Call : call[d].used # t /\ (d # c => call[d].got # t)

\* A pair not minted yet is nowhere.
Unknown(t) ==
  session[t].st = "free" => store # t /\ \A c \in Call : call[c].used # t

\* When the stored token was rotated, the answer that replaces it is on its way.
Replaced ==
  store # None /\ session[store].st = "rotated"
    => \E c \in Call : call[c].pc = "minted" /\ call[c].used = store

Inv ==
  /\ TypeOK
  /\ \A c \in Call : Undelivered(c)
  /\ \A t \in Token : Unknown(t)
  /\ Replaced

-----------------------------------------------------------------------------
LEMMA NoneFacts == None \notin Token /\ Token \subseteq Int
  BY MaxTokenAssumption DEF None, Token

LEMMA IdleTyped ==
  /\ Idle \in CallRecord
  /\ \A k \in {"api", "me", "login", "logout"}, t \in Token \cup {None} :
       /\ Fetch(k, t) \in CallRecord
       /\ Fetch(k, t).pc = "sent" /\ Fetch(k, t).used = None /\ Fetch(k, t).got = None
  BY DEF Idle, Fetch, CallRecord

LEMMA InitInv == Init => Inv
  <1> SUFFICES ASSUME Init PROVE Inv
    OBVIOUS
  <1>1. TypeOK
    BY IdleTyped DEF Init, TypeOK, SessionRow, Idle
  <1>2. QED
    BY <1>1, NoneFacts DEF Init, Inv, Undelivered, Unknown, Replaced, Idle

-----------------------------------------------------------------------------
\* Sessions may end at any time; what else they are stays.
Ending ==
  \A t \in Token :
    \/ session'[t].st = session[t].st
    \/ session[t].st = "live" /\ session'[t].st = "ended"

LEMMA EndedFacts ==
  ASSUME session \in [Token -> SessionRow], NEW T, session' = Ended(T)
  PROVE  session' \in [Token -> SessionRow] /\ Ending
  <1>1. \A t \in Token : session[t] \in SessionRow
    OBVIOUS
  <1>2. \A t \in Token : [session[t] EXCEPT !.st = "ended"] \in SessionRow
    BY <1>1 DEF SessionRow
  <1>3. QED
    BY <1>1, <1>2 DEF Ended, Ending, SessionRow

\* A call that moves without taking a pair: it may present the stored token,
\* and if it empties the store or stores the pair it got, nothing is left to
\* be replaced.
LEMMA CallMoves ==
  ASSUME Inv, TypeOK', NEW c \in Call, NEW x, call' = [call EXCEPT ![c] = x],
         x.got = None, x.used \in {None, store, call[c].used}, Ending,
         \/ store' = None
         \/ store' = store /\ (call[c].pc = "minted" => call[c].used # store)
         \/ store' = call[c].got
  PROVE  Inv'
  <1>1. /\ call'[c] = x /\ \A d \in Call : d # c => call'[d] = call[d]
        /\ store \in Token \cup {None} /\ store' \in Token \cup {None}
        /\ \A d \in Call : /\ call[d].got \in Token \cup {None}
                           /\ call[d].used \in Token \cup {None}
    BY DEF Inv, TypeOK, CallRecord
  <1>2. ASSUME NEW d \in Call PROVE Undelivered(d)'
    <2>1. CASE d = c
      BY <1>1, <2>1 DEF Undelivered
    <2>2. CASE d # c
      <3>1. PICK t : t = call[d].got
        OBVIOUS
      <3>2. CASE t = None
        BY <1>1, <2>2, <3>1, <3>2 DEF Undelivered
      <3>3. CASE t # None
        <4>1. /\ t \in Token /\ call[d].pc = "minted"
              /\ session[t].st \in {"live", "ended"}
              /\ store # t
              /\ \A e \in Call : call[e].used # t /\ (e # d => call[e].got # t)
          BY <1>1, <3>1, <3>3 DEF Inv, Undelivered
        <4>2. session'[t].st \in {"live", "ended"}
          BY <4>1 DEF Ending
        <4>3. store' # t
          BY <2>2, <3>3, <4>1
        <4>4. \A e \in Call : call'[e].used # t /\ (e # d => call'[e].got # t)
          BY <1>1, <3>3, <4>1
        <4>5. QED
          BY <1>1, <2>2, <3>1, <4>1, <4>2, <4>3, <4>4 DEF Undelivered
      <3>4. QED
        BY <3>2, <3>3
    <2>3. QED
      BY <2>1, <2>2
  <1>3. ASSUME NEW t \in Token PROVE Unknown(t)'
    <2>1. SUFFICES ASSUME session'[t].st = "free"
                   PROVE  store' # t /\ \A d \in Call : call'[d].used # t
      BY DEF Unknown
    <2>2. session[t].st = "free"
      BY <2>1 DEF Ending
    <2>3. store # t /\ \A d \in Call : call[d].used # t
      BY <2>2 DEF Inv, Unknown
    <2>4. call[c].got # t
      BY <2>2, NoneFacts DEF Inv, Undelivered
    <2>5. QED
      BY <1>1, <2>3, <2>4, NoneFacts
  <1>4. Replaced'
    <2>1. SUFFICES ASSUME store' # None, session'[store'].st = "rotated"
                   PROVE  \E d \in Call : call'[d].pc = "minted" /\ call'[d].used = store'
      BY DEF Replaced, None
    <2>2. session[store'].st = "rotated"
      BY <1>1, <2>1 DEF Ending
    <2>3. CASE store' = store /\ (call[c].pc = "minted" => call[c].used # store)
      <3>1. PICK d \in Call : call[d].pc = "minted" /\ call[d].used = store
        BY <2>1, <2>2, <2>3 DEF Inv, Replaced
      <3>2. QED
        BY <1>1, <2>3, <3>1
    <2>4. CASE store' = call[c].got
      BY <2>1, <2>2, <2>4 DEF Inv, Undelivered
    <2>5. QED
      BY <2>1, <2>3, <2>4
  <1>5. QED
    BY <1>2, <1>3, <1>4 DEF Inv

\* A step that leaves the store and what the calls hold alone.
LEMMA CallsStay ==
  ASSUME Inv, TypeOK', store' = store, Ending,
         \A c \in Call : /\ call'[c].pc = call[c].pc
                         /\ call'[c].used = call[c].used
                         /\ call'[c].got = call[c].got
  PROVE  Inv'
  <1>1. store \in Token \cup {None} /\ \A c \in Call : call[c].got \in Token \cup {None}
    BY DEF Inv, TypeOK, CallRecord
  <1>2. \A c \in Call : Undelivered(c)'
    BY <1>1 DEF Inv, Undelivered, Ending
  <1>3. \A t \in Token : Unknown(t)'
    BY DEF Inv, Unknown, Ending
  <1>4. Replaced'
    BY <1>1 DEF Inv, Replaced, Ending
  <1>5. QED
    BY <1>2, <1>3, <1>4 DEF Inv

-----------------------------------------------------------------------------
\* A call that ends without having been given a pair in place of the stored
\* token, or that empties the store.
LEMMA SettleInv ==
  ASSUME Inv, NEW c \in Call, NEW s \in Token \cup {None}, NEW good \in BOOLEAN,
         Settle(c, s, good),
         \/ s = None
         \/ s = store /\ (call[c].pc = "minted" => call[c].used # store)
  PROVE  Inv'
  <1>1. /\ store' \in {None, s}
        /\ call' = [call EXCEPT ![c] = Idle]
        /\ session' = session
        /\ user' \in BOOLEAN
        /\ page' \in {"blank", "loading", "ready"}
    BY DEF Settle, PageAfter, Inv, TypeOK, CallRecord
  <1>2. TypeOK'
    BY <1>1, IdleTyped DEF Inv, TypeOK, Idle
  <1>3. Idle.got = None /\ Idle.used = None /\ Ending
    BY <1>1 DEF Idle, Ending
  <1>4. QED
    BY <1>1, <1>2, <1>3, CallMoves

\* A call that starts or starts again, with the token now in the store.
LEMMA FetchInv ==
  ASSUME Inv, NEW c \in Call, NEW x \in CallRecord, call' = [call EXCEPT ![c] = x],
         x.got = None, x.used = None, x.pc \notin {"refresh", "validated"},
         page' \in {"blank", "loading", "ready"}, UNCHANGED <<user, session>>,
         store' \in Token \cup {None},
         \/ store' = store /\ call[c].pc # "minted"
         \/ store' = call[c].got
  PROVE  Inv'
  <1>1. TypeOK'
    BY DEF Inv, TypeOK
  <1>2. Ending
    BY DEF Ending
  <1>3. QED
    BY <1>1, <1>2, CallMoves

LEMMA StartInv ==
  ASSUME Inv, NEW c \in Call, Mount(c) \/ CallApi(c) \/ Login(c) \/ Logout(c)
  PROVE  Inv'
  <1>1. call[c].pc # "minted" /\ store \in Token \cup {None}
    BY DEF Mount, CallApi, Login, Logout, Idle, Inv, TypeOK
  <1>2. CASE Mount(c)
    <2>1. CASE store = None
      <3>1. TypeOK' /\ Ending /\ store' = store /\ call' = call
        BY <1>2, <2>1 DEF Mount, Inv, TypeOK, Ending
      <3>2. QED
        BY <3>1, CallsStay
    <2>2. CASE store # None
      <3>1. /\ page' = "loading" /\ UNCHANGED <<store, user, session>>
            /\ call' = [call EXCEPT ![c] = Fetch("me", store)]
        BY <1>2, <2>2 DEF Mount
      <3>2. QED
        BY <1>1, <3>1, IdleTyped, FetchInv
    <2>3. QED
      BY <2>1, <2>2
  <1>3. CASE CallApi(c)
    <2>1. /\ UNCHANGED <<store, user, page, session>>
          /\ call' = [call EXCEPT ![c] = Fetch("api", store)]
      BY <1>3 DEF CallApi
    <2>2. page' \in {"blank", "loading", "ready"}
      BY <2>1 DEF Inv, TypeOK
    <2>3. QED
      BY <1>1, <2>1, <2>2, IdleTyped, FetchInv
  <1>4. CASE Logout(c)
    <2>1. /\ UNCHANGED <<store, user, page, session>>
          /\ call' = [call EXCEPT ![c] = Fetch("logout", store)]
      BY <1>4 DEF Logout
    <2>2. page' \in {"blank", "loading", "ready"}
      BY <2>1 DEF Inv, TypeOK
    <2>3. QED
      BY <1>1, <2>1, <2>2, IdleTyped, FetchInv
  <1>5. CASE Login(c)
    <2>1. PICK x : x = [Idle EXCEPT !.pc = "login", !.kind = "login"]
      OBVIOUS
    <2>2. /\ x \in CallRecord /\ x.got = None /\ x.used = None /\ x.pc = "login"
      BY <2>1 DEF Idle, CallRecord
    <2>3. /\ UNCHANGED <<store, user, page, session>>
          /\ call' = [call EXCEPT ![c] = x]
      BY <1>5, <2>1 DEF Login
    <2>4. page' \in {"blank", "loading", "ready"}
      BY <2>3 DEF Inv, TypeOK
    <2>5. QED
      BY <1>1, <2>2, <2>3, <2>4, FetchInv
  <1>6. QED
    BY <1>2, <1>3, <1>4, <1>5

LEMMA AnswerInv ==
  ASSUME Inv, NEW c \in Call,
         Accept(c) \/ Deny(c) \/ GiveUp(c) \/ Lose(c) \/ Retry(c) \/ LoggedIn(c)
  PROVE  Inv'
  <1>1. /\ call[c] \in CallRecord /\ store \in Token \cup {None}
        /\ call[c].got \in Token \cup {None}
        /\ page \in {"blank", "loading", "ready"}
    BY DEF Inv, TypeOK, CallRecord
  <1>2. CASE Accept(c)
    BY <1>1, <1>2, SettleInv DEF Accept
  <1>3. CASE Deny(c)
    BY <1>1, <1>3, SettleInv DEF Deny
  <1>4. CASE GiveUp(c)
    BY <1>1, <1>4, SettleInv DEF GiveUp
  <1>5. CASE Lose(c)
    <2>1. PICK s : s = IF call[c].used = None THEN store ELSE None
      OBVIOUS
    <2>2. Settle(c, s, FALSE)
      BY <1>5, <2>1 DEF Lose
    <2>3. \/ s = None
          \/ s = store /\ (call[c].pc = "minted" => call[c].used # store)
      <3>1. CASE call[c].used = None
        BY <2>1, <3>1
      <3>2. CASE call[c].used # None
        BY <2>1, <3>2
      <3>3. QED
        BY <3>1, <3>2
    <2>4. QED
      BY <1>1, <2>1, <2>2, <2>3, SettleInv
  <1>6. CASE Retry(c)
    <2>1. PICK x : x = [Fetch(call[c].kind, call[c].got) EXCEPT !.retry = FALSE]
      OBVIOUS
    <2>2. call[c].kind \in {"api", "me", "login", "logout"}
      BY <1>1 DEF CallRecord
    <2>3. /\ x \in CallRecord /\ x.got = None /\ x.used = None /\ x.pc = "sent"
      BY <1>1, <2>1, <2>2 DEF CallRecord, Fetch, Idle
    <2>4. /\ call' = [call EXCEPT ![c] = x] /\ store' = call[c].got
          /\ UNCHANGED <<user, page, session>>
      BY <1>6, <2>1 DEF Retry, StoredAfterRefresh
    <2>5. QED
      BY <1>1, <2>3, <2>4, FetchInv
  <1>7. CASE LoggedIn(c)
    <2>1. /\ call' = [call EXCEPT ![c] = Fetch("me", call[c].got)]
          /\ store' = call[c].got /\ UNCHANGED <<user, page, session>>
      BY <1>7 DEF LoggedIn
    <2>2. QED
      BY <1>1, <2>1, IdleTyped, FetchInv
  <1>8. QED
    BY <1>2, <1>3, <1>4, <1>5, <1>6, <1>7

\* A call that moves on: it presents the stored token or what it presented.
LEMMA MoveInv ==
  ASSUME Inv, NEW c \in Call,
         Renew(c) \/ Serve(c) \/ Validate(c) \/ Refuse(c)
  PROVE  Inv'
  <1>1. /\ call[c] \in CallRecord /\ store \in Token \cup {None}
        /\ call[c].pc # "minted" /\ call[c].got = None
    BY DEF Inv, TypeOK, Undelivered, Renew, Serve, Validate, Refuse, CallRecord
  <1>2. PICK x : x = call'[c]
    OBVIOUS
  <1>3. /\ call' = [call EXCEPT ![c] = x]
        /\ x \in CallRecord /\ x.got = None
        /\ x.used \in {store, call[c].used}
        /\ x.pc \in {"refresh", "validated"} => x.used # None
    <2>1. CASE Renew(c)
      BY <1>1, <1>2, <2>1 DEF Renew, CanRenew, Inv, TypeOK, CallRecord
    <2>2. CASE Serve(c)
      BY <1>1, <1>2, <2>2 DEF Serve, Inv, TypeOK, CallRecord
    <2>3. CASE Validate(c)
      BY <1>1, <1>2, <2>3 DEF Validate, Inv, TypeOK, CallRecord
    <2>4. CASE Refuse(c)
      BY <1>1, <1>2, <2>4 DEF Refuse, Inv, TypeOK, CallRecord
    <2>5. QED
      BY <2>1, <2>2, <2>3, <2>4
  <1>4. /\ session' = session \/ \E T : session' = Ended(T)
        /\ UNCHANGED <<store, user, page>>
    BY DEF Renew, Serve, Validate, Refuse
  <1>5. session' \in [Token -> SessionRow] /\ Ending
    BY <1>4, EndedFacts DEF Ending, Inv, TypeOK
  <1>6. TypeOK'
    BY <1>3, <1>4, <1>5 DEF Inv, TypeOK
  <1>7. Ending
    BY <1>5
  <1>8. QED
    BY <1>1, <1>3, <1>4, <1>6, <1>7, CallMoves

LEMMA AroundInv ==
  ASSUME Inv, Reload \/ EndSessions \/ \E t \in Token : Expire(t)
  PROVE  Inv'
  <1>1. CASE Reload
    <2>1. ASSUME NEW c \in Call
          PROVE  /\ call'[c] \in CallRecord
                 /\ call'[c].pc = call[c].pc
                 /\ call'[c].used = call[c].used
                 /\ call'[c].got = call[c].got
      <3>1. PICK q : q = call[c]
        OBVIOUS
      <3>2. q \in CallRecord
        BY <3>1 DEF Inv, TypeOK
      <3>3. [q EXCEPT !.waiting = FALSE] \in CallRecord
              /\ [q EXCEPT !.waiting = FALSE].pc = q.pc
              /\ [q EXCEPT !.waiting = FALSE].used = q.used
              /\ [q EXCEPT !.waiting = FALSE].got = q.got
        BY <3>2 DEF CallRecord
      <3>4. call'[c] = IF q = Idle THEN Idle ELSE [q EXCEPT !.waiting = FALSE]
        BY <1>1, <3>1 DEF Reload
      <3>5. QED
        BY <3>1, <3>2, <3>3, <3>4
    <2>2. TypeOK' /\ Ending /\ store' = store
      BY <1>1, <2>1 DEF Reload, Inv, TypeOK, Ending
    <2>3. QED
      BY <2>1, <2>2, CallsStay
  <1>2. CASE EndSessions
    <2>1. PICK T : session' = Ended(T)
      BY <1>2 DEF EndSessions
    <2>2. TypeOK' /\ Ending /\ store' = store /\ call' = call
      BY <1>2, <2>1, EndedFacts DEF EndSessions, Inv, TypeOK
    <2>3. QED
      BY <2>2, CallsStay
  <1>3. ASSUME NEW t \in Token, Expire(t) PROVE Inv'
    <2>1. TypeOK' /\ Ending /\ store' = store /\ call' = call
      BY <1>3 DEF Expire, Inv, TypeOK, SessionRow, Ending
    <2>2. QED
      BY <2>1, CallsStay
  <1>4. QED
    BY <1>1, <1>2, <1>3

LEMMA DiscardInv ==
  ASSUME Inv, NEW c \in Call, Discard(c)
  PROVE  Inv'
  <1>1. /\ call'[c] = Idle /\ \A d \in Call : d # c => call'[d] = call[d]
        /\ store' = store /\ store \in Token \cup {None}
        /\ \A d \in Call : call[d].got \in Token \cup {None}
        /\ Idle.got = None /\ Idle.used = None
    BY DEF Discard, Inv, TypeOK, CallRecord, Idle
  <1>2. \A t \in Token :
          /\ session[t] \in SessionRow /\ session'[t] \in SessionRow
          /\ session'[t].st = IF /\ call[c].pc = "minted" /\ t = call[c].used
                                 /\ session[t].st = "rotated"
                                THEN "stranded" ELSE session[t].st
    BY DEF Discard, Inv, TypeOK, SessionRow
  <1>3. TypeOK'
    BY <1>1, <1>2, IdleTyped DEF Discard, Inv, TypeOK, Idle
  <1>4. ASSUME NEW d \in Call PROVE Undelivered(d)'
    <2>1. CASE d = c
      BY <1>1, <2>1 DEF Undelivered
    <2>2. CASE d # c
      <3>1. PICK t : t = call[d].got
        OBVIOUS
      <3>2. t # None => /\ t \in Token /\ call[d].pc = "minted"
                        /\ session[t].st \in {"live", "ended"}
                        /\ store # t
                        /\ \A e \in Call : call[e].used # t /\ (e # d => call[e].got # t)
        BY <1>1, <3>1 DEF Inv, Undelivered
      <3>3. QED
        BY <1>1, <1>2, <2>2, <3>1, <3>2 DEF Undelivered
    <2>3. QED
      BY <2>1, <2>2
  <1>5. \A t \in Token : Unknown(t)'
    BY <1>1, <1>2, NoneFacts DEF Inv, Unknown
  <1>6. Replaced'
    BY <1>1, <1>2 DEF Inv, Replaced
  <1>7. QED
    BY <1>3, <1>4, <1>5, <1>6 DEF Inv

\* Minting: the new pair is nowhere yet, and the answer that carries it is what
\* replaces the token it rotates.
LEMMA MintInv ==
  ASSUME Inv, NEW c \in Call, Mint(c)
  PROVE  Inv'
  <1>1. PICK t \in Token :
          /\ session[t].st = "free"
          /\ session' = [s \in Token |->
               IF s = t THEN [st |-> "live", fresh |-> TRUE]
               ELSE IF s = call[c].used /\ session[s].st = "live"
                 THEN [session[s] EXCEPT !.st = "rotated"] ELSE session[s]]
          /\ call' = [call EXCEPT ![c].pc = "minted", ![c].got = t]
          /\ UNCHANGED <<store, user, page>>
    BY DEF Mint, Unminted
  <1>2. /\ call[c] \in CallRecord /\ call[c].pc \in {"validated", "login"}
        /\ store \in Token \cup {None}
        /\ \A d \in Call : call[d].got \in Token \cup {None}
    BY DEF Mint, Inv, TypeOK, CallRecord
  <1>3. PICK x : x = [call[c] EXCEPT !.pc = "minted", !.got = t]
    OBVIOUS
  <1>4. /\ x \in CallRecord /\ x.pc = "minted" /\ x.got = t /\ x.used = call[c].used
        /\ call' = [call EXCEPT ![c] = x]
    BY <1>1, <1>2, <1>3 DEF CallRecord, Inv, TypeOK
  <1>5. call'[c] = x /\ \A d \in Call : d # c => call'[d] = call[d]
    BY <1>4 DEF Inv, TypeOK
  <1>6. /\ session' \in [Token -> SessionRow]
        /\ session'[t].st = "live"
        /\ \A s \in Token : s # t =>
             session'[s].st = IF s = call[c].used /\ session[s].st = "live"
                                THEN "rotated" ELSE session[s].st
    BY <1>1 DEF Inv, TypeOK, SessionRow
  <1>7. TypeOK'
    BY <1>1, <1>4, <1>5, <1>6 DEF Inv, TypeOK
  <1>8. /\ store # t
        /\ \A d \in Call : call[d].used # t /\ call[d].got # t
    <2>1. \A d \in Call : call[d].got # t
      BY <1>1, NoneFacts DEF Inv, Undelivered
    <2>2. QED
      BY <1>1, <2>1 DEF Inv, Unknown
  <1>9. ASSUME NEW d \in Call PROVE Undelivered(d)'
    <2>1. CASE d = c
      <3>1. call'[d].got = t /\ call'[d].pc = "minted"
        BY <1>4, <1>5, <2>1
      <3>2. \A e \in Call : call'[e].used # t /\ (e # d => call'[e].got # t)
        BY <1>4, <1>5, <1>8, <2>1
      <3>3. session'[t].st = "live" /\ store' # t
        BY <1>1, <1>6, <1>8
      <3>4. QED
        BY <3>1, <3>2, <3>3 DEF Undelivered
    <2>2. CASE d # c
      <3>1. PICK s : s = call[d].got
        OBVIOUS
      <3>2. s # None => /\ s \in Token /\ call[d].pc = "minted" /\ s # t
                        /\ session[s].st \in {"live", "ended"}
                        /\ store # s
                        /\ \A e \in Call : call[e].used # s /\ (e # d => call[e].got # s)
        BY <1>2, <1>8, <3>1 DEF Inv, Undelivered
      <3>3. s # None => /\ session'[s].st \in {"live", "ended"}
                        /\ \A e \in Call : call'[e].used # s /\ (e # d => call'[e].got # s)
        BY <1>2, <1>4, <1>5, <1>6, <3>2
      <3>4. QED
        BY <1>1, <1>5, <2>2, <3>1, <3>2, <3>3 DEF Undelivered
    <2>3. QED
      BY <2>1, <2>2
  <1>10. ASSUME NEW s \in Token PROVE Unknown(s)'
    <2>1. session'[s].st = "free" => session[s].st = "free"
      BY <1>6
    <2>2. \A d \in Call : call'[d].used = call[d].used
      BY <1>4, <1>5
    <2>3. session[s].st = "free" => store # s /\ \A d \in Call : call[d].used # s
      BY DEF Inv, Unknown
    <2>4. store' = store
      BY <1>1
    <2>5. QED
      BY <2>1, <2>2, <2>3, <2>4 DEF Unknown
  <1>11. Replaced'
    <2>1. SUFFICES ASSUME store # None, session'[store].st = "rotated"
                   PROVE  \E d \in Call : call'[d].pc = "minted" /\ call'[d].used = store
      BY <1>1 DEF Replaced, None
    <2>2. CASE store = call[c].used
      BY <1>4, <1>5, <2>2
    <2>3. CASE store # call[c].used
      <3>1. session[store].st = "rotated"
        BY <1>2, <1>6, <1>8, <2>1, <2>3
      <3>2. PICK d \in Call : call[d].pc = "minted" /\ call[d].used = store
        BY <2>1, <3>1 DEF Inv, Replaced
      <3>3. QED
        BY <1>2, <1>5, <3>2
    <2>4. QED
      BY <2>2, <2>3
  <1>12. QED
    BY <1>7, <1>9, <1>10, <1>11 DEF Inv

LEMMA NextInv == Inv /\ [Next]_vars => Inv'
  <1> SUFFICES ASSUME Inv, [Next]_vars PROVE Inv'
    OBVIOUS
  <1>1. ASSUME NEW c \in Call,
               Mount(c) \/ CallApi(c) \/ Login(c) \/ Logout(c) \/ Advance(c) \/ Lose(c)
        PROVE  Inv'
    BY <1>1, StartInv, AnswerInv, MoveInv, DiscardInv, MintInv DEF Advance
  <1>2. CASE Reload \/ EndSessions \/ \E t \in Token : Expire(t)
    BY <1>2, AroundInv
  <1>3. CASE UNCHANGED vars
    <2>1. TypeOK' /\ Ending
      BY <1>3 DEF vars, Inv, TypeOK, Ending
    <2>2. QED
      BY <1>3, <2>1, CallsStay DEF vars
  <1>4. QED
    BY <1>1, <1>2, <1>3 DEF Next

-----------------------------------------------------------------------------
\* Inv is an inductive invariant of the specification.
THEOREM InvHolds == Spec => []Inv
  <1>1. Init => Inv
    BY InitInv
  <1>2. Inv /\ [Next]_vars => Inv'
    BY NextInv
  <1>3. QED
    BY <1>1, <1>2, PTL DEF Spec

\* The tab's state has its shape, and no refresh is tried without a token
\* (client.ts request).
THEOREM TypeCorrect == Spec => []TypeOK
  <1>1. Inv => TypeOK
    BY DEF Inv
  <1>2. QED
    BY <1>1, InvHolds, PTL

\* However many refreshes overlap, the tab never falls back to a rotated token
\* (client.ts refreshTokens).
THEOREM TokenIsCurrent == Spec => []StoredTokenIsCurrent
  <1>1. Inv => StoredTokenIsCurrent
    BY DEF Inv, Replaced, StoredTokenIsCurrent
  <1>2. QED
    BY <1>1, InvHolds, PTL

-----------------------------------------------------------------------------
(* The server keeps to TokenRotation *)

Lives == [t \in Token |-> Life(t)]
Owners == [t \in Token |-> IF session[t].st = "free" THEN None ELSE TheAccount]
Helds == [c \in Call |-> IF call[c].pc = "validated" THEN call[c].used ELSE None]

\* Tokens die at most, and no refresh gets or loses its hold.
Fading ==
  /\ \A t \in Token : Life(t)' = Life(t) \/ (Life(t) = "live" /\ Life(t)' = "dead")
  /\ Helds' = Helds

LEMMA LifeFacts ==
  ASSUME TypeOK, NEW t \in Token
  PROVE  /\ Life(t) \in {"free", "live", "dead"}
         /\ Life(t) = "free" <=> session[t].st = "free"
         /\ Life(t) = "live" <=> session[t].st = "live"
  BY DEF Life

LEMMA FadingEnds ==
  ASSUME TypeOK, TypeOK', Fading
  PROVE  Abstract!End
  <1> DEFINE T == {t \in Token : Life(t) = "live" /\ Life(t)' = "dead"}
  <1>1. Owners' = Owners
    BY LifeFacts DEF Fading, Owners, TypeOK, Life
  <1>2. Lives' = [t \in Token |-> IF t \in T THEN "dead" ELSE Lives[t]]
    <2>1. \A t \in Token : Life(t)' = IF t \in T THEN "dead" ELSE Life(t)
      BY DEF Fading
    <2>2. Lives' = [t \in Token |-> Life(t)']
      BY DEF Lives
    <2> QED
      BY <2>1, <2>2 DEF Lives
  <1>3. T \in SUBSET {t \in Token : Lives[t] = "live"}
    BY DEF Lives
  <1>4. Helds' = Helds
    BY DEF Fading
  <1> HIDE DEF T
  <1> QED
    BY <1>1, <1>2, <1>3, <1>4
       DEF Abstract!End, Abstract!Dead, Abstract!Live, Lives, Owners, Helds

LEMMA EndingFades ==
  ASSUME Ending
  PROVE  \A t \in Token : Life(t)' = Life(t) \/ (Life(t) = "live" /\ Life(t)' = "dead")
  BY DEF Ending, Life

\* A call that moves on, and neither was nor is validated.
LEMMA HoldsNothing ==
  ASSUME TypeOK, NEW c \in Call, NEW x, call' = [call EXCEPT ![c] = x],
         call[c].pc # "validated", x.pc # "validated"
  PROVE  Helds' = Helds
  BY DEF Helds, TypeOK

\* Of most steps the server's tokens notice nothing.
LEMMA TabFades ==
  ASSUME TypeOK, NEW c \in Call,
         \/ Mount(c) \/ CallApi(c) \/ Login(c) \/ Logout(c) \/ Lose(c)
         \/ Accept(c) \/ Renew(c) \/ Deny(c) \/ Retry(c) \/ GiveUp(c) \/ LoggedIn(c)
  PROVE  Fading
  <1>1. session' = session
    BY DEF Mount, CallApi, Login, Logout, Lose, Accept, Renew, Deny, Retry, GiveUp, LoggedIn, Settle
  <1>2. call[c] \in CallRecord
    BY DEF TypeOK
  <1>3. ~ UNCHANGED call =>
          \E x : call' = [call EXCEPT ![c] = x] /\ call[c].pc # "validated" /\ x.pc # "validated"
    <2>1. CASE Mount(c) \/ CallApi(c) \/ Login(c) \/ Logout(c)
      <3>1. Idle.pc = "idle" /\ [Idle EXCEPT !.pc = "login", !.kind = "login"].pc = "login"
        BY DEF Idle
      <3>2. \A k, t : Fetch(k, t).pc = "sent"
        BY DEF Fetch, Idle
      <3>3. call[c] = Idle
        BY <2>1 DEF Mount, CallApi, Login, Logout
      <3>4. \/ UNCHANGED call
            \/ \E k, t : call' = [call EXCEPT ![c] = Fetch(k, t)]
            \/ call' = [call EXCEPT ![c] = [Idle EXCEPT !.pc = "login", !.kind = "login"]]
        BY <2>1 DEF Mount, CallApi, Login, Logout
      <3> QED
        BY <3>1, <3>2, <3>3, <3>4
    <2>2. CASE Lose(c) \/ Accept(c) \/ Deny(c) \/ GiveUp(c)
      <3>1. call' = [call EXCEPT ![c] = Idle] /\ call[c].pc # "validated"
        BY <2>2 DEF Lose, Accept, Deny, GiveUp, Settle
      <3>2. Idle.pc = "idle"
        BY DEF Idle
      <3> QED
        BY <3>1, <3>2
    <2>3. CASE Renew(c)
      <3> DEFINE x == [call[c] EXCEPT !.pc = "refresh", !.used = store]
      <3>1. call' = [call EXCEPT ![c] = x] /\ call[c].pc # "validated"
        BY <1>2, <2>3 DEF Renew, CallRecord, TypeOK
      <3>2. x.pc = "refresh"
        BY <1>2 DEF CallRecord
      <3> HIDE DEF x
      <3> QED
        BY <3>1, <3>2
    <2>4. CASE Retry(c)
      <3> DEFINE x == [Fetch(call[c].kind, call[c].got) EXCEPT !.retry = FALSE]
      <3>1. call' = [call EXCEPT ![c] = x] /\ call[c].pc # "validated"
        BY <2>4 DEF Retry
      <3>2. x.pc = "sent"
        BY DEF Fetch, Idle
      <3> HIDE DEF x
      <3> QED
        BY <3>1, <3>2
    <2>5. CASE LoggedIn(c)
      <3>1. call' = [call EXCEPT ![c] = Fetch("me", call[c].got)] /\ call[c].pc # "validated"
        BY <2>5 DEF LoggedIn
      <3>2. Fetch("me", call[c].got).pc = "sent"
        BY DEF Fetch, Idle
      <3> QED
        BY <3>1, <3>2
    <2> QED
      BY <2>1, <2>2, <2>3, <2>4, <2>5
  <1>4. Helds' = Helds
    <2>1. CASE UNCHANGED call
      BY <2>1 DEF Helds
    <2>2. CASE ~ UNCHANGED call
      BY <1>3, <2>2, HoldsNothing
    <2> QED
      BY <2>1, <2>2
  <1>5. \A t \in Token : Life(t)' = Life(t)
    BY <1>1 DEF Life
  <1> QED
    BY <1>4, <1>5 DEF Fading

LEMMA AroundFades ==
  ASSUME TypeOK, Reload \/ EndSessions \/ (\E t \in Token : Expire(t)) \/ UNCHANGED vars
  PROVE  Fading
  <1>1. CASE Reload
    <2>1. \A c \in Call : call'[c].pc = call[c].pc /\ call'[c].used = call[c].used
      <3> SUFFICES ASSUME NEW c \in Call
                   PROVE  call'[c].pc = call[c].pc /\ call'[c].used = call[c].used
        OBVIOUS
      <3>1. PICK q \in CallRecord : q = call[c]
        BY DEF TypeOK
      <3>2. /\ [q EXCEPT !.waiting = FALSE].pc = q.pc
            /\ [q EXCEPT !.waiting = FALSE].used = q.used
        BY DEF CallRecord
      <3>3. call'[c] = IF q = Idle THEN Idle ELSE [q EXCEPT !.waiting = FALSE]
        BY <1>1, <3>1 DEF Reload
      <3> QED
        BY <3>1, <3>2, <3>3
    <2>2. Helds' = Helds /\ \A t \in Token : Life(t)' = Life(t)
      BY <1>1, <2>1 DEF Reload, Helds, Life
    <2> QED
      BY <2>2 DEF Fading
  <1>2. CASE EndSessions
    <2>1. Ending
      BY <1>2, EndedFacts DEF EndSessions, TypeOK
    <2>3. Helds' = Helds
      BY <1>2 DEF EndSessions, Helds
    <2> QED
      BY <2>1, <2>3, EndingFades DEF Fading
  <1>3. CASE \E t \in Token : Expire(t)
    <2>1. \A s \in Token : session'[s].st = session[s].st
      BY <1>3 DEF Expire, TypeOK, SessionRow
    <2>2. Helds' = Helds
      BY <1>3 DEF Expire, Helds
    <2> QED
      BY <2>1, <2>2 DEF Fading, Life
  <1>4. CASE UNCHANGED vars
    BY <1>4 DEF vars, Fading, Helds, Life
  <1> QED
    BY <1>1, <1>2, <1>3, <1>4

\* What the server and a page that is gone do with a call that holds nothing.
LEMMA ServerFades ==
  ASSUME TypeOK, NEW c \in Call,
         \/ Serve(c) \/ Discard(c)
         \/ Validate(c) /\ call'[c].pc # "validated"
         \/ Refuse(c) /\ call[c].pc # "validated"
  PROVE  Fading
  <1>1. call[c] \in CallRecord /\ call[c].pc # "validated"
    BY DEF TypeOK, Serve, Discard, Validate, Refuse
  <1>2. \E x : call' = [call EXCEPT ![c] = x] /\ x.pc # "validated"
    <2>1. call' = [call EXCEPT ![c] = call'[c]]
      <3>1. \E x : call' = [call EXCEPT ![c] = x]
        BY DEF Serve, Discard, Validate, Refuse
      <3> QED
        BY <3>1 DEF TypeOK
    <2>2. call'[c].pc # "validated"
      <3>1. CASE Serve(c)
        BY <1>1, <3>1 DEF Serve, CallRecord, TypeOK
      <3>2. CASE Discard(c)
        BY <3>2 DEF Discard, TypeOK, Idle
      <3>3. CASE Refuse(c)
        BY <1>1, <3>3 DEF Refuse, CallRecord, TypeOK
      <3> QED
        BY <3>1, <3>2, <3>3
    <2> QED
      BY <2>1, <2>2
  <1>3. Helds' = Helds
    BY <1>1, <1>2, HoldsNothing
  <1>4. CASE Discard(c)
    <2>1. \A t \in Token : \/ session'[t].st = session[t].st
                           \/ session[t].st = "rotated" /\ session'[t].st = "stranded"
      BY <1>4 DEF Discard, TypeOK, SessionRow
    <2> QED
      BY <1>3, <2>1 DEF Fading, Life
  <1>5. CASE ~ Discard(c)
    <2>1. session' = session \/ \E T : session' = Ended(T)
      BY <1>5 DEF Serve, Validate, Refuse
    <2>2. Ending
      BY <2>1, EndedFacts DEF Ending, TypeOK
    <2> QED
      BY <1>3, <2>2, EndingFades DEF Fading
  <1> QED
    BY <1>4, <1>5

LEMMA ValidateImplements ==
  ASSUME Inv, NEW c \in Call, Validate(c), call'[c].pc = "validated",
         NEW t \in Token, t = call[c].used
  PROVE  Abstract!Present(c, t)
  <1>1. /\ call[c] \in CallRecord /\ t # None
        /\ call[c].pc = "refresh" /\ session[t].st = "live"
    BY NoneFacts DEF Validate, Inv, TypeOK, CallRecord
  <1>2. Helds[c] = None /\ Lives[t] = "live"
    BY <1>1 DEF Helds, Lives, Life
  <1>3. Helds' = [Helds EXCEPT ![c] = t]
    <2>1. /\ call'[c].pc = "validated" /\ call'[c].used = t
          /\ \A d \in Call : d # c => call'[d] = call[d]
      BY <1>1 DEF Validate, Inv, TypeOK, CallRecord
    <2> QED
      BY <2>1 DEF Helds
  <1>4. Lives' = Lives /\ Owners' = Owners
    BY DEF Validate, Lives, Owners, Life
  <1> QED
    BY <1>2, <1>3, <1>4 DEF Abstract!Present, Lives, Owners, Helds

LEMMA RefuseImplements ==
  ASSUME Inv, NEW c \in Call, Refuse(c), call[c].pc = "validated"
  PROVE  Abstract!Abandon(c)
  <1> DEFINE t == call[c].used
  <1>1. call[c] \in CallRecord /\ t \in Token /\ t # None /\ session \in [Token -> SessionRow]
    BY NoneFacts DEF Inv, TypeOK, CallRecord
  <1>2. Helds[c] = t /\ Helds[c] # None
    BY <1>1 DEF Helds
  <1>3. Helds' = [Helds EXCEPT ![c] = None]
    <2>1. /\ call'[c].pc = "refused" /\ \A d \in Call : d # c => call'[d] = call[d]
      BY <1>1 DEF Refuse, Inv, TypeOK, CallRecord
    <2> QED
      BY <2>1 DEF Helds
  <1>4. CASE session' = session
    <2>1. Lives' = Lives /\ Owners' = Owners
      BY <1>4 DEF Lives, Owners, Life
    <2> DEFINE T == {s \in Token : FALSE}
    <2>2. Lives' = [s \in Token |-> IF s \in T THEN "dead" ELSE Lives[s]]
      BY <2>1 DEF Lives
    <2>3. T \in SUBSET ({Helds[c]} \cap {s \in Token : Lives[s] = "live"})
      OBVIOUS
    <2> HIDE DEF T
    <2> QED
      BY <1>2, <1>3, <2>1, <2>2, <2>3
         DEF Abstract!Abandon, Abstract!Dead, Abstract!Live, Lives, Owners, Helds
  <1>5. CASE session' = Ended({t})
    <2> DEFINE T == {t} \cap {s \in Token : Lives[s] = "live"}
    <2>1. \A s \in Token : session'[s].st = IF s \in T THEN "ended" ELSE session[s].st
      BY <1>1, <1>5 DEF Ended, SessionRow, Lives, Life
    <2>2. Owners' = Owners
      BY <2>1 DEF Owners, Lives, Life
    <2>3. Lives' = [s \in Token |-> IF s \in T THEN "dead" ELSE Lives[s]]
      BY <2>1 DEF Lives, Life
    <2>4. T \in SUBSET ({Helds[c]} \cap {s \in Token : Lives[s] = "live"})
      BY <1>2
    <2> HIDE DEF T
    <2> QED
      BY <1>2, <1>3, <2>2, <2>3, <2>4
         DEF Abstract!Abandon, Abstract!Dead, Abstract!Live, Lives, Owners, Helds
  <1> QED
    BY <1>4, <1>5 DEF Refuse

\* A login presents no refresh token.
LoginHolds == \A c \in Call : call[c].pc = "login" => call[c].used = None

LEMMA LoginHoldsStep ==
  ASSUME TypeOK, LoginHolds, [Next]_vars
  PROVE  LoginHolds'
  <1> SUFFICES ASSUME NEW c \in Call, call'[c].pc = "login" PROVE call'[c].used = None
    BY DEF LoginHolds
  <1>1. SUFFICES ASSUME call'[c] # call[c] PROVE call'[c].used = None
    BY DEF LoginHolds
  <1>2. Idle.pc = "idle" /\ [Idle EXCEPT !.pc = "login", !.kind = "login"].used = None
    BY DEF Idle
  <1>3. \A k, t : Fetch(k, t).pc = "sent"
    BY DEF Fetch, Idle
  <1>4. CASE Reload
    <2>1. PICK q \in CallRecord : q = call[c]
      BY DEF TypeOK
    <2>2. call'[c] = [q EXCEPT !.waiting = FALSE]
      BY <1>1, <1>4, <2>1 DEF Reload
    <2>3. call'[c].pc = call[c].pc /\ call'[c].used = call[c].used
      BY <2>1, <2>2 DEF CallRecord
    <2> QED
      BY <2>3 DEF LoginHolds
  <1>5. CASE EndSessions \/ (\E t \in Token : Expire(t)) \/ UNCHANGED vars
    BY <1>1, <1>5 DEF EndSessions, Expire, vars
  <1>6. ASSUME NEW d \in Call, Mount(d) \/ CallApi(d) \/ Logout(d) \/ Login(d)
        PROVE  call'[c].used = None
    <2>1. \/ UNCHANGED call
          \/ \E k, t : call' = [call EXCEPT ![d] = Fetch(k, t)]
          \/ call' = [call EXCEPT ![d] = [Idle EXCEPT !.pc = "login", !.kind = "login"]]
      BY <1>6 DEF Mount, CallApi, Login, Logout
    <2>2. ASSUME NEW k, NEW t, call' = [call EXCEPT ![d] = Fetch(k, t)] PROVE FALSE
      BY <1>1, <1>3, <2>2 DEF TypeOK
    <2>3. ASSUME call' = [call EXCEPT ![d] = [Idle EXCEPT !.pc = "login", !.kind = "login"]]
          PROVE  call'[c].used = None
      <3> DEFINE x == [Idle EXCEPT !.pc = "login", !.kind = "login"]
      <3>1. call' = [call EXCEPT ![d] = x] /\ x.used = None
        BY <1>2, <2>3
      <3> HIDE DEF x
      <3> QED
        BY <1>1, <3>1 DEF TypeOK
    <2> QED
      BY <1>1, <2>1, <2>2, <2>3
  <1>7. ASSUME NEW d \in Call, Lose(d) \/ Accept(d) \/ Deny(d) \/ GiveUp(d) \/ Discard(d)
        PROVE  call'[c].used = None
    <2>1. call' = [call EXCEPT ![d] = Idle]
      BY <1>7 DEF Lose, Accept, Deny, GiveUp, Discard, Settle
    <2> QED
      BY <1>1, <1>2, <2>1 DEF TypeOK
  <1>8. ASSUME NEW d \in Call, Retry(d) \/ LoggedIn(d)
        PROVE  call'[c].used = None
    <2> DEFINE x == [Fetch(call[d].kind, call[d].got) EXCEPT !.retry = FALSE]
               y == Fetch("me", call[d].got)
    <2>1. x.pc = "sent" /\ y.pc = "sent"
      BY DEF Fetch, Idle
    <2>2. call' = [call EXCEPT ![d] = x] \/ call' = [call EXCEPT ![d] = y]
      BY <1>8 DEF Retry, LoggedIn
    <2> HIDE DEF x, y
    <2> QED
      BY <1>1, <2>1, <2>2 DEF TypeOK
  <1>9. ASSUME NEW d \in Call, Renew(d) \/ Serve(d) \/ Validate(d) \/ Mint(d) \/ Refuse(d)
        PROVE  call'[c].used = None
    <2>1. call[d] \in CallRecord
      BY DEF TypeOK
    <2>2. call'[d].pc # "login" /\ \A e \in Call : e # d => call'[e] = call[e]
      BY <1>9, <2>1 DEF Renew, Serve, Validate, Mint, Refuse, TypeOK, CallRecord
    <2> QED
      BY <1>1, <2>2
  <1> QED
    BY <1>4, <1>5, <1>6, <1>7, <1>8, <1>9 DEF Next, Advance

LEMMA MintImplements ==
  ASSUME Inv, LoginHolds, NEW c \in Call, Mint(c)
  PROVE  \E t \in Token : Abstract!Rotate(c, t) \/ Abstract!Open(t, TheAccount)
  <1>1. PICK t \in Token :
          /\ session[t].st = "free"
          /\ session' = [s \in Token |->
               IF s = t THEN [st |-> "live", fresh |-> TRUE]
               ELSE IF s = call[c].used /\ session[s].st = "live"
                 THEN [session[s] EXCEPT !.st = "rotated"] ELSE session[s]]
          /\ call' = [call EXCEPT ![c].pc = "minted", ![c].got = t]
    BY DEF Mint, Unminted
  <1> DEFINE u == call[c].used
  <1>2. /\ call[c] \in CallRecord /\ call[c].pc \in {"validated", "login"}
        /\ session \in [Token -> SessionRow]
    BY DEF Mint, Inv, TypeOK
  <1>3. /\ call'[c].pc = "minted" /\ \A d \in Call : d # c => call'[d] = call[d]
    BY <1>1, <1>2 DEF Inv, TypeOK, CallRecord
  <1>4. /\ session'[t].st = "live"
        /\ \A s \in Token : s # t =>
             session'[s].st = IF s = u /\ session[s].st = "live" THEN "rotated" ELSE session[s].st
    BY <1>1, <1>2 DEF SessionRow
  <1>5. Lives[t] = "free"
    BY <1>1 DEF Lives, Life
  <1>6. Lives' = [s \in Token |->
          IF s = t THEN "live" ELSE IF s = u /\ Lives[s] = "live" THEN "dead" ELSE Lives[s]]
    <2>1. \A s \in Token : Life(s)' =
            IF s = t THEN "live" ELSE IF s = u /\ Life(s) = "live" THEN "dead" ELSE Life(s)
      BY <1>4 DEF Life
    <2> QED
      BY <2>1 DEF Lives
  <1>7. Owners' = [Owners EXCEPT ![t] = TheAccount]
    <2>1. \A s \in Token : s # t => (session'[s].st = "free" <=> session[s].st = "free")
      BY <1>4
    <2> QED
      BY <1>4, <2>1 DEF Owners
  <1>8. CASE call[c].pc = "validated"
    <2>1. u \in Token /\ u # None /\ u # t
      BY <1>1, <1>2, <1>8, NoneFacts DEF Inv, TypeOK, CallRecord, Unknown
    <2>2. Helds[c] = u /\ Helds' = [Helds EXCEPT ![c] = None]
      BY <1>3, <1>8 DEF Helds
    <2>3. Owners[u] = TheAccount
      <3>1. session[u].st # "free"
        BY <2>1 DEF Inv, Unknown
      <3> QED
        BY <2>1, <3>1 DEF Owners
    <2>4. /\ Lives' = [[s \in Token |-> IF s \in {u} THEN "dead" ELSE Lives[s]] EXCEPT ![t] = "live"]
      <3>1. Lives[u] \in {"live", "dead"}
        BY <2>1, LifeFacts DEF Inv, Unknown, Lives, Life
      <3> QED
        BY <1>6, <2>1, <3>1
    <2>5. Helds[c] # None
      BY <2>1, <2>2
    <2>6. Abstract!Rotate(c, t)
      BY <1>5, <1>7, <2>2, <2>3, <2>4, <2>5
         DEF Abstract!Rotate, Abstract!Dead, Lives, Owners, Helds
    <2> QED
      BY <2>6
  <1>9. CASE call[c].pc = "login"
    <2>1. Helds' = Helds
      BY <1>3, <1>9 DEF Helds
    <2>2. u = None
      BY <1>9 DEF LoginHolds
    <2>3. Lives' = [Lives EXCEPT ![t] = "live"]
      BY <1>6, <2>2, NoneFacts DEF Lives
    <2>4. Abstract!Open(t, TheAccount)
      BY <1>5, <1>7, <2>1, <2>3 DEF Abstract!Open, Lives, Owners, Helds
    <2> QED
      BY <2>4
  <1> QED
    BY <1>2, <1>8, <1>9

\* The server the tab is checked against implements TokenRotation, for any
\* number of calls and pairs (auth.service.ts, jwt-refresh.strategy.ts).
THEOREM Implements == Spec => ImplementsRotation
  <1>1. Init => Abstract!Init /\ LoginHolds
    <2> SUFFICES ASSUME Init PROVE Abstract!Init /\ LoginHolds
      OBVIOUS
    <2>1. LoginHolds
      BY DEF Init, Idle, LoginHolds
    <2>2. /\ Lives = [t \in Token |-> "free"]
          /\ Owners = [t \in Token |-> None]
          /\ Helds = [c \in Call |-> None]
      BY DEF Init, Idle, Lives, Owners, Helds, Life
    <2> QED
      BY <2>1, <2>2 DEF Abstract!Init, Lives, Owners, Helds
  <1>2. ASSUME Inv, Inv', LoginHolds, [Next]_vars
        PROVE  [Abstract!Next]_Abstract!vars
    <2>1. TypeOK /\ TypeOK'
      BY <1>2 DEF Inv
    <2>2. Fading => Abstract!Next
      BY <2>1, FadingEnds DEF Abstract!Next
    <2>3. ASSUME NEW c \in Call, Mint(c) PROVE Abstract!Next
      BY <1>2, <2>3, MintImplements DEF Abstract!Next
    <2>4. ASSUME NEW c \in Call, Validate(c) PROVE Abstract!Next
      <3>1. CASE call'[c].pc = "validated"
        <4>1. PICK t \in Token : t = call[c].used
          BY <2>1, <2>4 DEF Validate, TypeOK, CallRecord
        <4>2. Abstract!Present(c, t)
          BY <1>2, <2>4, <3>1, <4>1, ValidateImplements
        <4> QED
          BY <4>2 DEF Abstract!Next
      <3>2. CASE call'[c].pc # "validated"
        BY <2>1, <2>2, <2>4, <3>2, ServerFades
      <3> QED
        BY <3>1, <3>2
    <2>5. ASSUME NEW c \in Call, Refuse(c) PROVE Abstract!Next
      <3>1. CASE call[c].pc = "validated"
        BY <1>2, <2>5, <3>1, RefuseImplements DEF Abstract!Next
      <3>2. CASE call[c].pc # "validated"
        BY <2>1, <2>2, <2>5, <3>2, ServerFades
      <3> QED
        BY <3>1, <3>2
    <2>6. ASSUME NEW c \in Call, Serve(c) \/ Discard(c) PROVE Abstract!Next
      BY <2>1, <2>2, <2>6, ServerFades
    <2>7. ASSUME NEW c \in Call,
                 \/ Mount(c) \/ CallApi(c) \/ Login(c) \/ Logout(c) \/ Lose(c)
                 \/ Accept(c) \/ Renew(c) \/ Deny(c) \/ Retry(c) \/ GiveUp(c) \/ LoggedIn(c)
          PROVE  Abstract!Next
      BY <2>1, <2>2, <2>7, TabFades
    <2>8. CASE Reload \/ EndSessions \/ (\E t \in Token : Expire(t)) \/ UNCHANGED vars
      BY <2>1, <2>2, <2>8, AroundFades
    <2> QED
      BY <1>2, <2>3, <2>4, <2>5, <2>6, <2>7, <2>8 DEF Next, Advance
  <1>3. ASSUME Inv, LoginHolds, [Next]_vars PROVE LoginHolds'
    BY <1>3, LoginHoldsStep DEF Inv
  <1> QED
    BY <1>1, <1>2, <1>3, InvHolds, PTL DEF Spec, ImplementsRotation, Abstract!Spec

=============================================================================
