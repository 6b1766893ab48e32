------------------------- MODULE RefreshSessionsProofs -------------------------
(***************************************************************************)
(* Theorems about accounts and refresh sessions, for any number of users,  *)
(* devices, sessions, concurrent requests and rotations.                   *)
(*                                                                         *)
(* The argument is about who knows the current token of a session.  The    *)
(* number a rotation hands out is new, so until the response is delivered  *)
(* nobody else can rotate the session (Undelivered); what the session says *)
(* meanwhile is what its request is about to commit (Pending), and whoever *)
(* can present the current token has it from a response, after the commit  *)
(* (Backed).                                                               *)
(***************************************************************************)
EXTENDS RefreshSessions, TLAPS

\* The current token is the last one generated, and has paid for nothing yet.
SessionInv(s) ==
  /\ ~Open(s) => session[s] = NoHash
  /\ Open(s) => session[s].n = issued[s] /\ issued[s] > 0
  /\ \A n \in 1..MaxTokens : uses[s][n] <= 1 /\ (n >= issued[s] => uses[s][n] = 0)

RowsInPast == \A u \in Users : row[u] # None => row[u] \in past[u]

\* What a handler has at which statement.
WellPlaced(h) ==
  /\ pc[h] \in {"idle", "insert", "read", "lock", "issue", "rotate", "clear"} => req[h].n = 0
  /\ pc[h] \in {"commit", "answer"} => req[h].n > 0
  /\ pc[h] = "insert" => req[h].kind = "register" /\ req[h].profile \in Profiles
  /\ pc[h] = "read" => req[h].kind = "login"
  /\ pc[h] = "lock" => req[h].kind = "update"
  /\ pc[h] = "issue" =>
       req[h].kind \in {"register", "login"} /\ req[h].profile \in Profiles
  /\ pc[h] = "rotate" => /\ req[h].kind \in {"refresh", "update"}
                         /\ req[h].kind = "update" => req[h].profile \in Profiles
  /\ pc[h] = "commit" => req[h].kind \in {"register", "update"} /\ req[h].profile \in Profiles
  /\ pc[h] \in {"insert", "read", "lock", "issue", "commit"} => req[h].user \in Users
  /\ pc[h] = "revoke" /\ req[h].kind = "logout" => req[h].n = 0
  /\ pc[h] = "issue" /\ req[h].kind = "login" => req[h].profile \in past[req[h].user]
  /\ req[h].session = None => req[h].n = 0 /\ req[h].token = 0
  /\ pc[h] \in {"lock", "rotate", "revoke", "commit", "answer"} => req[h].session \in Sessions
  /\ pc[h] \in {"lock", "rotate"} => req[h].token > 0
  /\ pc[h] \in {"insert", "read", "issue"} => req[h].token = 0

\* Nobody has a token that was not generated.
Generated ==
  /\ \A d \in Devices : cookie[d] # None => cookie[d].n <= issued[cookie[d].session]
  /\ \A h \in Handlers :
       req[h].session \in Sessions =>
         req[h].token <= issued[req[h].session] /\ req[h].n <= issued[req[h].session]

\* A token that waits for its response is known to its request only, so the
\* session cannot have been rotated since.
Undelivered(h) ==
  req[h].n > 0 =>
    /\ Open(req[h].session) => session[req[h].session].n = req[h].n
    /\ \A d \in Devices :
         cookie[d] # None /\ cookie[d].session = req[h].session => cookie[d].n # req[h].n
    /\ \A g \in Handlers :
         req[g].session = req[h].session =>
           req[g].token # req[h].n /\ (g # h => req[g].n # req[h].n)

\* The profile of a session, as its request is about to commit or to answer it.
Pending(h) ==
  LET hash == session[req[h].session]
  IN
  /\ pc[h] = "commit" /\ Open(req[h].session) =>
       hash.user = req[h].user /\ hash.profile = req[h].profile
  /\ pc[h] = "answer" /\ Open(req[h].session) =>
       hash.profile = req[h].profile /\ hash.profile \in past[hash.user]

\* A request with the current token of a session comes from a response.
Backed(h) ==
  LET hash == session[req[h].session]
  IN
  req[h].token > 0 /\ Open(req[h].session) /\ hash.n = req[h].token =>
    hash.profile \in past[hash.user]

Inv ==
  /\ TypeOK /\ RowsInPast /\ Generated /\ CookieIsBacked /\ Compensated
  /\ \A s \in Sessions : SessionInv(s)
  /\ \A h \in Handlers : WellPlaced(h) /\ Undelivered(h) /\ Pending(h) /\ Backed(h)

-----------------------------------------------------------------------------
(* Types. *)

(* Before the first request nothing is there. *)
LEMMA InitInv == Init => Inv
  <1> SUFFICES ASSUME Init PROVE Inv
    OBVIOUS
  <1>1. TypeOK
    <2>1. MaxTokens \in Nat /\ NoHash \in Hash /\ NoRequest \in Request
      BY SessionsAssumption DEF Hash, NoHash, Request, NoRequest
    <2>2. uses \in [Sessions -> [1..MaxTokens -> Nat]]
      BY DEF Init
    <2>3. broken \in BOOLEAN
      BY DEF Init
    <2> QED
      BY <2>1, <2>2, <2>3 DEF Init, TypeOK
  <1>2. \A s \in Sessions : ~Open(s) /\ SessionInv(s)
    BY SessionsAssumption DEF Init, Open, NoHash, SessionInv
  <1>3. \A h \in Handlers : WellPlaced(h) /\ Undelivered(h) /\ Pending(h) /\ Backed(h)
    BY DEF Init, NoRequest, WellPlaced, Undelivered, Pending, Backed
  <1>4. RowsInPast /\ Generated /\ CookieIsBacked /\ Compensated
    BY <1>2, SessionsAssumption
    DEF Init, NoRequest, RowsInPast, Generated, CookieIsBacked, Compensated
  <1> QED
    BY <1>1, <1>2, <1>3, <1>4 DEF Inv

(* A request that ends leaves its handler without one. *)
LEMMA FinishType ==
  ASSUME TypeOK, NEW h \in Handlers, Finish(h)
  PROVE  /\ pc'[h] = "idle" /\ req'[h] = NoRequest
         /\ \A g \in Handlers : g # h => pc'[g] = pc[g] /\ req'[g] = req[g]
         /\ pc' \in [Handlers -> {"idle", "insert", "read", "lock", "issue", "rotate",
                                   "commit", "revoke", "answer", "clear"}]
         /\ req' \in [Handlers -> Request]
         /\ rowLock' \in [Users -> Handlers \cup {None}]
  <1>1. NoRequest \in Request
    BY SessionsAssumption DEF NoRequest, Request
  <1> QED
    BY <1>1 DEF Finish, Goto, Unlocked, TypeOK

(* A request carries the cookie of its device. *)
LEMMA WithCookieType ==
  ASSUME TypeOK, NEW d \in Devices, cookie[d] # None, NEW kind \in {"refresh", "logout", "update"}
  PROVE  /\ WithCookie(kind, d) \in Request
         /\ WithCookie(kind, d).kind = kind /\ WithCookie(kind, d).n = 0
         /\ WithCookie(kind, d).session = cookie[d].session
         /\ WithCookie(kind, d).token = cookie[d].n
         /\ cookie[d].session \in Sessions /\ cookie[d].n \in 1..MaxTokens
  <1>1. cookie[d].session \in Sessions /\ cookie[d].n \in 0..MaxTokens /\ cookie[d].n \in 1..MaxTokens
    BY SessionsAssumption DEF TypeOK, Token
  <1>2. NoRequest \in Request /\ NoRequest.n = 0
    BY SessionsAssumption DEF NoRequest, Request
  <1>3. kind \in {"none", "register", "login", "refresh", "logout", "update"}
    OBVIOUS
  <1>4. WithCookie(kind, d) \in Request
    BY <1>1, <1>2, <1>3 DEF WithCookie, Request
  <1>5. /\ WithCookie(kind, d).kind = kind /\ WithCookie(kind, d).n = 0
         /\ WithCookie(kind, d).session = cookie[d].session
         /\ WithCookie(kind, d).token = cookie[d].n
    BY <1>1, <1>2 DEF WithCookie, Request
  <1> QED
    BY <1>1, <1>4, <1>5

-----------------------------------------------------------------------------
(* Steps that generate no token and deliver none. *)

\* What requests know they have known before, or their cookie has.
KnowsLess(h) ==
  /\ \/ req'[h].n = 0
     \/ req'[h].n = req[h].n /\ req'[h].session = req[h].session
  /\ \/ req'[h].token = 0
     \/ req'[h].token = req[h].token /\ req'[h].session = req[h].session
     \/ \E d \in Devices :
          /\ cookie[d] # None
          /\ req'[h].token = cookie[d].n /\ req'[h].session = cookie[d].session

Shrinks ==
  /\ \A s \in Sessions : session'[s] \in {session[s], NoHash}
  /\ issued' = issued /\ uses' = uses
  /\ \A d \in Devices : cookie'[d] = None \/ (cookie'[d] = cookie[d] /\ told'[d] = told[d])
  /\ \A u \in Users : past[u] \subseteq past'[u]
  /\ \A h \in Handlers : KnowsLess(h)

(* They keep what is known of the tokens.                                  *)
LEMMA ShrinksKeeps ==
  ASSUME Inv, Shrinks, TypeOK', RowsInPast', Compensated',
         \A h \in Handlers :
           \/ pc'[h] = pc[h] /\ req'[h] = req[h]
           \/ WellPlaced(h)' /\ Pending(h)'
  PROVE  Inv'
  <1>1. TypeOK
    BY DEF Inv
  <1>2. \A s \in Sessions : Open(s)' => Open(s) /\ session'[s] = session[s]
    BY DEF Shrinks, Open, NoHash
  <1>3. \A s \in Sessions : Open(s) => session[s].user \in Users
    BY <1>1 DEF TypeOK, Hash, Open
  <1>4. ASSUME NEW s \in Sessions PROVE SessionInv(s)'
    <2>1. SessionInv(s)
      BY DEF Inv
    <2> QED
      BY <1>2, <2>1 DEF SessionInv, Shrinks, Open, NoHash
  <1>5. Generated'
    <2>1. ASSUME NEW h \in Handlers, req'[h].session \in Sessions
          PROVE  req'[h].token <= issued[req'[h].session] /\ req'[h].n <= issued[req'[h].session]
      <3>1. issued[req'[h].session] \in Nat
        BY <1>1, <2>1 DEF TypeOK
      <3> QED
        BY <2>1, <3>1 DEF Shrinks, KnowsLess, Inv, Generated
    <2> QED
      BY <2>1 DEF Shrinks, Inv, Generated
  <1>6. CookieIsBacked'
    <2> SUFFICES ASSUME NEW d \in Devices, cookie'[d] # None,
                        session'[cookie'[d].session].user # None,
                        session'[cookie'[d].session].n = cookie'[d].n
                 PROVE  /\ told'[d] = session'[cookie'[d].session].profile
                        /\ told'[d] \in past'[session'[cookie'[d].session].user]
      BY DEF CookieIsBacked, Open
    <2>1. cookie'[d] = cookie[d] /\ told'[d] = told[d]
      BY DEF Shrinks
    <2>2. cookie[d].session \in Sessions
      BY <1>1, <2>1 DEF TypeOK, Token
    <2> QED
      BY <1>2, <1>3, <2>1, <2>2 DEF Inv, CookieIsBacked, Shrinks, Open
  <1>7. ASSUME NEW h \in Handlers PROVE WellPlaced(h)'
    <2>1. WellPlaced(h)
      BY DEF Inv
    <2> QED
      BY <2>1 DEF WellPlaced, Shrinks
  <1>8. ASSUME NEW h \in Handlers PROVE Undelivered(h)'
    <2> SUFFICES ASSUME req'[h].n > 0 PROVE Undelivered(h)'
      BY DEF Undelivered
    <2>1. req'[h].n = req[h].n /\ req'[h].session = req[h].session
      BY DEF Shrinks, KnowsLess
    <2>2. Undelivered(h) /\ req[h].n > 0 /\ req[h].session \in Sessions
      <3>1. WellPlaced(h) /\ req[h].session \in Sessions \cup {None}
        BY <1>1 DEF Inv, TypeOK, Request
      <3> QED
        BY <2>1, <3>1 DEF Inv, WellPlaced
    <2>3. session'[req[h].session].user # None => session'[req[h].session].n = req[h].n
      BY <1>2, <2>2 DEF Undelivered, Open
    <2>4. \A d \in Devices :
            cookie'[d] # None /\ cookie'[d].session = req[h].session => cookie'[d].n # req[h].n
      BY <2>2 DEF Undelivered, Shrinks
    <2>5. ASSUME NEW g \in Handlers, req'[g].session = req[h].session
          PROVE  req'[g].token # req[h].n /\ (g # h => req'[g].n # req[h].n)
      <3>1. KnowsLess(g)
        BY DEF Shrinks
      <3> QED
        BY <2>2, <2>5, <3>1 DEF Undelivered, KnowsLess
    <2> QED
      BY <2>1, <2>3, <2>4, <2>5 DEF Undelivered, Open
  <1>9. ASSUME NEW h \in Handlers PROVE Pending(h)'
    <2>1. SUFFICES ASSUME pc'[h] = pc[h], req'[h] = req[h], pc[h] \in {"commit", "answer"}
                   PROVE  Pending(h)'
      BY DEF Pending
    <2>2. Pending(h) /\ req[h].session \in Sessions
      BY <2>1 DEF Inv, WellPlaced
    <2>3. session'[req[h].session].user # None =>
            /\ Open(req[h].session) /\ session[req[h].session].user \in Users
            /\ session'[req[h].session] = session[req[h].session]
      BY <1>2, <1>3, <2>2 DEF Open
    <2> QED
      BY <2>1, <2>2, <2>3 DEF Pending, Shrinks, Open
  <1>10. ASSUME NEW h \in Handlers PROVE Backed(h)'
    <2> DEFINE s == req'[h].session
    <2> SUFFICES ASSUME req'[h].token > 0, session'[s].user # None, session'[s].n = req'[h].token
                 PROVE  session'[s].profile \in past'[session'[s].user]
      BY DEF Backed, Open
    <2>1. s \in Sessions
      <3>1. WellPlaced(h)' /\ s \in Sessions \cup {None}
        BY <1>7 DEF TypeOK, Request
      <3> QED
        BY <3>1 DEF WellPlaced
    <2>2. Open(s) /\ session'[s] = session[s] /\ session[s].user \in Users
      BY <1>2, <1>3, <2>1 DEF Open
    <2>3. CASE req'[h].token = req[h].token /\ s = req[h].session
      BY <2>2, <2>3 DEF Inv, Backed, Shrinks
    <2>4. CASE \E d \in Devices : cookie[d] # None /\ req'[h].token = cookie[d].n
                                    /\ s = cookie[d].session
      BY <2>2, <2>4 DEF Inv, CookieIsBacked, Shrinks
    <2> QED
      BY <2>3, <2>4 DEF Shrinks, KnowsLess
  <1> QED
    BY <1>4, <1>5, <1>6, <1>7, <1>8, <1>9, <1>10 DEF Inv

(* A session whose profile is not committed is still in somebody's hands,  *)
(* if nobody drops it.                                                     *)
LEMMA CompensatedKeeps ==
  ASSUME Inv, Shrinks,
         \/ broken'
         \/ /\ broken' = broken
            /\ \A h \in Handlers : pc[h] \in {"commit", "revoke"} =>
                 pc'[h] \in {"commit", "revoke"} /\ req'[h].session = req[h].session
  PROVE  Compensated'
  <1> SUFFICES ASSUME ~broken', NEW s \in Sessions, session'[s].user # None
               PROVE  \/ session'[s].profile \in past'[session'[s].user]
                      \/ \E h \in Handlers :
                           req'[h].session = s /\ pc'[h] \in {"commit", "revoke"}
    BY DEF Compensated, Open
  <1>1. session'[s] = session[s] /\ Open(s) /\ ~broken
    BY DEF Shrinks, Open, NoHash
  <1>2. session[s].user \in Users
    BY <1>1 DEF Inv, TypeOK, Hash, Open
  <1>3. \/ session[s].profile \in past[session[s].user]
        \/ \E h \in Handlers : req[h].session = s /\ pc[h] \in {"commit", "revoke"}
    BY <1>1 DEF Inv, Compensated
  <1> QED
    BY <1>1, <1>2, <1>3 DEF Shrinks

(* A handler that has ended, or not begun, knows nothing. *)
LEMMA FinishKnows ==
  ASSUME Inv, NEW h \in Handlers, Finish(h)
  PROVE  /\ \A g \in Handlers : KnowsLess(g)
         /\ WellPlaced(h)' /\ Pending(h)'
         /\ \A g \in Handlers : g # h => pc'[g] = pc[g] /\ req'[g] = req[g]
  <1>1. /\ pc'[h] = "idle" /\ req'[h] = NoRequest
        /\ \A g \in Handlers : g # h => pc'[g] = pc[g] /\ req'[g] = req[g]
    BY FinishType DEF Inv
  <1> QED
    BY <1>1, SessionsAssumption DEF KnowsLess, WellPlaced, Pending, NoRequest

(* A request that ends before it calls Redis, or that dies anywhere.       *)
LEMMA EndsKeep ==
  ASSUME Inv, NEW h \in Handlers, Finish(h),
         UNCHANGED <<row, issued, told, cookie, past, uses>>,
         broken' \in BOOLEAN,
         \/ broken'
         \/ broken' = broken /\ pc[h] \notin {"commit", "revoke"},
         \A s \in Sessions : session'[s] \in {session[s], NoHash},
         session' \in [Sessions -> Hash]
  PROVE  Inv'
  <1>1. TypeOK'
    BY FinishType DEF Inv, TypeOK
  <1>2. Shrinks
    BY FinishKnows DEF Shrinks
  <1>3. RowsInPast'
    BY DEF Inv, RowsInPast
  <1>4. Compensated'
    BY <1>2, FinishKnows, CompensatedKeeps
  <1> QED
    BY <1>1, <1>2, <1>3, <1>4, FinishKnows, ShrinksKeeps

(* A statement that goes on to the next, with the same tokens.             *)
LEMMA GoesOnKeeps ==
  ASSUME Inv, NEW h \in Handlers, TypeOK',
         UNCHANGED <<row, redis, browser, history>>,
         \A g \in Handlers : g # h => pc'[g] = pc[g] /\ req'[g] = req[g],
         pc[h] \notin {"commit", "revoke"}, KnowsLess(h), WellPlaced(h)', Pending(h)'
  PROVE  Inv'
  <1>1. Shrinks
    BY DEF Shrinks, KnowsLess, redis, browser, history
  <1>2. RowsInPast'
    BY DEF Inv, RowsInPast, history
  <1>3. Compensated'
    BY <1>1, CompensatedKeeps DEF history
  <1> QED
    BY <1>1, <1>2, <1>3, ShrinksKeeps

(* A request begins with what the client says and with its cookie.         *)
LEMMA BeginKeeps ==
  ASSUME Inv, NEW h \in Handlers, NEW label, NEW r \in Request, Begin(h, label, r),
         r.n = 0, r.session = None => r.token = 0,
         \/ r.token = 0
         \/ \E d \in Devices :
              cookie[d] # None /\ r.token = cookie[d].n /\ r.session = cookie[d].session,
         \/ label = "insert" /\ r.kind = "register" /\ r.user \in Users /\ r.profile \in Profiles
              /\ r.token = 0
         \/ label = "read" /\ r.kind = "login" /\ r.user \in Users /\ r.token = 0
         \/ label = "rotate" /\ r.kind = "refresh" /\ r.session \in Sessions /\ r.token > 0
         \/ label = "revoke" /\ r.kind = "logout" /\ r.session \in Sessions
         \/ label = "lock" /\ r.kind = "update" /\ r.user \in Users /\ r.session \in Sessions
              /\ r.token > 0
  PROVE  Inv'
  <1>1. /\ pc[h] = "idle" /\ pc' = [pc EXCEPT ![h] = label] /\ req' = [req EXCEPT ![h] = r]
        /\ UNCHANGED <<row, rowLock, redis, browser, history>>
    BY DEF Begin, Goto, store
  <1>2. TypeOK
    BY DEF Inv
  <1>3. TypeOK'
    BY <1>1, <1>2 DEF TypeOK, redis, browser, history
  <1>4. pc'[h] = label /\ req'[h] = r
        /\ \A g \in Handlers : g # h => pc'[g] = pc[g] /\ req'[g] = req[g]
    BY <1>1, <1>2 DEF TypeOK
  <1>5. KnowsLess(h) /\ WellPlaced(h)' /\ Pending(h)'
    BY <1>4 DEF KnowsLess, WellPlaced, Pending
  <1> QED
    BY <1>1, <1>3, <1>4, <1>5, GoesOnKeeps

(* PostgreSQL: the insert of Register, the reads of Login and of an update. *)
LEMMA StatementsKeep ==
  ASSUME Inv, NEW h \in Handlers, InsertUser(h) \/ ReadUser(h) \/ LockUser(h)
  PROVE  Inv'
  <1>1. TypeOK /\ WellPlaced(h)
    BY DEF Inv
  <1>2. CASE Finish(h)
    BY <1>1, <1>2, EndsKeep
    DEF InsertUser, ReadUser, LockUser, redis, browser, history, TypeOK
  <1>3. CASE ~Finish(h)
    <2>1. UNCHANGED <<row, redis, browser, history>>
      BY DEF InsertUser, ReadUser, LockUser
    <2>2. CASE InsertUser(h)
      <3>1. /\ pc[h] = "insert" /\ pc' = [pc EXCEPT ![h] = "issue"] /\ req' = req
            /\ rowLock' = [rowLock EXCEPT ![req[h].user] = h]
        BY <1>3, <2>2 DEF InsertUser, Goto
      <3>2. TypeOK'
        BY <1>1, <2>1, <3>1 DEF TypeOK, redis, browser, history
      <3>3. pc'[h] = "issue" /\ \A g \in Handlers : g # h => pc'[g] = pc[g]
        BY <1>1, <3>1 DEF TypeOK
      <3>4. KnowsLess(h) /\ WellPlaced(h)' /\ Pending(h)'
        BY <1>1, <3>1, <3>3 DEF KnowsLess, WellPlaced, Pending
      <3> QED
        BY <2>1, <3>1, <3>2, <3>3, <3>4, GoesOnKeeps
    <2>3. CASE ReadUser(h)
      <3>1. /\ pc[h] = "read" /\ pc' = [pc EXCEPT ![h] = "issue"] /\ rowLock' = rowLock
            /\ row[req[h].user] # None
            /\ req' = [req EXCEPT ![h].profile = row[req[h].user]]
        BY <1>3, <2>3 DEF ReadUser, Goto
      <3>2. req[h].user \in Users /\ req[h].kind = "login" /\ req[h].n = 0
        BY <1>1, <3>1 DEF WellPlaced
      <3>3. row[req[h].user] \in Profiles /\ row[req[h].user] \in past[req[h].user]
        BY <1>1, <3>1, <3>2 DEF Inv, TypeOK, RowsInPast
      <3>4. req[h] \in Request
        BY <1>1 DEF TypeOK
      <3>5. /\ pc'[h] = "issue" /\ req'[h] = [req[h] EXCEPT !.profile = row[req[h].user]]
            /\ \A g \in Handlers : g # h => pc'[g] = pc[g] /\ req'[g] = req[g]
        BY <1>1, <3>1 DEF TypeOK
      <3>6. /\ req'[h] \in Request /\ req'[h].kind = "login" /\ req'[h].n = 0
            /\ req'[h].user = req[h].user /\ req'[h].profile = row[req[h].user]
            /\ req'[h].token = req[h].token /\ req'[h].session = req[h].session
        BY <3>2, <3>3, <3>4, <3>5 DEF Request
      <3>7. TypeOK'
        BY <1>1, <2>1, <3>1, <3>5, <3>6 DEF TypeOK, redis, browser, history
      <3>8. KnowsLess(h) /\ WellPlaced(h)' /\ Pending(h)'
        BY <1>1, <2>1, <3>1, <3>2, <3>3, <3>5, <3>6 DEF KnowsLess, WellPlaced, Pending, history
      <3> QED
        BY <2>1, <3>1, <3>5, <3>7, <3>8, GoesOnKeeps
    <2>4. CASE LockUser(h)
      <3>1. /\ pc[h] = "lock" /\ pc' = [pc EXCEPT ![h] = "rotate"]
            /\ rowLock' = [rowLock EXCEPT ![req[h].user] = h]
        BY <2>4 DEF LockUser, Goto
      <3>2. PICK p \in Profiles : req' = [req EXCEPT ![h].profile = p]
        BY <2>4 DEF LockUser
      <3>3. req[h] \in Request /\ req[h].kind = "update" /\ req[h].n = 0
        BY <1>1, <3>1 DEF TypeOK, WellPlaced
      <3>4. /\ pc'[h] = "rotate" /\ req'[h] = [req[h] EXCEPT !.profile = p]
            /\ \A g \in Handlers : g # h => pc'[g] = pc[g] /\ req'[g] = req[g]
        BY <1>1, <3>1, <3>2 DEF TypeOK
      <3>5. /\ req'[h] \in Request /\ req'[h].kind = "update" /\ req'[h].n = 0
            /\ req'[h].profile = p
            /\ req'[h].token = req[h].token /\ req'[h].session = req[h].session
        BY <3>3, <3>4 DEF Request
      <3>6. TypeOK'
        BY <1>1, <2>1, <3>1, <3>2, <3>4, <3>5 DEF TypeOK, redis, browser, history
      <3>7. KnowsLess(h) /\ WellPlaced(h)' /\ Pending(h)'
        BY <1>1, <3>1, <3>4, <3>5 DEF KnowsLess, WellPlaced, Pending
      <3> QED
        BY <2>1, <3>1, <3>4, <3>6, <3>7, GoesOnKeeps
    <2> QED
      BY <2>2, <2>3, <2>4
  <1> QED
    BY <1>2, <1>3

(* Requests that fail or die; sessions that expire; cookies that Logout clears. *)
LEMMA LossesKeep ==
  ASSUME Inv, NEW h \in Handlers, Fails(h) \/ Lost(h)
  PROVE  Inv'
  BY EndsKeep DEF Inv, TypeOK, Fails, Lost, redis, browser, history

(* A session that expires takes its last token with it. *)
LEMMA ExpireKeeps ==
  ASSUME Inv, NEW s \in Sessions, Expire(s)
  PROVE  Inv'
  <1>1. TypeOK'
    <2>1. NoHash \in Hash
      BY SessionsAssumption DEF Hash, NoHash
    <2> QED
      BY <2>1 DEF Inv, TypeOK, Expire, store, browser, history
  <1>2. Shrinks /\ pc' = pc /\ req' = req
    BY DEF Inv, TypeOK, Expire, Shrinks, KnowsLess, browser, history
  <1>3. RowsInPast'
    BY DEF Inv, RowsInPast, Expire, store, history
  <1>4. Compensated'
    BY <1>2, CompensatedKeeps DEF Expire, history
  <1> QED
    BY <1>1, <1>2, <1>3, <1>4, ShrinksKeeps

(* A device without a cookie knows nothing. *)
LEMMA ClearCookiesKeeps ==
  ASSUME Inv, NEW h \in Handlers, ClearCookies(h)
  PROVE  Inv'
  <1>1. /\ pc[h] = "clear" /\ Finish(h) /\ UNCHANGED <<row, redis, history>>
        /\ \A d \in Devices :
             cookie'[d] = None \/ (cookie'[d] = cookie[d] /\ told'[d] = told[d])
        /\ cookie' \in [Devices -> Token \cup {None}]
        /\ told' \in [Devices -> Profiles \cup {None}]
    BY DEF Inv, TypeOK, ClearCookies, browser
  <1>2. TypeOK'
    BY <1>1, FinishType DEF Inv, TypeOK, redis, history
  <1>3. Shrinks
    BY <1>1, FinishKnows DEF Shrinks, redis, history
  <1>4. RowsInPast'
    BY <1>1 DEF Inv, RowsInPast, history
  <1>5. Compensated'
    BY <1>1, <1>3, FinishKnows, CompensatedKeeps DEF history
  <1> QED
    BY <1>1, <1>2, <1>3, <1>4, <1>5, FinishKnows, ShrinksKeeps

(* Once the profile is committed the session shows what users holds.       *)
LEMMA CommitKeeps ==
  ASSUME Inv, NEW h \in Handlers, Commit(h)
  PROVE  Inv'
  <1>1. /\ TypeOK /\ WellPlaced(h) /\ Pending(h) /\ pc[h] = "commit"
        /\ UNCHANGED <<redis, browser, req, uses, broken>>
        /\ rowLock' = Unlocked(h)
    BY DEF Inv, Commit
  <1>2. /\ req[h].user \in Users /\ req[h].profile \in Profiles
        /\ req[h].session \in Sessions /\ req[h].n > 0
    BY <1>1 DEF WellPlaced
  <1>3. /\ row' \in [Users -> Profiles \cup {None}] /\ past' \in [Users -> SUBSET Profiles]
        /\ \A u \in Users : past[u] \subseteq past'[u]
        /\ \A u \in Users : row'[u] # None => row'[u] \in past'[u]
    <2>1. CASE Stored(h)
      <3>1. /\ row' = [row EXCEPT ![req[h].user] = req[h].profile]
            /\ past' = [past EXCEPT ![req[h].user] = past[req[h].user] \cup {req[h].profile}]
        BY <2>1 DEF Stored
      <3>2. past[req[h].user] \cup {req[h].profile} \in SUBSET Profiles
        BY <1>1, <1>2 DEF TypeOK
      <3>3. past' \in [Users -> SUBSET Profiles] /\ row' \in [Users -> Profiles \cup {None}]
        BY <1>1, <1>2, <3>1, <3>2 DEF TypeOK
      <3>4. ASSUME NEW u \in Users
            PROVE  past[u] \subseteq past'[u] /\ (row'[u] # None => row'[u] \in past'[u])
        <4>1. row[u] # None => row[u] \in past[u]
          BY DEF Inv, RowsInPast
        <4> QED
          BY <1>1, <1>2, <3>1, <4>1 DEF TypeOK
      <3> QED
        BY <3>3, <3>4
    <2>2. CASE UNCHANGED <<row, past>>
      BY <1>1, <2>2 DEF Inv, TypeOK, RowsInPast
    <2> QED
      BY <2>1, <2>2 DEF Commit
  <1>4. /\ pc' \in [Handlers -> {"idle", "insert", "read", "lock", "issue", "rotate",
                                  "commit", "revoke", "answer", "clear"}]
        /\ pc'[h] \in {"answer", "revoke"}
        /\ \A g \in Handlers : g # h => pc'[g] = pc[g]
    BY <1>1 DEF TypeOK, Commit, Goto
  <1>5. TypeOK'
    <2>1. rowLock' \in [Users -> Handlers \cup {None}]
      BY <1>1 DEF TypeOK, Unlocked
    <2> QED
      BY <1>1, <1>3, <1>4, <2>1 DEF TypeOK, redis, browser
  <1>6. Shrinks
    BY <1>1, <1>3 DEF Shrinks, KnowsLess, redis, browser
  <1>7. WellPlaced(h)'
    <2>1. req[h].kind # "logout"
      BY <1>1 DEF WellPlaced
    <2> QED
      BY <1>1, <1>2, <1>4, <2>1 DEF WellPlaced
  <1>8. pc'[h] = "answer" => req[h].profile \in past'[req[h].user]
    BY <1>1, <1>2 DEF Commit, Stored, Goto, TypeOK
  <1>9. Pending(h)'
    BY <1>1, <1>2, <1>4, <1>8 DEF Pending, Open, redis
  <1>10. Compensated'
    <2> SUFFICES ASSUME ~broken, NEW s \in Sessions, Open(s)
                 PROVE  \/ session[s].profile \in past'[session[s].user]
                        \/ \E g \in Handlers :
                             req[g].session = s /\ pc'[g] \in {"commit", "revoke"}
      BY <1>1 DEF Compensated, Open, redis
    <2>1. session[s].user \in Users
      BY <1>1 DEF TypeOK, Hash, Open
    <2>2. \/ session[s].profile \in past[session[s].user]
          \/ \E g \in Handlers : req[g].session = s /\ pc[g] \in {"commit", "revoke"}
      BY DEF Inv, Compensated
    <2>3. CASE req[h].session = s
      BY <1>1, <1>4, <1>8, <2>3 DEF Pending
    <2>4. CASE req[h].session # s
      BY <1>3, <1>4, <2>1, <2>2, <2>4
    <2> QED
      BY <2>3, <2>4
  <1>11. RowsInPast'
    BY <1>3 DEF RowsInPast
  <1> QED
    BY <1>1, <1>3, <1>4, <1>5, <1>6, <1>7, <1>9, <1>10, <1>11, ShrinksKeeps

(* A session that is revoked is gone; if the call failed the history says so. *)
LEMMA RevokeKeeps ==
  ASSUME Inv, NEW h \in Handlers, Revoke(h)
  PROVE  Inv'
  <1>1. /\ TypeOK /\ WellPlaced(h) /\ pc[h] = "revoke"
        /\ UNCHANGED <<row, issued, browser, past, uses>>
    BY DEF Inv, Revoke
  <1>2. PICK run \in BOOLEAN, reply \in BOOLEAN :
          /\ session' = IF run THEN [session EXCEPT ![req[h].session] = NoHash] ELSE session
          /\ broken' = (broken \/ ~run \/ ~reply)
    BY DEF Revoke
  <1>3. req[h].session \in Sessions /\ NoHash \in Hash
    BY <1>1, SessionsAssumption DEF WellPlaced, Hash, NoHash
  <1>4. /\ session' \in [Sessions -> Hash]
        /\ \A s \in Sessions : session'[s] \in {session[s], NoHash}
        /\ run => session'[req[h].session] = NoHash
    BY <1>1, <1>2, <1>3 DEF TypeOK
  <1>5. /\ \A g \in Handlers : g # h => pc'[g] = pc[g] /\ req'[g] = req[g]
        /\ \A g \in Handlers : KnowsLess(g)
        /\ WellPlaced(h)' /\ Pending(h)'
        /\ pc' \in [Handlers -> {"idle", "insert", "read", "lock", "issue", "rotate",
                                  "commit", "revoke", "answer", "clear"}]
        /\ req' \in [Handlers -> Request]
        /\ rowLock' \in [Users -> Handlers \cup {None}]
    <2>1. CASE req[h].kind = "logout"
      <3>1. pc' = [pc EXCEPT ![h] = "clear"] /\ req' = req /\ rowLock' = rowLock
        BY <2>1 DEF Revoke, Goto
      <3>2. pc'[h] = "clear" /\ \A g \in Handlers : g # h => pc'[g] = pc[g]
        BY <1>1, <3>1 DEF TypeOK
      <3>3. req[h].n = 0
        BY <1>1, <2>1 DEF WellPlaced
      <3> QED
        BY <1>1, <3>1, <3>2, <3>3 DEF TypeOK, KnowsLess, WellPlaced, Pending
    <2>2. CASE req[h].kind # "logout"
      BY <1>1, <2>2, FinishKnows, FinishType DEF Revoke
    <2> QED
      BY <2>1, <2>2
  <1>6. TypeOK'
    BY <1>1, <1>2, <1>4, <1>5 DEF TypeOK, browser
  <1>7. Shrinks
    BY <1>1, <1>4, <1>5 DEF Shrinks, browser
  <1>8. RowsInPast'
    BY <1>1 DEF Inv, RowsInPast
  <1>9. Compensated'
    <2> SUFFICES ASSUME ~broken', NEW s \in Sessions, session'[s].user # None
                 PROVE  \/ session'[s].profile \in past[session'[s].user]
                        \/ \E g \in Handlers :
                             req'[g].session = s /\ pc'[g] \in {"commit", "revoke"}
      BY <1>1 DEF Compensated, Open
    <2>1. run /\ ~broken
      BY <1>2
    <2>2. session'[s] = session[s] /\ Open(s) /\ s # req[h].session
      BY <1>4, <2>1 DEF Open, NoHash
    <2>3. \/ session[s].profile \in past[session[s].user]
          \/ \E g \in Handlers : req[g].session = s /\ pc[g] \in {"commit", "revoke"}
      BY <2>1, <2>2 DEF Inv, Compensated
    <2> QED
      BY <1>5, <2>2, <2>3
  <1> QED
    BY <1>5, <1>6, <1>7, <1>8, <1>9, ShrinksKeeps

-----------------------------------------------------------------------------
(* Steps that generate a token. *)

\* h has the token number hash.n of s, which nobody has had.
Generates(h, s, hash) ==
  /\ hash \in Hash /\ hash.user \in Users /\ hash.n = issued[s] + 1
  /\ session' = [session EXCEPT ![s] = hash]
  /\ issued' = [issued EXCEPT ![s] = issued[s] + 1]
  /\ UNCHANGED <<row, browser, past>>
  /\ \A g \in Handlers : g # h => pc'[g] = pc[g] /\ req'[g] = req[g]

\* It takes it to the end, or is lost with it.
HasToken(h, s, hash) ==
  /\ req'[h].session = s /\ req'[h].n = hash.n /\ req'[h].profile = hash.profile
  /\ req'[h].token = req[h].token /\ (req[h].token = 0 \/ req[h].session = s)
  /\ \/ pc'[h] = "commit" /\ hash.user = req'[h].user
     \/ pc'[h] = "answer" /\ hash.profile \in past[hash.user]
  /\ broken' = broken

(* The new token is known to one request, and what others knew is old.     *)
LEMMA GeneratesKeeps ==
  ASSUME Inv, NEW h \in Handlers, NEW s \in Sessions, NEW hash, Generates(h, s, hash),
         pc[h] \in {"issue", "rotate"},
         \A g \in Handlers : g # h /\ req[g].session = s => req[g].n = 0,
         TypeOK', SessionInv(s)', WellPlaced(h)', \A z \in Sessions : z # s => uses'[z] = uses[z],
         \/ HasToken(h, s, hash)
         \/ pc'[h] = "idle" /\ req'[h] = NoRequest /\ broken'
  PROVE  Inv'
  <1>1. TypeOK /\ hash.n = issued[s] + 1 /\ hash.user \in Users /\ UNCHANGED <<row, cookie, told, past>>
    BY DEF Inv, Generates, browser
  <1>2. /\ session'[s] = hash /\ issued'[s] = issued[s] + 1
        /\ \A z \in Sessions : z # s => session'[z] = session[z] /\ issued'[z] = issued[z]
        /\ \A z \in Sessions : issued[z] \in Nat /\ issued'[z] \in Nat /\ issued[z] <= issued'[z]
    BY <1>1 DEF Generates, TypeOK
  <1>3. \A g \in Handlers : g # h => pc'[g] = pc[g] /\ req'[g] = req[g]
    BY DEF Generates
  <1>4. \A g \in Handlers : /\ req[g].n \in Nat /\ req[g].token \in Nat
                             /\ req[g].session \in Sessions \cup {None}
    <2>1. \A g \in Handlers : req[g] \in Request
      BY <1>1 DEF TypeOK
    <2>2. 0..MaxTokens \subseteq Nat
      OBVIOUS
    <2> QED
      BY <2>1, <2>2 DEF Request
  <1>5. \A z \in Sessions : SessionInv(z)'
    <2> SUFFICES ASSUME NEW z \in Sessions, z # s PROVE SessionInv(z)'
      OBVIOUS
    <2>1. SessionInv(z) /\ session'[z] = session[z] /\ issued'[z] = issued[z] /\ uses'[z] = uses[z]
      BY <1>2 DEF Inv
    <2> QED
      BY <2>1 DEF SessionInv, Open
  <1>6. None \notin Sessions /\ None \notin Users
    BY SessionsAssumption
  <1>7. RowsInPast'
    BY <1>1 DEF Inv, RowsInPast
  <1>8. Generated'
    <2>1. ASSUME NEW d \in Devices, cookie[d] # None
          PROVE  cookie[d].n <= issued'[cookie[d].session]
      <3>1. cookie[d].session \in Sessions /\ cookie[d].n \in Nat
        <4>1. cookie[d] \in Token
          BY <1>1, <2>1 DEF TypeOK
        <4> QED
          BY <4>1, SessionsAssumption DEF Token
      <3>2. cookie[d].n <= issued[cookie[d].session]
        BY <2>1 DEF Inv, Generated
      <3> QED
        BY <1>2, <3>1, <3>2
    <2>2. ASSUME NEW g \in Handlers, req'[g].session \in Sessions
          PROVE  req'[g].token <= issued'[req'[g].session] /\ req'[g].n <= issued'[req'[g].session]
      <3>1. req[g].session \in Sessions =>
              req[g].token <= issued[req[g].session] /\ req[g].n <= issued[req[g].session]
        BY DEF Inv, Generated
      <3>2. CASE g # h
        BY <1>2, <1>3, <1>4, <2>2, <3>1, <3>2
      <3>3. CASE g = h
        BY <1>1, <1>2, <1>4, <1>6, <2>2, <3>1, <3>3 DEF HasToken, NoRequest
      <3> QED
        BY <3>2, <3>3
    <2> QED
      BY <1>1, <2>1, <2>2 DEF Generated
  <1>9. CookieIsBacked'
    <2> SUFFICES ASSUME NEW d \in Devices, cookie[d] # None,
                        session'[cookie[d].session].user # None,
                        session'[cookie[d].session].n = cookie[d].n
                 PROVE  /\ told[d] = session'[cookie[d].session].profile
                        /\ told[d] \in past[session'[cookie[d].session].user]
      BY <1>1 DEF CookieIsBacked, Open
    <2>1. cookie[d].session \in Sessions /\ cookie[d].n \in Nat
      BY <1>1, SessionsAssumption DEF TypeOK, Token
    <2>2. cookie[d].n <= issued[cookie[d].session]
      BY DEF Inv, Generated
    <2>3. cookie[d].session # s
      BY <1>1, <1>2, <2>1, <2>2
    <2> QED
      BY <1>2, <2>1, <2>3 DEF Inv, CookieIsBacked, Open
  <1>10. Compensated'
    <2> SUFFICES ASSUME ~broken', NEW z \in Sessions, session'[z].user # None
                 PROVE  \/ session'[z].profile \in past[session'[z].user]
                        \/ \E g \in Handlers :
                             req'[g].session = z /\ pc'[g] \in {"commit", "revoke"}
      BY <1>1 DEF Compensated, Open
    <2>1. HasToken(h, s, hash)
      OBVIOUS
    <2>2. CASE z = s
      BY <1>2, <2>1, <2>2 DEF HasToken
    <2>3. CASE z # s
      <3>1. session'[z] = session[z] /\ Open(z) /\ ~broken
        BY <1>2, <2>1, <2>3 DEF Open, HasToken
      <3>2. \/ session[z].profile \in past[session[z].user]
            \/ \E g \in Handlers : req[g].session = z /\ pc[g] \in {"commit", "revoke"}
        BY <3>1 DEF Inv, Compensated
      <3> QED
        BY <1>3, <3>1, <3>2
    <2> QED
      BY <2>2, <2>3
  <1>11. ASSUME NEW g \in Handlers, g # h
         PROVE  WellPlaced(g)' /\ (req[g].n > 0 => req[g].session \in Sessions /\ req[g].session # s)
    <2>1. WellPlaced(g)
      BY DEF Inv
    <2> QED
      BY <1>1, <1>3, <1>4, <1>11, <2>1 DEF WellPlaced
  <1>12. ASSUME NEW g \in Handlers PROVE Undelivered(g)'
    <2> SUFFICES ASSUME req'[g].n > 0 PROVE Undelivered(g)'
      BY DEF Undelivered
    <2>1. CASE g = h
      <3>1. HasToken(h, s, hash)
        BY <2>1 DEF NoRequest
      <3>2. req'[h].session = s /\ req'[h].n = issued[s] + 1 /\ req'[h].token = req[h].token
        BY <1>1, <3>1 DEF HasToken
      <3>3. \A d \in Devices : cookie[d] # None /\ cookie[d].session = s => cookie[d].n # req'[h].n
        <4> TAKE d \in Devices
        <4>1. cookie[d] # None => cookie[d].n \in Nat
          BY <1>1, SessionsAssumption DEF TypeOK, Token
        <4>2. cookie[d] # None => cookie[d].n <= issued[cookie[d].session]
          BY DEF Inv, Generated
        <4> QED
          BY <1>2, <3>2, <4>1, <4>2
      <3>4. ASSUME NEW f \in Handlers, req'[f].session = s
            PROVE  req'[f].token # req'[h].n /\ (f # h => req'[f].n # req'[h].n)
        <4>1. req[f].session \in Sessions =>
                req[f].token <= issued[req[f].session] /\ req[f].n <= issued[req[f].session]
          BY DEF Inv, Generated
        <4>2. CASE f # h
          BY <1>2, <1>3, <1>4, <3>2, <3>4, <4>1, <4>2
        <4>3. CASE f = h
          BY <1>2, <1>4, <3>1, <3>2, <4>1, <4>3 DEF HasToken
        <4> QED
          BY <4>2, <4>3
      <3> QED
        BY <1>1, <1>2, <2>1, <3>1, <3>2, <3>3, <3>4 DEF Undelivered, HasToken
    <2>2. CASE g # h
      <3>1. req'[g] = req[g] /\ req[g].session \in Sessions /\ req[g].session # s
        BY <1>3, <1>11, <2>2
      <3>2. Undelivered(g) /\ req[g].n > 0
        BY <3>1 DEF Inv
      <3>3. req'[h].session # req[g].session
        BY <1>6, <3>1 DEF HasToken, NoRequest
      <3> QED
        BY <1>1, <1>2, <1>3, <3>1, <3>2, <3>3 DEF Undelivered, Open
    <2> QED
      BY <2>1, <2>2
  <1>13. ASSUME NEW g \in Handlers PROVE Pending(g)'
    <2>1. CASE g = h
      BY <1>1, <1>2, <2>1 DEF Pending, HasToken
    <2>2. CASE g # h
      <3>1. SUFFICES ASSUME pc[g] \in {"commit", "answer"} PROVE Pending(g)'
        BY <1>3, <2>2 DEF Pending
      <3>2. WellPlaced(g) /\ Pending(g)
        BY DEF Inv
      <3>3. req[g].session \in Sessions /\ req[g].session # s
        BY <1>11, <2>2, <3>1, <3>2 DEF WellPlaced
      <3>4. session'[req[g].session] = session[req[g].session] /\ pc'[g] = pc[g] /\ req'[g] = req[g]
        BY <1>2, <1>3, <2>2, <3>3
      <3> QED
        BY <1>1, <3>2, <3>4 DEF Pending, Open
    <2> QED
      BY <2>1, <2>2
  <1>14. ASSUME NEW g \in Handlers PROVE Backed(g)'
    <2>1. /\ req[g].session \in Sessions => req[g].token <= issued[req[g].session]
          /\ WellPlaced(g) /\ Backed(g)
      BY DEF Inv, Generated
    <2> SUFFICES ASSUME req'[g].token > 0, session'[req'[g].session].user # None,
                        session'[req'[g].session].n = req'[g].token
                 PROVE  session'[req'[g].session].profile \in past'[session'[req'[g].session].user]
      BY DEF Backed, Open
    <2>2. req'[g].token = req[g].token /\ req'[g].session = req[g].session
      BY <1>3, <1>4 DEF HasToken, NoRequest
    <2>3. req[g].session \in Sessions
      BY <1>4, <2>1, <2>2 DEF WellPlaced
    <2>4. req[g].session # s
      BY <1>1, <1>2, <1>4, <2>1, <2>2, <2>3
    <2> QED
      BY <1>1, <1>2, <2>1, <2>2, <2>3, <2>4 DEF Backed, Open
  <1>15. \A g \in Handlers : WellPlaced(g)'
    BY <1>11
  <1> QED
    BY <1>5, <1>7, <1>8, <1>9, <1>10, <1>12, <1>13, <1>14, <1>15 DEF Inv

(* Register and Login open a session under an identifier that is new.      *)
LEMMA IssueKeeps ==
  ASSUME Inv, NEW h \in Handlers, IssueSession(h)
  PROVE  Inv'
  <1>1. /\ TypeOK /\ WellPlaced(h) /\ pc[h] = "issue"
        /\ UNCHANGED <<row, browser, past, uses>>
    BY DEF Inv, IssueSession
  <1>2. PICK s \in Sessions, reply \in BOOLEAN :
          /\ issued[s] = 0
          /\ issued' = [issued EXCEPT ![s] = 1]
          /\ session' = [session EXCEPT ![s] = Opened(h)]
          /\ IF reply
               THEN /\ req' = [req EXCEPT ![h].session = s, ![h].n = 1]
                    /\ Goto(h, IF req[h].kind = "register" THEN "commit" ELSE "answer")
                    /\ UNCHANGED <<rowLock, broken>>
               ELSE Finish(h) /\ broken' = TRUE
    BY DEF IssueSession
  <1>3. /\ req[h].user \in Users /\ req[h].profile \in Profiles /\ req[h].token = 0
        /\ req[h].kind \in {"register", "login"} /\ req[h].n = 0
        /\ req[h].kind = "login" => req[h].profile \in past[req[h].user]
        /\ req[h] \in Request
    BY <1>1 DEF WellPlaced, TypeOK
  <1>o. Opened(h) \in Hash
    <2>1. 1 \in 0..MaxTokens
      BY SessionsAssumption
    <2> QED
      BY <1>3, <2>1 DEF Opened, Hash
  <1>h. PICK hash \in Hash : hash = Opened(h)
    BY <1>o
  <1>4. /\ hash = Opened(h) /\ hash.user = req[h].user /\ hash.profile = req[h].profile
        /\ hash.n = issued[s] + 1 /\ 1 \in 0..MaxTokens
    BY <1>2, <1>3, <1>h, SessionsAssumption DEF Opened
  <1>5. \A g \in Handlers : g # h /\ req[g].session = s => req[g].n = 0
    <2> SUFFICES ASSUME NEW g \in Handlers, req[g].session = s PROVE req[g].n = 0
      OBVIOUS
    <2>1. req[g].n \in Nat /\ req[g].n <= issued[s]
      BY <1>1, SessionsAssumption DEF Inv, Generated, TypeOK, Request
    <2> QED
      BY <1>2, <2>1
  <1>6. SessionInv(s)'
    <2>1. SessionInv(s)
      BY DEF Inv
    <2>2. session'[s] = hash /\ issued'[s] = 1
      BY <1>1, <1>2, <1>4 DEF TypeOK
    <2>3. session'[s].user # None
      BY <1>3, <1>4, <2>2, SessionsAssumption
    <2> QED
      BY <1>1, <1>2, <1>4, <2>1, <2>2, <2>3 DEF SessionInv, Open
  <1>7. issued' \in [Sessions -> 0..MaxTokens] /\ session' \in [Sessions -> Hash]
    BY <1>1, <1>2, <1>4 DEF TypeOK
  <1>8. CASE reply
    <2>1. /\ req' = [req EXCEPT ![h].session = s, ![h].n = 1]
          /\ pc' = [pc EXCEPT ![h] = IF req[h].kind = "register" THEN "commit" ELSE "answer"]
          /\ UNCHANGED <<rowLock, broken>>
      BY <1>2, <1>8 DEF Goto
    <2>2. /\ pc'[h] = IF req[h].kind = "register" THEN "commit" ELSE "answer"
          /\ req'[h] = [req[h] EXCEPT !.session = s, !.n = 1]
          /\ \A g \in Handlers : g # h => pc'[g] = pc[g] /\ req'[g] = req[g]
      BY <1>1, <2>1 DEF TypeOK
    <2>3. /\ req'[h] \in Request /\ req'[h].session = s /\ req'[h].n = 1
          /\ req'[h].profile = req[h].profile /\ req'[h].user = req[h].user
          /\ req'[h].token = 0 /\ req'[h].kind = req[h].kind
      BY <1>3, <1>4, <2>2 DEF Request
    <2>4. TypeOK'
      BY <1>1, <1>7, <2>1, <2>2, <2>3 DEF TypeOK, browser
    <2>5. WellPlaced(h)'
      BY <1>3, <2>2, <2>3, SessionsAssumption DEF WellPlaced
    <2>6. HasToken(h, s, hash)
      BY <1>2, <1>3, <1>4, <2>1, <2>2, <2>3 DEF HasToken
    <2>7. Generates(h, s, hash)
      BY <1>1, <1>2, <1>3, <1>4, <2>2 DEF Generates
    <2> QED
      BY <1>1, <1>5, <1>6, <2>4, <2>5, <2>6, <2>7, GeneratesKeeps
  <1>9. CASE ~reply
    <2>1. Finish(h) /\ broken'
      BY <1>2, <1>9
    <2>2. Generates(h, s, hash)
      BY <1>1, <1>2, <1>3, <1>4, <2>1, FinishType DEF Generates
    <2>3. TypeOK'
      BY <1>1, <1>2, <1>7, <1>9, <2>1, FinishType DEF TypeOK, browser
    <2> QED
      BY <1>1, <1>5, <1>6, <2>1, <2>2, <2>3, FinishType, FinishKnows, GeneratesKeeps
  <1> QED
    BY <1>8, <1>9

(* A rotation takes the current token and hands out the next; with any     *)
(* other token the session ends.                                           *)
LEMMA RotateKeeps ==
  ASSUME Inv, NEW h \in Handlers, RotateSession(h)
  PROVE  Inv'
  <1>1. /\ TypeOK /\ WellPlaced(h) /\ pc[h] = "rotate" /\ Backed(h)
        /\ UNCHANGED <<row, browser, past>>
    BY DEF Inv, RotateSession
  <1>s. PICK s \in Sessions : s = req[h].session
    BY <1>1 DEF WellPlaced
  <1>2. /\ req[h].session = s /\ req[h].token > 0 /\ req[h].n = 0
        /\ req[h].kind \in {"refresh", "update"}
        /\ req[h].kind = "update" => req[h].profile \in Profiles
        /\ req[h] \in Request /\ session[s] \in Hash /\ NoHash \in Hash
    BY <1>1, <1>s, SessionsAssumption DEF WellPlaced, TypeOK, Hash, NoHash
  <1>3. CASE Refused(h, NoHash) \/ Refused(h, Presented(h))
    <2>1. /\ session' \in [Sessions -> Hash]
          /\ \A z \in Sessions : session'[z] \in {session[z], NoHash}
      BY <1>1, <1>2, <1>3 DEF Refused, Presented, TypeOK
    <2>2. Finish(h) /\ UNCHANGED <<issued, uses, broken>>
      BY <1>3 DEF Refused
    <2> QED
      BY <1>1, <2>1, <2>2, EndsKeep DEF browser, TypeOK
  <1>4. CASE /\ Open(s) /\ Matches(h) /\ Owns(h)
             /\ issued[s] < MaxTokens /\ Replaced(h, Rotated(h))
    <2>1. /\ session[s].n = req[h].token /\ session[s].user \in Users
          /\ SessionInv(s) /\ session[s].n = issued[s] /\ issued[s] \in 1..MaxTokens
      BY <1>1, <1>2, <1>4 DEF Matches, Presented, Open, TypeOK, Hash, Inv, SessionInv
    <2>h. /\ Rotated(h) \in Hash /\ Rotated(h).n = issued[s] + 1
          /\ Rotated(h).user = session[s].user
          /\ Rotated(h).profile = IF req[h].kind = "update" THEN req[h].profile
                                                            ELSE session[s].profile
      <3>1. issued[s] + 1 \in 0..MaxTokens
        BY <1>4, <2>1, SessionsAssumption
      <3>2. CASE req[h].kind = "update"
        <4>1. Rotated(h) = [session[s] EXCEPT !.n = issued[s] + 1, !.profile = req[h].profile]
          BY <1>2, <3>2 DEF Rotated, Presented
        <4> QED
          BY <1>2, <3>1, <3>2, <4>1 DEF Hash
      <3>3. CASE req[h].kind # "update"
        <4>1. Rotated(h) = [session[s] EXCEPT !.n = issued[s] + 1]
          BY <1>2, <3>3 DEF Rotated, Presented
        <4> QED
          BY <1>2, <3>1, <3>3, <4>1 DEF Hash
      <3> QED
        BY <3>2, <3>3
    <2>p. PICK hash \in Hash : hash = Rotated(h)
      BY <2>h
    <2>2. /\ hash.n = issued[s] + 1 /\ hash.user = session[s].user
          /\ req[h].kind = "update" => hash.profile = req[h].profile
          /\ req[h].kind # "update" => hash.profile = session[s].profile
      BY <2>h, <2>p
    <2>3. /\ session' = [session EXCEPT ![s] = hash]
          /\ issued' = [issued EXCEPT ![s] = issued[s] + 1]
          /\ uses' = [uses EXCEPT ![s][req[h].token] = uses[s][req[h].token] + 1]
      BY <1>2, <1>4, <2>p DEF Replaced
    <2>4. /\ session' \in [Sessions -> Hash] /\ issued' \in [Sessions -> 0..MaxTokens]
          /\ session'[s] = hash /\ issued'[s] = issued[s] + 1
      BY <1>1, <1>2, <1>4, <2>1, <2>2, <2>3, SessionsAssumption DEF TypeOK
    <2>5. /\ uses' \in [Sessions -> [1..MaxTokens -> Nat]]
          /\ \A z \in Sessions : z # s => uses'[z] = uses[z]
          /\ \A n \in 1..MaxTokens :
               uses'[s][n] = IF n = issued[s] THEN uses[s][n] + 1 ELSE uses[s][n]
      <3>1. uses[s] \in [1..MaxTokens -> Nat] /\ req[h].token \in 1..MaxTokens
        BY <1>1, <1>2, <2>1 DEF TypeOK
      <3>2. uses' = [uses EXCEPT ![s] = [uses[s] EXCEPT ![req[h].token] = uses[s][req[h].token] + 1]]
        BY <1>1, <1>2, <2>3, <3>1 DEF TypeOK
      <3>3. [uses[s] EXCEPT ![req[h].token] = uses[s][req[h].token] + 1] \in [1..MaxTokens -> Nat]
        <4>1. uses[s][req[h].token] + 1 \in Nat
          BY <3>1, SessionsAssumption
        <4>2. \A f, k, v : f \in [1..MaxTokens -> Nat] /\ v \in Nat =>
                [f EXCEPT ![k] = v] \in [1..MaxTokens -> Nat]
          OBVIOUS
        <4> QED
          BY <3>1, <4>1, <4>2
      <3>4. /\ uses' \in [Sessions -> [1..MaxTokens -> Nat]]
            /\ \A z \in Sessions : z # s => uses'[z] = uses[z]
            /\ uses'[s] = [uses[s] EXCEPT ![req[h].token] = uses[s][req[h].token] + 1]
        BY <1>1, <3>2, <3>3 DEF TypeOK
      <3>5. req[h].token = issued[s]
        BY <2>1
      <3> QED
        BY <3>1, <3>4, <3>5
    <2>6. SessionInv(s)'
      <3>1. session'[s].user # None
        BY <2>1, <2>2, <2>4, SessionsAssumption
      <3>2. ASSUME NEW n \in 1..MaxTokens
            PROVE  uses'[s][n] <= 1 /\ (n >= issued[s] + 1 => uses'[s][n] = 0)
        <4>1. uses[s][n] <= 1 /\ (n >= issued[s] => uses[s][n] = 0) /\ uses[s][n] \in Nat
          BY <1>1, <1>2, <2>1 DEF SessionInv, TypeOK
        <4> QED
          BY <2>1, <2>5, <4>1
      <3> QED
        BY <2>1, <2>2, <2>4, <3>1, <3>2 DEF SessionInv, Open
    <2>7. \A g \in Handlers : g # h /\ req[g].session = s => req[g].n = 0
      <3> SUFFICES ASSUME NEW g \in Handlers, req[g].session = s, req[g].n # 0 PROVE FALSE
        OBVIOUS
      <3>1. req[g].n > 0 /\ Undelivered(g)
        BY <1>1, SessionsAssumption DEF Inv, TypeOK, Request
      <3> QED
        BY <1>2, <1>4, <2>1, <3>1 DEF Undelivered
    <2>8. CASE /\ req' = [req EXCEPT ![h].n = hash.n, ![h].profile = hash.profile]
               /\ Goto(h, IF req[h].kind = "update" THEN "commit" ELSE "answer")
               /\ UNCHANGED <<rowLock, broken>>
      <3>1. /\ pc'[h] = IF req[h].kind = "update" THEN "commit" ELSE "answer"
            /\ req'[h] = [req[h] EXCEPT !.n = hash.n, !.profile = hash.profile]
            /\ \A g \in Handlers : g # h => pc'[g] = pc[g] /\ req'[g] = req[g]
        BY <1>1, <2>8 DEF TypeOK, Goto
      <3>2. /\ req'[h] \in Request /\ req'[h].session = s /\ req'[h].n = hash.n
            /\ req'[h].profile = hash.profile /\ req'[h].user = req[h].user
            /\ req'[h].token = req[h].token /\ req'[h].kind = req[h].kind
        BY <1>2, <2>2, <3>1 DEF Request, Hash
      <3>3. TypeOK'
        BY <1>1, <2>4, <2>5, <2>8, <3>1, <3>2 DEF TypeOK, browser, Goto
      <3>4. req[h].kind = "update" => req[h].user = hash.user /\ hash.profile \in Profiles
        BY <1>2, <1>4, <2>2 DEF Owns, Presented
      <3>5. WellPlaced(h)'
        BY <1>2, <2>1, <2>2, <3>1, <3>2, <3>4, SessionsAssumption DEF WellPlaced
      <3>6. req[h].kind = "refresh" => hash.profile \in past[hash.user]
        BY <1>1, <1>2, <1>4, <2>1, <2>2 DEF Backed
      <3>7. HasToken(h, s, hash)
        BY <1>2, <2>8, <3>1, <3>2, <3>4, <3>6 DEF HasToken
      <3>8. Generates(h, s, hash)
        BY <1>1, <2>1, <2>2, <2>3, <3>1 DEF Generates
      <3> QED
        BY <1>1, <1>2, <2>5, <2>6, <2>7, <3>3, <3>5, <3>7, <3>8, GeneratesKeeps
    <2>9. CASE Finish(h) /\ broken' = TRUE
      <3>1. Generates(h, s, hash)
        BY <1>1, <2>1, <2>2, <2>3, <2>9, FinishType DEF Generates
      <3>2. TypeOK'
        BY <1>1, <2>4, <2>5, <2>9, FinishType DEF TypeOK, browser
      <3> QED
        BY <1>1, <1>2, <2>5, <2>6, <2>7, <2>9, <3>1, <3>2, FinishType, FinishKnows, GeneratesKeeps
    <2> QED
      BY <1>4, <2>p, <2>8, <2>9 DEF Replaced
  <1> QED
    BY <1>2, <1>3, <1>4 DEF RotateSession

(* A response is delivered: the device has the token and its profile.      *)
LEMMA AnswerKeeps ==
  ASSUME Inv, NEW h \in Handlers, Answer(h)
  PROVE  Inv'
  <1>1. /\ TypeOK /\ WellPlaced(h) /\ Undelivered(h) /\ Pending(h) /\ pc[h] = "answer"
        /\ Finish(h) /\ UNCHANGED <<row, session, issued, past, uses, broken>>
    BY DEF Inv, Answer, redis, history
  <1>2. CASE UNCHANGED browser
    BY <1>1, <1>2, EndsKeep DEF browser, TypeOK
  <1> DEFINE s == req[h].session
             d0 == req[h].device
             token == [session |-> s, n |-> req[h].n]
  <1>k. /\ s \in Sessions /\ req[h].n \in 1..MaxTokens
        /\ req[h].profile \in Profiles \cup {None}
        /\ \A g \in Handlers : req[g].n \in Nat /\ req[g].token \in Nat
    BY <1>1, SessionsAssumption DEF WellPlaced, TypeOK, Request
  <1>f. /\ pc'[h] = "idle" /\ req'[h] = NoRequest
        /\ \A g \in Handlers : g # h => pc'[g] = pc[g] /\ req'[g] = req[g]
    BY <1>1, FinishType
  <1>n. NoRequest.n = 0 /\ NoRequest.token = 0 /\ NoRequest.session = None /\ None \notin Sessions
    BY SessionsAssumption DEF NoRequest
  <1>3. CASE /\ cookie' = [cookie EXCEPT ![d0] = token]
             /\ told' = [told EXCEPT ![d0] = req[h].profile]
    <2>1. token \in Token /\ token.session = s /\ token.n = req[h].n
      BY <1>k DEF Token
    <2>2. \A d \in Devices :
            \/ cookie'[d] = cookie[d] /\ told'[d] = told[d]
            \/ cookie'[d] = token /\ told'[d] = req[h].profile
      BY <1>1, <1>3 DEF TypeOK
    <2>3. TypeOK'
      <3>1. cookie' \in [Devices -> Token \cup {None}] /\ told' \in [Devices -> Profiles \cup {None}]
        BY <1>1, <1>3, <1>k, <2>1 DEF TypeOK
      <3> QED
        BY <1>1, <3>1, FinishType DEF TypeOK
    <2>4. RowsInPast'
      BY <1>1 DEF Inv, RowsInPast
    <2>5. Generated'
      <3>1. req[h].n <= issued[s]
        BY <1>k DEF Inv, Generated
      <3> QED
        BY <1>1, <1>f, <1>n, <2>1, <2>2, <3>1 DEF Inv, Generated
    <2>6. CookieIsBacked'
      BY <1>1, <2>1, <2>2 DEF Inv, CookieIsBacked, Open, Pending
    <2>7. Compensated'
      <3>1. \A g \in Handlers : pc[g] \in {"commit", "revoke"} => pc'[g] = pc[g] /\ req'[g] = req[g]
        BY <1>1, <1>f
      <3> QED
        BY <1>1, <3>1 DEF Inv, Compensated, Open
    <2>8. \A z \in Sessions : SessionInv(z)'
      BY <1>1 DEF Inv, SessionInv, Open
    <2>9. ASSUME NEW g \in Handlers
          PROVE  WellPlaced(g)' /\ Undelivered(g)' /\ Pending(g)' /\ Backed(g)'
      <3>1. CASE g = h
        BY <1>f, <1>n, <3>1 DEF WellPlaced, Undelivered, Pending, Backed
      <3>2. CASE g # h
        <4>1. /\ WellPlaced(g) /\ Undelivered(g) /\ Pending(g) /\ Backed(g)
              /\ pc'[g] = pc[g] /\ req'[g] = req[g]
          BY <1>f, <3>2 DEF Inv
        <4>2. WellPlaced(g)' /\ Pending(g)' /\ Backed(g)'
          BY <1>1, <4>1 DEF WellPlaced, Pending, Backed, Open
        <4>3. Undelivered(g)'
          <5> SUFFICES ASSUME req[g].n > 0 PROVE Undelivered(g)'
            BY <4>1 DEF Undelivered
          <5>1. \A d \in Devices :
                  cookie'[d] # None /\ cookie'[d].session = req[g].session =>
                    cookie'[d].n # req[g].n
            <6>1. s = req[g].session => req[h].n # req[g].n
              BY <3>2, <4>1 DEF Undelivered
            <6> QED
              BY <2>1, <2>2, <4>1, <6>1 DEF Undelivered
          <5>2. \A f \in Handlers : req'[f].session = req[g].session =>
                  req'[f].token # req[g].n /\ (f # g => req'[f].n # req[g].n)
            BY <1>f, <1>n, <4>1 DEF Undelivered
          <5> QED
            BY <1>1, <4>1, <5>1, <5>2 DEF Undelivered, Open
        <4> QED
          BY <4>1, <4>2, <4>3
      <3> QED
        BY <3>1, <3>2
    <2> QED
      BY <2>3, <2>4, <2>5, <2>6, <2>7, <2>8, <2>9 DEF Inv
  <1> QED
    BY <1>2, <1>3 DEF Answer

-----------------------------------------------------------------------------
(* The invariant, and what the runs check of it. *)

(* A request begins with nothing, or with the cookie of its device.        *)
LEMMA BeginsKeep ==
  ASSUME Inv, NEW h \in Handlers, NEW d \in Devices,
         \/ \E u \in Users : BeginRegister(h, d, u) \/ BeginLogin(h, d, u) \/ BeginUpdate(h, d, u)
         \/ BeginRefresh(h, d) \/ BeginLogout(h, d)
  PROVE  Inv'
  <1>1. /\ TypeOK /\ NoRequest \in Request /\ NoRequest.n = 0 /\ NoRequest.token = 0
    BY SessionsAssumption DEF Inv, NoRequest, Request
  <1>2. ASSUME NEW u \in Users, BeginRegister(h, d, u) PROVE Inv'
    <2>1. PICK p \in Profiles :
            Begin(h, "insert", [NoRequest EXCEPT !.kind = "register", !.device = d,
                                                 !.user = u, !.profile = p])
      BY <1>2 DEF BeginRegister
    <2> DEFINE r == [NoRequest EXCEPT !.kind = "register", !.device = d, !.user = u, !.profile = p]
    <2>2. /\ r \in Request /\ r.kind = "register" /\ r.user = u /\ r.profile = p
          /\ r.n = 0 /\ r.token = 0
      BY <1>1 DEF Request
    <2> HIDE DEF r
    <2> QED
      BY <2>1, <2>2, BeginKeeps DEF r
  <1>3. ASSUME NEW u \in Users, BeginLogin(h, d, u) PROVE Inv'
    <2> DEFINE r == [NoRequest EXCEPT !.kind = "login", !.device = d, !.user = u]
    <2>1. Begin(h, "read", r)
      BY <1>3 DEF BeginLogin
    <2>2. r \in Request /\ r.kind = "login" /\ r.user = u /\ r.n = 0 /\ r.token = 0
      BY <1>1 DEF Request
    <2> HIDE DEF r
    <2> QED
      BY <2>1, <2>2, BeginKeeps
  <1>4. ASSUME NEW u \in Users, BeginUpdate(h, d, u) PROVE Inv'
    <2> DEFINE w == WithCookie("update", d)
               r == [WithCookie("update", d) EXCEPT !.user = u]
    <2>1. cookie[d] # None /\ Begin(h, "lock", r)
      BY <1>4 DEF BeginUpdate, CanRotate
    <2>2. /\ w \in Request /\ w.kind = "update" /\ w.n = 0 /\ w.session = cookie[d].session
          /\ w.token = cookie[d].n /\ cookie[d].session \in Sessions /\ cookie[d].n \in 1..MaxTokens
      BY <1>1, <2>1, WithCookieType
    <2>3. /\ r \in Request /\ r.kind = "update" /\ r.user = u /\ r.n = 0
          /\ r.session = cookie[d].session /\ r.token = cookie[d].n /\ r.token > 0
          /\ r.session \in Sessions /\ r.session # None
      BY <2>2, SessionsAssumption DEF Request
    <2> HIDE DEF r
    <2> QED
      BY <2>1, <2>3, BeginKeeps
  <1>5. ASSUME NEW kind \in {"refresh", "logout"}, cookie[d] # None,
               Begin(h, IF kind = "refresh" THEN "rotate" ELSE "revoke", WithCookie(kind, d))
        PROVE  Inv'
    <2> DEFINE w == WithCookie(kind, d)
    <2>1. /\ w \in Request /\ w.kind = kind /\ w.n = 0 /\ w.session = cookie[d].session
          /\ w.token = cookie[d].n /\ w.token > 0 /\ w.session \in Sessions /\ w.session # None
      BY <1>1, <1>5, WithCookieType, SessionsAssumption
    <2> HIDE DEF w
    <2>2. CASE kind = "refresh"
      BY <1>5, <2>1, <2>2, BeginKeeps DEF w
    <2>3. CASE kind = "logout"
      BY <1>5, <2>1, <2>3, BeginKeeps DEF w
    <2> QED
      BY <2>2, <2>3
  <1> QED
    BY <1>2, <1>3, <1>4, <1>5 DEF BeginRefresh, BeginLogout, CanRotate

(* Every step keeps the invariant.                                         *)
LEMMA NextInv == Inv /\ [Next]_vars => Inv'
  <1> SUFFICES ASSUME Inv, [Next]_vars PROVE Inv'
    OBVIOUS
  <1>1. ASSUME NEW h \in Handlers, NEW d \in Devices,
               \/ \E u \in Users : BeginRegister(h, d, u) \/ BeginLogin(h, d, u) \/ BeginUpdate(h, d, u)
               \/ BeginRefresh(h, d) \/ BeginLogout(h, d)
        PROVE  Inv'
    BY <1>1, BeginsKeep
  <1>2. ASSUME NEW h \in Handlers, Step(h) PROVE Inv'
    BY <1>2, StatementsKeep, IssueKeeps, RotateKeeps, CommitKeeps, RevokeKeeps, AnswerKeeps,
       ClearCookiesKeeps DEF Step
  <1>3. ASSUME NEW h \in Handlers, Fails(h) \/ Lost(h) PROVE Inv'
    BY <1>3, LossesKeep
  <1>4. ASSUME NEW s \in Sessions, Expire(s) PROVE Inv'
    BY <1>4, ExpireKeeps
  <1>5. CASE UNCHANGED vars
    <2>1. UNCHANGED <<row, rowLock, session, issued, cookie, told, pc, req, past, uses, broken>>
      BY <1>5 DEF vars, store, redis, browser, history
    <2> QED
      BY <2>1 DEF Inv, TypeOK, RowsInPast, Generated, CookieIsBacked, Compensated, SessionInv,
         WellPlaced, Undelivered, Pending, Backed, Open
  <1> QED
    BY <1>1, <1>2, <1>3, <1>4, <1>5 DEF Next

(* The invariant holds in every reachable state: it is the argument of the *)
(* theorems below.                                                         *)
THEOREM SessionsInvariant == Spec => []Inv
  BY InitInv, NextInv, PTL DEF Spec

(* The rows, the session hashes, the cookies and the requests have the     *)
(* shapes the tables and the scripts give them.                            *)
THEOREM SessionsTyped == Spec => []TypeOK
  <1>1. Inv => TypeOK
    BY DEF Inv
  <1> QED
    BY <1>1, SessionsInvariant, PTL

(* auth.RotateSession: of any number of requests that carry one refresh    *)
(* token, at the same time or one after the other, at most one is given a  *)
(* new token.                                                              *)
THEOREM OneRotationPerToken == Spec => []TokenUsedOnce
  <1>1. Inv => TokenUsedOnce
    BY DEF Inv, SessionInv, TokenUsedOnce
  <1> QED
    BY <1>1, SessionsInvariant, PTL

(* auth.UpdateCurrentUser: a device with a good cookie has been told the   *)
(* profile of its session, and PostgreSQL has held it for that user.       *)
THEOREM CookiesAreBacked == Spec => []CookieIsBacked
  <1>1. Inv => CookieIsBacked
    BY DEF Inv
  <1> QED
    BY <1>1, SessionsInvariant, PTL

(* auth.Register and auth.UpdateCurrentUser: unless a call to Redis failed *)
(* or a process died, a session that shows a profile that is not committed *)
(* belongs to a request that is still to commit it or to revoke it.        *)
THEOREM FailuresAreCompensated == Spec => []Compensated
  <1>1. Inv => Compensated
    BY DEF Inv
  <1> QED
    BY <1>1, SessionsInvariant, PTL

(* The scripts of pkg/cache/redis.go ask whether the key exists: a session *)
(* that has ended stays as it is, whatever is still under way.             *)
THEOREM SessionsEndOnce == Spec => EndIsFinal
  <1>1. ASSUME Inv, [Next]_vars, NEW s \in Sessions, issued[s] > 0, ~Open(s)
        PROVE  session'[s] = session[s]
    <2>1. TypeOK /\ session[s] = NoHash /\ issued[s] # 0
      BY <1>1 DEF Inv, SessionInv, TypeOK
    <2>2. ASSUME NEW h \in Handlers, IssueSession(h) PROVE session'[s] = session[s]
      BY <2>1, <2>2 DEF IssueSession, TypeOK
    <2>3. ASSUME NEW h \in Handlers, RotateSession(h) PROVE session'[s] = session[s]
      <3>1. CASE req[h].session = s
        <4>1. session' = [session EXCEPT ![s] = NoHash]
          BY <1>1, <2>3, <3>1 DEF RotateSession, Refused
        <4> QED
          BY <2>1, <4>1 DEF TypeOK
      <3>2. CASE req[h].session # s
        BY <2>1, <2>3, <3>2 DEF RotateSession, Refused, Replaced, TypeOK
      <3> QED
        BY <3>1, <3>2
    <2>4. ASSUME NEW h \in Handlers, Revoke(h) PROVE session'[s] = session[s]
      BY <2>1, <2>4 DEF Revoke, TypeOK
    <2>5. ASSUME NEW z \in Sessions, Expire(z) PROVE session'[s] = session[s]
      BY <2>1, <2>5 DEF Expire, TypeOK
    <2>6. \/ session' = session
          \/ \E h \in Handlers : IssueSession(h) \/ RotateSession(h) \/ Revoke(h)
          \/ \E z \in Sessions : Expire(z)
      BY <1>1 DEF Next, Step, Fails, Lost, Begin, BeginRegister, BeginLogin, BeginUpdate,
         BeginRefresh, BeginLogout, InsertUser, ReadUser, LockUser, Commit, Answer,
         ClearCookies, vars, redis
    <2> QED
      BY <2>2, <2>3, <2>4, <2>5, <2>6
  <1>2. Inv /\ [Next]_vars =>
          [\A s \in Sessions : issued[s] > 0 /\ ~Open(s) => session'[s] = session[s]]_vars
    BY <1>1
  <1> QED
    BY <1>2, SessionsInvariant, PTL DEF Spec, EndIsFinal
=============================================================================
