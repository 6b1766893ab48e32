--------------------------- MODULE RefreshSessions ---------------------------
(***************************************************************************)
(* Accounts and refresh sessions: internal/logic/auth/service.go over the  *)
(* users table in PostgreSQL and the session hashes in Redis               *)
(* (pkg/cache/redis.go), with the cookies of the devices that call it.     *)
(*                                                                         *)
(* Register and UpdateCurrentUser write a session to Redis inside a        *)
(* transaction of PostgreSQL.  Nothing makes the two atomic: a failed      *)
(* COMMIT is compensated by revoking the session, a failed call to Redis   *)
(* by rolling back.  A call to Redis is a script or a MULTI and runs       *)
(* atomically; its reply may be lost after it ran.  A response may be lost *)
(* too, and the responses to one device may arrive in any order.           *)
(*                                                                         *)
(* A refresh token is a session and a number: the n-th token generated for *)
(* it (in the code 32 random bytes, of which Redis keeps a hash).  A row   *)
(* of users is its profile (nickname and avatar).  Access tokens are not   *)
(* stored anywhere and are left out, as are passwords and rate limits.     *)
(***************************************************************************)
EXTENDS Naturals, FiniteSets

CONSTANTS
  Users,          \* e-mail addresses, unique in users
  Profiles,       \* what a profile can say
  Devices,        \* browsers
  Sessions,       \* identifiers of sessions (bound on logins)
  Handlers,       \* concurrent requests
  MaxTokens,      \* bound: tokens generated for a session
  None

ASSUME SessionsAssumption ==
  /\ MaxTokens \in Nat \ {0}
  /\ None \notin Users \cup Profiles \cup Devices \cup Sessions \cup Handlers

VARIABLES
  row,            \* row[u]: committed profile of u in users, or None
  rowLock,        \* rowLock[u]: the transaction that inserts or locks the row
  session,        \* session[s]: the hash in Redis
  issued,         \* issued[s]: tokens generated for s so far
  cookie,         \* cookie[d]: the refresh token d would send
  told,           \* told[d]: the profile in the last response d took
  pc, req,        \* the handlers and the requests they serve
  past,           \* history: past[u], every profile u has had in users
  uses,           \* history: uses[s][n], rotations that token n of s paid for
  broken          \* history: a call to Redis has failed or a handler died

store   == <<row, rowLock>>
redis   == <<session, issued>>
browser == <<cookie, told>>
history == <<past, uses, broken>>
vars    == <<store, redis, browser, pc, req, history>>

Token == [session : Sessions, n : 1..MaxTokens]

\* user = None: no such key.
Hash == [user : Users \cup {None}, profile : Profiles \cup {None}, n : 0..MaxTokens]
NoHash == [user |-> None, profile |-> None, n |-> 0]

\* token: what the cookie said; n: the number of the token to hand out.
Request ==
  [kind : {"none", "register", "login", "refresh", "logout", "update"},
   device : Devices \cup {None}, user : Users \cup {None},
   session : Sessions \cup {None}, token : 0..MaxTokens, n : 0..MaxTokens,
   profile : Profiles \cup {None}]

NoRequest ==
  [kind |-> "none", device |-> None, user |-> None, session |-> None,
   token |-> 0, n |-> 0, profile |-> None]

TypeOK ==
  /\ row \in [Users -> Profiles \cup {None}]
  /\ rowLock \in [Users -> Handlers \cup {None}]
  /\ session \in [Sessions -> Hash]
  /\ issued \in [Sessions -> 0..MaxTokens]
  /\ cookie \in [Devices -> Token \cup {None}]
  /\ told \in [Devices -> Profiles \cup {None}]
  /\ pc \in [Handlers -> {"idle", "insert", "read", "lock", "issue", "rotate",
                          "commit", "revoke", "answer", "clear"}]
  /\ req \in [Handlers -> Request]
  /\ past \in [Users -> SUBSET Profiles]
  /\ uses \in [Sessions -> [1..MaxTokens -> Nat]]
  /\ broken \in BOOLEAN

Init ==
  /\ row = [u \in Users |-> None] /\ rowLock = [u \in Users |-> None]
  /\ session = [s \in Sessions |-> NoHash] /\ issued = [s \in Sessions |-> 0]
  /\ cookie = [d \in Devices |-> None] /\ told = [d \in Devices |-> None]
  /\ pc = [h \in Handlers |-> "idle"] /\ req = [h \in Handlers |-> NoRequest]
  /\ past = [u \in Users |-> {}]
  /\ uses = [s \in Sessions |-> [n \in 1..MaxTokens |-> 0]]
  /\ broken = FALSE

Open(s) == session[s].user # None

-----------------------------------------------------------------------------
(* How a request goes on. *)

Goto(h, label) == pc' = [pc EXCEPT ![h] = label]

Unlocked(h) == [u \in Users |-> IF rowLock[u] = h THEN None ELSE rowLock[u]]

\* The request is over; a transaction that is still open is rolled back.
Finish(h) ==
  /\ Goto(h, "idle")
  /\ req' = [req EXCEPT ![h] = NoRequest]
  /\ rowLock' = Unlocked(h)

\* PostgreSQL, bcrypt, the token generator or a validation reports an error
\* before anything was written to Redis.
Fails(h) ==
  /\ pc[h] \in {"insert", "read", "lock", "issue"}
  /\ Finish(h)
  /\ UNCHANGED <<row, redis, browser, history>>

\* The process dies, the client goes away and its context is cancelled, or a
\* call does not reach Redis.
Lost(h) ==
  /\ pc[h] # "idle"
  /\ Finish(h)
  /\ broken' = TRUE
  /\ UNCHANGED <<row, redis, browser, past, uses>>

-----------------------------------------------------------------------------
(* Requests. *)

Begin(h, label, r) ==
  /\ pc[h] = "idle"
  /\ Goto(h, label)
  /\ req' = [req EXCEPT ![h] = r]
  /\ UNCHANGED <<store, redis, browser, history>>

BeginRegister(h, d, u) ==
  \E p \in Profiles :
    Begin(h, "insert", [NoRequest EXCEPT !.kind = "register", !.device = d,
                                         !.user = u, !.profile = p])

BeginLogin(h, d, u) ==
  Begin(h, "read", [NoRequest EXCEPT !.kind = "login", !.device = d, !.user = u])

\* A request with the refresh cookie of d.
WithCookie(kind, d) ==
  [NoRequest EXCEPT !.kind = kind, !.device = d,
                    !.session = cookie[d].session, !.token = cookie[d].n]

\* Bound: no token is generated beyond MaxTokens.
CanRotate(d) == cookie[d] # None /\ cookie[d].n < MaxTokens

BeginRefresh(h, d) == CanRotate(d) /\ Begin(h, "rotate", WithCookie("refresh", d))

BeginLogout(h, d) == cookie[d] # None /\ Begin(h, "revoke", WithCookie("logout", d))

\* u is the user of the access cookie; the handler takes it as it is.
BeginUpdate(h, d, u) ==
  /\ CanRotate(d) /\ row[u] # None
  /\ Begin(h, "lock", [WithCookie("update", d) EXCEPT !.user = u])

-----------------------------------------------------------------------------
(* PostgreSQL. *)

\* Register: a second insert of an address waits for the first to end.
InsertUser(h) ==
  /\ pc[h] = "insert" /\ rowLock[req[h].user] = None
  /\ IF row[req[h].user] = None
       THEN /\ rowLock' = [rowLock EXCEPT ![req[h].user] = h]
            /\ Goto(h, "issue")
            /\ UNCHANGED req
       ELSE Finish(h)
  /\ UNCHANGED <<row, redis, browser, history>>

\* Login reads without a lock.
ReadUser(h) ==
  /\ pc[h] = "read"
  /\ IF row[req[h].user] # None
       THEN /\ req' = [req EXCEPT ![h].profile = row[req[h].user]]
            /\ Goto(h, "issue")
            /\ UNCHANGED rowLock
       ELSE Finish(h)
  /\ UNCHANGED <<row, redis, browser, history>>

\* UpdateCurrentUser: SELECT ... FOR UPDATE, then the UPDATE of the row.
LockUser(h) ==
  /\ pc[h] = "lock" /\ rowLock[req[h].user] = None
  /\ rowLock' = [rowLock EXCEPT ![req[h].user] = h]
  /\ \E p \in Profiles : req' = [req EXCEPT ![h].profile = p]
  /\ Goto(h, "rotate")
  /\ UNCHANGED <<row, redis, browser, history>>

Stored(h) ==
  /\ row' = [row EXCEPT ![req[h].user] = req[h].profile]
  /\ past' = [past EXCEPT ![req[h].user] = @ \cup {req[h].profile}]

\* Mutant: a COMMIT that fails is not compensated.
CommitUncompensated(h) ==
  /\ pc[h] = "commit"
  /\ \/ Stored(h) /\ Goto(h, "answer")
     \/ UNCHANGED <<row, past>> /\ Goto(h, "idle")
  /\ rowLock' = Unlocked(h)
  /\ UNCHANGED <<redis, browser, req, uses, broken>>

\* An error of COMMIT leaves open whether it took place.  An update may also
\* fail to sign the access token once it has committed.
Commit(h) ==
  /\ pc[h] = "commit"
  /\ \/ Stored(h) /\ Goto(h, "answer")
     \/ Stored(h) /\ Goto(h, "revoke")
     \/ UNCHANGED <<row, past>> /\ Goto(h, "revoke")
  /\ rowLock' = Unlocked(h)
  /\ UNCHANGED <<redis, browser, req, uses, broken>>

-----------------------------------------------------------------------------
(* Redis.  Each call is one script; with reply = FALSE the call has run but *)
(* its caller sees an error.                                                *)

Opened(h) ==
  [user |-> req[h].user, profile |-> req[h].profile, n |-> 1]

IssueSession(h) ==
  /\ pc[h] = "issue"
  /\ \E s \in Sessions, reply \in BOOLEAN :
       /\ issued[s] = 0
       /\ issued' = [issued EXCEPT ![s] = 1]
       /\ session' = [session EXCEPT ![s] = Opened(h)]
       /\ IF reply
            THEN /\ req' = [req EXCEPT ![h].session = s, ![h].n = 1]
                 /\ Goto(h, IF req[h].kind = "register" THEN "commit" ELSE "answer")
                 /\ UNCHANGED <<rowLock, broken>>
            ELSE Finish(h) /\ broken' = TRUE
  /\ UNCHANGED <<row, browser, past, uses>>

Presented(h) == session[req[h].session]

\* A token that is not the current one ends the session; so does expiry, see
\* Expire.  UpdateCurrentUser must also come from the user of the session.
Matches(h) == Presented(h).n = req[h].token

Owns(h) == req[h].kind = "update" => Presented(h).user = req[h].user

\* Mutant: the script leaves token_hash as it is.
RotatedSameToken(h) ==
  [Presented(h) EXCEPT !.profile = IF req[h].kind = "update" THEN req[h].profile ELSE @]

\* Mutant: the script for profiles leaves token_hash as it is.
RotatedProfileOnly(h) ==
  IF req[h].kind = "update"
    THEN [Presented(h) EXCEPT !.profile = req[h].profile]
    ELSE [Presented(h) EXCEPT !.n = issued[req[h].session] + 1]

Rotated(h) ==
  IF req[h].kind = "update"
    THEN [Presented(h) EXCEPT !.n = issued[req[h].session] + 1, !.profile = req[h].profile]
    ELSE [Presented(h) EXCEPT !.n = issued[req[h].session] + 1]

\* The script has run with success: hash is what it stores.
Replaced(h, hash) ==
  LET s == req[h].session
  IN
  /\ session' = [session EXCEPT ![s] = hash]
  /\ issued' = [issued EXCEPT ![s] = @ + 1]
  /\ uses' = [uses EXCEPT ![s][req[h].token] = @ + 1]
  /\ \/ /\ req' = [req EXCEPT ![h].n = hash.n, ![h].profile = hash.profile]
        /\ Goto(h, IF req[h].kind = "update" THEN "commit" ELSE "answer")
        /\ UNCHANGED <<rowLock, broken>>
     \/ Finish(h) /\ broken' = TRUE

\* The script has refused: the session is left as it is, or deleted.
Refused(h, hash) ==
  /\ session' = [session EXCEPT ![req[h].session] = hash]
  /\ Finish(h)
  /\ UNCHANGED <<issued, uses, broken>>

\* Mutant: the scripts do not ask whether the key exists, and a missing hash
\* is no mismatch.
RotateSessionNoExists(h) ==
  /\ pc[h] = "rotate"
  /\ IF Presented(h).n \notin {0, req[h].token} THEN Refused(h, NoHash)
     ELSE /\ issued[req[h].session] < MaxTokens
          /\ Replaced(h, Rotated(h))
  /\ UNCHANGED <<row, browser, past>>

RotateSession(h) ==
  /\ pc[h] = "rotate"
  /\ IF ~Open(req[h].session) \/ ~Matches(h) THEN Refused(h, NoHash)
     ELSE IF ~Owns(h) THEN Refused(h, Presented(h))
     ELSE /\ issued[req[h].session] < MaxTokens
          /\ Replaced(h, Rotated(h))
  /\ UNCHANGED <<row, browser, past>>

\* Any token of a session ends it: DEL comes before the comparison.  Logout
\* goes on to clear the cookies whatever Redis says.
Revoke(h) ==
  /\ pc[h] = "revoke"
  /\ \E run, reply \in BOOLEAN :
       /\ session' = IF run THEN [session EXCEPT ![req[h].session] = NoHash] ELSE session
       /\ broken' = (broken \/ ~run \/ ~reply)
  /\ IF req[h].kind = "logout"
       THEN Goto(h, "clear") /\ UNCHANGED <<req, rowLock>>
       ELSE Finish(h)
  /\ UNCHANGED <<row, issued, browser, past, uses>>

\* The key reaches its expiry time, which rotation leaves as it was, or Redis
\* loses it.
Expire(s) ==
  /\ Open(s)
  /\ session' = [session EXCEPT ![s] = NoHash]
  /\ UNCHANGED <<store, issued, browser, pc, req, history>>

-----------------------------------------------------------------------------
(* Responses.  Errors leave the cookies alone, except for Logout. *)

Answer(h) ==
  /\ pc[h] = "answer"
  /\ \/ /\ cookie' = [cookie EXCEPT ![req[h].device] =
                        [session |-> req[h].session, n |-> req[h].n]]
        /\ told' = [told EXCEPT ![req[h].device] = req[h].profile]
     \/ UNCHANGED browser
  /\ Finish(h)
  /\ UNCHANGED <<row, redis, history>>

ClearCookies(h) ==
  /\ pc[h] = "clear"
  /\ \/ /\ cookie' = [cookie EXCEPT ![req[h].device] = None]
        /\ told' = [told EXCEPT ![req[h].device] = None]
     \/ UNCHANGED browser
  /\ Finish(h)
  /\ UNCHANGED <<row, redis, history>>

-----------------------------------------------------------------------------
Step(h) ==
  \/ InsertUser(h) \/ ReadUser(h) \/ LockUser(h) \/ IssueSession(h)
  \/ RotateSession(h) \/ Commit(h) \/ Revoke(h) \/ Answer(h) \/ ClearCookies(h)

Next ==
  \/ \E h \in Handlers, d \in Devices :
       \/ \E u \in Users :
            BeginRegister(h, d, u) \/ BeginLogin(h, d, u) \/ BeginUpdate(h, d, u)
       \/ BeginRefresh(h, d) \/ BeginLogout(h, d)
  \/ \E h \in Handlers : Step(h) \/ Fails(h) \/ Lost(h)
  \/ \E s \in Sessions : Expire(s)

Spec == Init /\ [][Next]_vars

-----------------------------------------------------------------------------
(* A refresh token pays for one rotation, also when two requests carry it  *)
(* at the same time or a lost response makes the client send it again.     *)
TokenUsedOnce == \A s \in Sessions : \A n \in 1..MaxTokens : uses[s][n] <= 1

(* A device whose cookie is good sees what the session says: the profile   *)
(* of its last response, which users has held for the owner of the         *)
(* session.  What a transaction wrote and rolled back reaches no device.   *)
CookieIsBacked ==
  \A d \in Devices :
    LET s == cookie[d].session
    IN
    cookie[d] # None /\ Open(s) /\ session[s].n = cookie[d].n =>
      /\ told[d] = session[s].profile
      /\ told[d] \in past[session[s].user]

(* As long as every call to Redis is answered, a transaction that fails    *)
(* leaves no session behind: each session shows a committed profile of its *)
(* user, or belongs to a request that will commit it or revoke it.         *)
Compensated ==
  ~broken =>
    \A s \in Sessions :
      Open(s) =>
        \/ session[s].profile \in past[session[s].user]
        \/ \E h \in Handlers :
             req[h].session = s /\ pc[h] \in {"commit", "revoke"}

(* A session ends once: no rotation under way brings back what a logout,   *)
(* a replayed token or the expiry has deleted.                             *)
EndIsFinal ==
  [][\A s \in Sessions : issued[s] > 0 /\ ~Open(s) => session'[s] = session[s]]_vars
=============================================================================
