------------------------------ MODULE ChatGuard ------------------------------
(***************************************************************************)
(* The guard before the AI chat of one user: a script of Redis             *)
(* (pkg/cache/ai_chat_guard.go) that counts requests in a sliding window   *)
(* and takes a lock with a time to live, and the life of the request that  *)
(* holds it (internal/logic/aichat/service.go), which ChatStream shows in  *)
(* detail: it runs until its timeout at the latest and then releases the   *)
(* lock, if it can.  Member of the window and owner of the lock is the     *)
(* request identifier that the client sends.                               *)
(***************************************************************************)
EXTENDS RateScript

CONSTANTS
  IdOf,           \* IdOf[c]: the X-Request-ID of call c
  LockTTL,        \* chatLockTTL, 100 seconds in the code
  Timeout,        \* ChatRequestTimeout, 90 seconds unless configured
  MaxRelease,     \* the time release may take, 2 seconds in the code
  None

ASSUME ChatGuardAssumption ==
  /\ LockTTL \in Nat \ {0} /\ Timeout \in Nat \ {0} /\ MaxRelease \in Nat
  /\ Calls \subseteq DOMAIN IdOf
  /\ None \notin [owner : {IdOf[c] : c \in Calls}, until : Nat]

VARIABLES
  now, counted, stamp, answer,   \* as in RateWindow; answer is what Redis decided
  lock,           \* the lock of the user in Redis: [owner, until], or None
  phase,          \* phase[c]: "idle", "running", "releasing", "over"
  until           \* until[c]: when the phase ends at the latest

vars == <<now, counted, stamp, answer, lock, phase, until>>

\* The window of the guard is one of those RateWindow describes.
Rate == INSTANCE RateWindow WITH
  Limit <- Limit, Window <- Window, MaxDelay <- MaxDelay, Calls <- Calls,
  MaxTime <- MaxTime, now <- now, counted <- counted, stamp <- stamp, answer <- answer

RequestIds == {IdOf[c] : c \in Calls}

TypeOK ==
  /\ now \in 0..MaxTime
  /\ counted \subseteq [member : RequestIds, score : 0..MaxTime]
  /\ stamp \in [Calls -> -1..MaxTime]
  /\ answer \in [Calls -> {"none", "allowed", "limited"}]
  /\ lock \in [owner : RequestIds, until : Nat] \cup {None}
  /\ phase \in [Calls -> {"idle", "running", "releasing", "over"}]
  /\ until \in [Calls -> Nat]

Init ==
  /\ Rate!Init
  /\ lock = None
  /\ phase = [c \in Calls |-> "idle"] /\ until = [c \in Calls |-> 0]

Locked == lock # None /\ now < lock.until

-----------------------------------------------------------------------------
\* Time does not pass over a deadline somebody keeps.
Tick ==
  /\ now < MaxTime
  /\ \A c \in Calls :
       /\ stamp[c] >= 0 /\ answer[c] = "none" => now < stamp[c] + MaxDelay
       /\ phase[c] \in {"running", "releasing"} => now < until[c]
  /\ now' = now + 1
  /\ UNCHANGED <<counted, stamp, answer, lock, phase, until>>

ReadClock(c) == Rate!ReadClock(c) /\ UNCHANGED <<lock, phase, until>>

\* The script refuses before it looks at the window while there is a lock.
Refuse(c) ==
  /\ stamp[c] >= 0 /\ answer[c] = "none"
  /\ \/ Locked /\ UNCHANGED counted
     \/ /\ ~Locked /\ Full(Kept(counted, stamp[c]))
        /\ counted' = Kept(counted, stamp[c])
  /\ answer' = [answer EXCEPT ![c] = "limited"]
  /\ phase' = [phase EXCEPT ![c] = "over"]
  /\ UNCHANGED <<now, stamp, lock, until>>

\* Mutant: the script does not look at the lock.
AcquireLocked(c) ==
  LET kept == Kept(counted, stamp[c])
  IN
  /\ stamp[c] >= 0 /\ answer[c] = "none"
  /\ ~Full(kept)
  /\ counted' = Add(kept, IdOf[c], stamp[c])
  /\ answer' = [answer EXCEPT ![c] = "allowed"]
  /\ lock' = [owner |-> IdOf[c], until |-> now + LockTTL]
  /\ phase' = [phase EXCEPT ![c] = "running"]
  /\ until' = [until EXCEPT ![c] = now + MaxDelay + Timeout]
  /\ UNCHANGED <<now, stamp>>

\* When the reply is lost the call fails, but it has been counted and the lock
\* stays.  The stream begins up to MaxDelay after the script.
Acquire(c) ==
  LET kept == Kept(counted, stamp[c])
  IN
  /\ stamp[c] >= 0 /\ answer[c] = "none"
  /\ ~Locked /\ ~Full(kept)
  /\ counted' = Add(kept, IdOf[c], stamp[c])
  /\ answer' = [answer EXCEPT ![c] = "allowed"]
  /\ lock' = [owner |-> IdOf[c], until |-> now + LockTTL]
  /\ phase' \in {[phase EXCEPT ![c] = p] : p \in {"running", "over"}}
  /\ until' = [until EXCEPT ![c] = now + MaxDelay + Timeout]
  /\ UNCHANGED <<now, stamp>>

\* The answer is complete, has failed, or its context is done.
End(c) ==
  /\ phase[c] = "running"
  /\ phase' = [phase EXCEPT ![c] = "releasing"]
  /\ until' = [until EXCEPT ![c] = now + MaxRelease]
  /\ UNCHANGED <<now, counted, stamp, answer, lock>>

\* The script deletes the lock if the owner is still the same.
Release(c) ==
  /\ phase[c] = "releasing"
  /\ lock' = IF Locked /\ lock.owner = IdOf[c] THEN None ELSE lock
  /\ phase' = [phase EXCEPT ![c] = "over"]
  /\ UNCHANGED <<now, counted, stamp, answer, until>>

\* The release fails, or the process dies in any phase.
Die(c) ==
  /\ phase[c] \in {"running", "releasing"}
  /\ phase' = [phase EXCEPT ![c] = "over"]
  /\ UNCHANGED <<now, counted, stamp, answer, lock, until>>

Next ==
  \/ Tick
  \/ \E c \in Calls :
       ReadClock(c) \/ Refuse(c) \/ Acquire(c) \/ End(c) \/ Release(c) \/ Die(c)

Spec == Init /\ [][Next]_vars

-----------------------------------------------------------------------------
(* While an answer is generated the lock is its own: it has not expired,   *)
(* and neither a late release nor a retry has taken it away.  Holds when   *)
(* MaxDelay + Timeout < LockTTL and every request has its own identifier.  *)
RunningHoldsLock ==
  \A c \in Calls :
    phase[c] = "running" => Locked /\ lock.owner = IdOf[c]

(* docs/openapi.yaml:102: one generation at a time for a user.             *)
OneGeneration ==
  \A c, d \in Calls : phase[c] = "running" /\ phase[d] = "running" => c = d

(* docs/openapi.yaml:102: no more requests than the limit in a window.     *)
RequestsLimited == Rate!LimitHolds

(* The Retry-After of a refused request is exact, now and at any later     *)
(* time at which the window is as it is.                                   *)
RetryAfterIsExact == ExactRetryAfter(counted, now)
=============================================================================
