------------------------------ MODULE RateWindow ------------------------------
(***************************************************************************)
(* The limits on registration and login (pkg/cache/auth_rate_limiter.go):  *)
(* calls that run the script of RateScript on one key.                     *)
(*                                                                         *)
(* A caller reads its own clock and then runs the script; scripts of       *)
(* callers that were delayed, or whose clocks differ, run in another order *)
(* than their times.  The PEXPIRE of the key removes a set whose members   *)
(* the next call would remove anyway, and has no step here.                *)
(***************************************************************************)
EXTENDS RateScript

VARIABLES
  now,
  counted,        \* the sorted set: [member, score]
  stamp,          \* stamp[c]: the time c has read, -1 before
  answer          \* answer[c]: "none", "allowed" or "limited", as Redis decided

vars == <<now, counted, stamp, answer>>

TypeOK ==
  /\ now \in 0..MaxTime
  /\ counted \subseteq [member : Calls, score : 0..MaxTime]
  /\ stamp \in [Calls -> -1..MaxTime]
  /\ answer \in [Calls -> {"none", "allowed", "limited"}]

Init ==
  /\ now = 0 /\ counted = {}
  /\ stamp = [c \in Calls |-> -1] /\ answer = [c \in Calls |-> "none"]

-----------------------------------------------------------------------------
Tick ==
  /\ now < MaxTime
  /\ \A c \in Calls : stamp[c] >= 0 /\ answer[c] = "none" => now < stamp[c] + MaxDelay
  /\ now' = now + 1
  /\ UNCHANGED <<counted, stamp, answer>>

ReadClock(c) ==
  /\ stamp[c] = -1
  /\ stamp' = [stamp EXCEPT ![c] = now]
  /\ UNCHANGED <<now, counted, answer>>

\* The member is random, so every call has its own.
Allow(c) ==
  LET kept == Kept(counted, stamp[c])
  IN
  /\ stamp[c] >= 0 /\ answer[c] = "none"
  /\ IF Full(kept)
       THEN counted' = kept /\ answer' = [answer EXCEPT ![c] = "limited"]
       ELSE counted' = Add(kept, c, stamp[c]) /\ answer' = [answer EXCEPT ![c] = "allowed"]
  /\ UNCHANGED <<now, stamp>>

Next == Tick \/ \E c \in Calls : ReadClock(c) \/ Allow(c)

Spec == Init /\ [][Next]_vars

-----------------------------------------------------------------------------
Allowed(from, to) ==
  {c \in Calls : answer[c] = "allowed" /\ stamp[c] > from /\ stamp[c] <= to}

(* No period of the configured length, less the delay of a call, sees more *)
(* requests allowed than the limit, in whatever order the scripts ran.     *)
LimitHolds ==
  \A t \in 0..MaxTime : Cardinality(Allowed(t - (Window - MaxDelay), t)) <= Limit
=============================================================================
