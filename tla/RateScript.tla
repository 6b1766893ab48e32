------------------------------ MODULE RateScript ------------------------------
(***************************************************************************)
(* The script of the sliding window in which Redis counts requests: the    *)
(* limits on registration and login (pkg/cache/auth_rate_limiter.go) and   *)
(* on the chat (pkg/cache/ai_chat_guard.go) run the same commands on a     *)
(* sorted set of members with the time of their request as score.          *)
(***************************************************************************)
EXTENDS Integers, FiniteSets, FiniteSetsExt

CONSTANTS
  Limit, Window,    \* requests per period
  MaxDelay,         \* how long before the script the clock was read, at most
  Calls,            \* identifiers of calls
  MaxTime           \* bound: the clock

ASSUME RateWindowAssumption ==
  /\ Limit \in Nat \ {0} /\ Window \in Nat \ {0}
  /\ MaxDelay \in Nat /\ MaxTime \in Nat

\* ZREMRANGEBYSCORE key -inf (t - Window)
Kept(set, t) == {e \in set : e.score > t - Window}

\* Mutant: one too many.
FullOffByOne(set) == Cardinality(set) > Limit

Full(set) == Cardinality(set) >= Limit

\* ZADD: a member that is in the set already only gets a new score.
Add(set, member, t) ==
  {e \in set : e.member # member} \cup {[member |-> member, score |-> t]}

Scores(set) == {e.score : e \in set}

\* Mutant: the last member of the set instead of the first.
RetryAfterLast(set, t) == Max({1, Max(Scores(set)) + Window - t})

RetryAfter(set, t) == Max({1, Min(Scores(set)) + Window - t})

(* Who is told to come back after some time and does, is allowed in if     *)
(* nobody came between, and would not have been before: Retry-After is     *)
(* neither too early nor too late.                                         *)
ExactRetryAfter(set, from) ==
  \A t \in from..MaxTime :
    LET kept == Kept(set, t)
        wait == RetryAfter(kept, t)
    IN
    Full(kept) =>
      /\ ~Full(Kept(kept, t + wait))
      /\ \A k \in 1..(wait - 1) : Full(Kept(kept, t + k))
=============================================================================
