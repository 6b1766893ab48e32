--------------------------- MODULE ChatGuardProofs ---------------------------
(***************************************************************************)
(* Theorems about ChatGuard, for any limit, window, delay, lifetime of the *)
(* lock and number of requests; about the limits on registration and login *)
(* (RateWindow), whose window is the instance Rate of the guard; and about *)
(* the answer itself (ChatStream), for any capacities of its channels, at  *)
(* which nobody blocks for ever; and about what of a conversation is sent  *)
(* (ChatHistory), for any lengths.                                         *)
(***************************************************************************)
EXTENDS ChatGuard, ChatStream, FiniteSetTheorems, WellFoundedInduction, TLAPS

\* Every request has its own X-Request-ID.
DistinctIds == \A c, d \in Calls : IdOf[c] = IdOf[d] => c = d

\* An answer ends before the lock that was taken for it expires.
ShortTimeout == MaxDelay + Timeout < LockTTL

\* While an answer is generated the lock is there for longer than it may take.
Held ==
  \A c \in Calls :
    phase[c] = "running" =>
      /\ lock # None /\ lock.owner = IdOf[c]
      /\ now <= until[c] /\ until[c] < lock.until

LockInv == TypeOK /\ Held

-----------------------------------------------------------------------------
(* The lock. *)

(* Nobody runs at the start.                                               *)
LEMMA InitLock == Init => LockInv
  BY ChatGuardAssumption, RateWindowAssumption DEF Init, Rate!Init, LockInv, TypeOK, Held

(* The set of the window stays typed under the script.                     *)
LEMMA ScriptType ==
  ASSUME TypeOK, NEW c \in Calls, stamp[c] >= 0
  PROVE  /\ Kept(counted, stamp[c]) \subseteq [member : RequestIds, score : 0..MaxTime]
         /\ Add(Kept(counted, stamp[c]), IdOf[c], stamp[c])
              \subseteq [member : RequestIds, score : 0..MaxTime]
  <1>1. stamp[c] \in 0..MaxTime /\ IdOf[c] \in RequestIds
    BY ChatGuardAssumption, RateWindowAssumption DEF TypeOK, RequestIds
  <1>2. Kept(counted, stamp[c]) \subseteq counted
    BY DEF Kept
  <1> QED
    BY <1>1, <1>2 DEF TypeOK, Add

(* Every step of a request or of the clock keeps the types.                *)
LEMMA NextType == TypeOK /\ [Next]_vars => TypeOK'
  <1> SUFFICES ASSUME TypeOK, [Next]_vars PROVE TypeOK'
    OBVIOUS
  <1> USE ChatGuardAssumption, RateWindowAssumption
  <1>1. CASE Tick
    BY <1>1 DEF Tick, TypeOK
  <1>2. ASSUME NEW c \in Calls, ReadClock(c) PROVE TypeOK'
    BY <1>2 DEF ReadClock, Rate!ReadClock, TypeOK
  <1>3. ASSUME NEW c \in Calls, Refuse(c) PROVE TypeOK'
    <2>1. counted' \subseteq [member : RequestIds, score : 0..MaxTime]
      BY <1>3, ScriptType DEF Refuse, TypeOK
    <2> QED
      BY <1>3, <2>1 DEF Refuse, TypeOK
  <1>4. ASSUME NEW c \in Calls, Acquire(c) PROVE TypeOK'
    <2>1. counted' \subseteq [member : RequestIds, score : 0..MaxTime]
      BY <1>4, ScriptType DEF Acquire
    <2>2. lock' \in [owner : RequestIds, until : Nat]
      BY <1>4 DEF Acquire, TypeOK, RequestIds
    <2>3. phase' \in [Calls -> {"idle", "running", "releasing", "over"}]
      BY <1>4 DEF Acquire, TypeOK
    <2> QED
      BY <1>4, <2>1, <2>2, <2>3 DEF Acquire, TypeOK
  <1>5. ASSUME NEW c \in Calls, End(c) \/ Release(c) \/ Die(c) PROVE TypeOK'
    BY <1>5 DEF End, Release, Die, TypeOK
  <1>6. CASE UNCHANGED vars
    BY <1>6 DEF vars, TypeOK
  <1> QED
    BY <1>1, <1>2, <1>3, <1>4, <1>5, <1>6 DEF Next

(* Whatever the clock, the script, the answer, its release or a crash do,  *)
(* the lock of a request that runs stays its own.                          *)
LEMMA NextLock ==
  ASSUME DistinctIds, ShortTimeout
  PROVE  LockInv /\ [Next]_vars => LockInv'
  <1> SUFFICES ASSUME LockInv, [Next]_vars PROVE Held'
    BY NextType DEF LockInv
  <1> USE ChatGuardAssumption, RateWindowAssumption DEF LockInv
  <1>1. CASE Tick
    BY <1>1 DEF Tick, TypeOK, Held
  <1>2. ASSUME NEW c \in Calls, ReadClock(c) \/ Refuse(c) PROVE Held'
    BY <1>2 DEF ReadClock, Refuse, Rate!ReadClock, TypeOK, Held
  <1>3. ASSUME NEW c \in Calls, Acquire(c) PROVE Held'
    <2>1. /\ lock' = [owner |-> IdOf[c], until |-> now + LockTTL]
          /\ lock' # None
      BY <1>3 DEF Acquire, TypeOK
    <2>2. until' = [until EXCEPT ![c] = now + MaxDelay + Timeout] /\ now' = now
      BY <1>3 DEF Acquire
    <2>3. ASSUME NEW d \in Calls, d # c PROVE phase'[d] # "running"
      BY <1>3, <2>3 DEF Acquire, Locked, Held, TypeOK
    <2>4. now \in Nat /\ until'[c] = now + MaxDelay + Timeout
      BY <2>2 DEF TypeOK
    <2> QED
      BY <2>1, <2>2, <2>3, <2>4 DEF Held, ShortTimeout
  <1>4. ASSUME NEW c \in Calls, Release(c) PROVE Held'
    <2>1. ASSUME NEW d \in Calls, phase'[d] = "running"
          PROVE  phase[d] = "running" /\ lock' = lock
      <3>1. d # c /\ phase[d] = "running"
        BY <1>4, <2>1 DEF Release, TypeOK
      <3>2. lock.owner # IdOf[c]
        BY <3>1 DEF Held, DistinctIds
      <3> QED
        BY <1>4, <3>1, <3>2 DEF Release
    <2> QED
      BY <1>4, <2>1 DEF Release, Held
  <1>5. ASSUME NEW c \in Calls, End(c) \/ Die(c) PROVE Held'
    BY <1>5 DEF End, Die, TypeOK, Held
  <1>6. CASE UNCHANGED vars
    BY <1>6 DEF vars, TypeOK, Held
  <1> QED
    BY <1>1, <1>2, <1>3, <1>4, <1>5, <1>6 DEF Next

(* Acquire and Release (ai_chat_guard.go) keep the lock for the request    *)
(* whose answer is generated, if its timeout is shorter than the lock.     *)
THEOREM LockIsHeld ==
  ASSUME DistinctIds, ShortTimeout
  PROVE  Spec => []RunningHoldsLock
  <1>1. LockInv => RunningHoldsLock
    BY DEF LockInv, Held, RunningHoldsLock, Locked, TypeOK
  <1> QED
    BY <1>1, InitLock, NextLock, PTL DEF Spec

(* docs/openapi.yaml:102 under the same conditions: one answer of a user   *)
(* is generated at a time.                                                 *)
THEOREM OneAtATime ==
  ASSUME DistinctIds, ShortTimeout
  PROVE  Spec => []OneGeneration
  <1>1. LockInv => OneGeneration
    BY DEF LockInv, Held, OneGeneration, DistinctIds
  <1> QED
    BY <1>1, InitLock, NextLock, PTL DEF Spec

-----------------------------------------------------------------------------
(* The window. *)

Entry(c) == [member |-> IdOf[c], score |-> stamp[c]]

\* A request that was allowed less than a window ago is still counted.
Remembered ==
  \A c \in Calls : answer[c] = "allowed" /\ stamp[c] > now - Window => Entry(c) \in counted

\* A request that has read the clock runs its script within MaxDelay.
Timely ==
  \A c \in Calls :
    /\ stamp[c] <= now
    /\ answer[c] # "none" => stamp[c] >= 0
    /\ stamp[c] >= 0 /\ answer[c] = "none" => now <= stamp[c] + MaxDelay

WindowInv ==
  TypeOK /\ IsFiniteSet(counted) /\ Timely /\ Remembered /\ RequestsLimited

(* ZCARD of RateWindow is the Cardinality of the library's theorems.       *)
LEMMA SameCardinality == \A S : Rate!Cardinality(S) = Cardinality(S)
  BY DEF Rate!Cardinality, Cardinality

(* ZCARD counts each of the requests that have an entry: no two share one. *)
LEMMA EntriesCount ==
  ASSUME DistinctIds, NEW set, IsFiniteSet(set), NEW A \in SUBSET Calls,
         \A c \in A : \E e \in set : e.member = IdOf[c]
  PROVE  IsFiniteSet(A) /\ Cardinality(A) <= Cardinality(set)
  <1> DEFINE E == {e \in set : \E c \in A : e.member = IdOf[c]}
             f == [e \in E |-> CHOOSE c \in A : e.member = IdOf[c]]
  <1>1. E \in SUBSET set
    OBVIOUS
  <1>2. IsFiniteSet(E) /\ Cardinality(E) <= Cardinality(set)
    BY <1>1, FS_Subset
  <1>3. ASSUME NEW c \in A, NEW e \in E, e.member = IdOf[c]
        PROVE  f[e] = c
    BY <1>3 DEF DistinctIds
  <1>4. \A e \in E : f[e] \in A
    OBVIOUS
  <1>5. f \in Surjection(E, A)
    <2>1. f \in [E -> A]
      BY <1>4
    <2>2. \A c \in A : \E e \in E : f[e] = c
      BY <1>3
    <2> QED
      BY <2>1, <2>2 DEF Surjection
  <1>6. IsFiniteSet(A) /\ Cardinality(A) <= Cardinality(E)
    BY <1>2, <1>5, FS_Surjection
  <1>7. Cardinality(A) \in Nat /\ Cardinality(E) \in Nat /\ Cardinality(set) \in Nat
    BY <1>2, <1>6, FS_CardinalityType
  <1> QED
    BY <1>2, <1>6, <1>7

(* One request more.                                                       *)
LEMMA OneMore ==
  ASSUME NEW A, IsFiniteSet(A), NEW x, NEW n \in Nat, Cardinality(A) < n
  PROVE  IsFiniteSet(A \cup {x}) /\ Cardinality(A \cup {x}) <= n
  <1>1. Cardinality(A) \in Nat
    BY FS_CardinalityType
  <1>2. CASE x \in A
    BY <1>1, <1>2, FS_AddElement
  <1>3. CASE x \notin A
    BY <1>1, <1>3, FS_AddElement
  <1> QED
    BY <1>2, <1>3

(* ZREMRANGEBYSCORE and ZADD leave a finite set of entries.                *)
LEMMA ScriptFinite ==
  ASSUME NEW set, IsFiniteSet(set), NEW t, NEW id
  PROVE  IsFiniteSet(Kept(set, t)) /\ IsFiniteSet(Add(set, id, t))
  <1>1. Kept(set, t) \in SUBSET set /\ {e \in set : e.member # id} \in SUBSET set
    BY DEF Kept
  <1>2. IsFiniteSet(Kept(set, t)) /\ IsFiniteSet({e \in set : e.member # id})
    BY <1>1, FS_Subset
  <1> QED
    BY <1>2, FS_AddElement DEF Add

(* A step that neither allows a request nor forgets one keeps the window.  *)
LEMMA SameAllowed ==
  ASSUME RequestsLimited, TypeOK, stamp' \in [Calls -> Int],
         \A c \in Calls : /\ answer'[c] = "allowed" <=> answer[c] = "allowed"
                          /\ answer[c] = "allowed" => stamp'[c] = stamp[c]
  PROVE  RequestsLimited'
  <1>1. \A a, b : Rate!Allowed(a, b)' = Rate!Allowed(a, b)
    BY DEF Rate!Allowed
  <1> QED
    BY <1>1 DEF RequestsLimited, Rate!LimitHolds

(* Nothing is counted before the first request.                            *)
LEMMA InitWindow == Init => WindowInv
  <1> SUFFICES ASSUME Init PROVE WindowInv
    OBVIOUS
  <1> USE ChatGuardAssumption, RateWindowAssumption DEF Init, Rate!Init
  <1>1. \A a, b : Rate!Allowed(a, b) = {}
    BY DEF Rate!Allowed
  <1>2. RequestsLimited
    BY <1>1, FS_EmptySet, SameCardinality DEF RequestsLimited, Rate!LimitHolds
  <1>3. TypeOK
    BY DEF TypeOK
  <1> QED
    BY <1>2, <1>3, FS_EmptySet DEF WindowInv, Timely, Remembered

(* A request that the script allows is the last that fits in each window.  *)
LEMMA AcquireLimit ==
  ASSUME DistinctIds, WindowInv, NEW c \in Calls, Acquire(c)
  PROVE  RequestsLimited'
  <1> USE ChatGuardAssumption, RateWindowAssumption DEF WindowInv, TypeOK
  <1> DEFINE kept == Kept(counted, stamp[c])
  <1>1. SUFFICES ASSUME NEW t \in 0..MaxTime
                 PROVE  Cardinality(Rate!Allowed(t - (Window - MaxDelay), t)') <= Limit
    BY SameCardinality DEF RequestsLimited, Rate!LimitHolds
  <1> DEFINE from == t - (Window - MaxDelay)
             A    == Rate!Allowed(from, t)
  <1>2. Cardinality(A) <= Limit
    BY SameCardinality DEF RequestsLimited, Rate!LimitHolds
  <1>3. CASE ~(stamp[c] > from /\ stamp[c] <= t)
    <2>1. Rate!Allowed(from, t)' = A
      BY <1>3 DEF Acquire, Rate!Allowed
    <2> QED
      BY <1>2, <2>1
  <1>4. CASE stamp[c] > from /\ stamp[c] <= t
    <2>1. Rate!Allowed(from, t)' = A \cup {c}
      BY <1>4 DEF Acquire, Rate!Allowed
    <2>2. ASSUME NEW d \in A PROVE \E e \in kept : e.member = IdOf[d]
      <3>1. /\ d \in Calls /\ answer[d] = "allowed"
            /\ stamp[d] > from
        BY <2>2 DEF Rate!Allowed
      <3>2. now <= stamp[c] + MaxDelay
        BY DEF Acquire, Timely
      <3>3. stamp[d] \in Int /\ stamp[c] \in Int /\ now \in Int
        BY <3>1
      <3>4. stamp[d] > now - Window /\ stamp[d] > stamp[c] - Window
        BY <1>4, <3>1, <3>2, <3>3
      <3>5. Entry(d) \in kept
        BY <3>1, <3>4 DEF Remembered, Entry, Kept
      <3> QED
        BY <3>5 DEF Entry
    <2>3. IsFiniteSet(kept)
      BY ScriptFinite
    <2>4. A \in SUBSET Calls
      BY DEF Rate!Allowed
    <2>5. IsFiniteSet(A) /\ Cardinality(A) <= Cardinality(kept)
      BY <2>2, <2>3, <2>4, EntriesCount
    <2>6. Cardinality(A) \in Nat /\ Cardinality(kept) \in Nat
      BY <2>3, <2>5, FS_CardinalityType
    <2>7. Cardinality(kept) < Limit
      BY <2>6, SameCardinality DEF Acquire, Full
    <2>8. Cardinality(A) < Limit
      BY <2>5, <2>6, <2>7
    <2>9. Cardinality(A \cup {c}) <= Limit
      BY <2>5, <2>8, OneMore
    <2> QED
      BY <2>1, <2>9
  <1> QED
    BY <1>3, <1>4

(* A script that runs for one request keeps the entries of the others as   *)
(* long as they count.                                                     *)
LEMMA ScriptRemembers ==
  ASSUME DistinctIds, TypeOK, Timely, Remembered, NEW c \in Calls, NEW d \in Calls,
         answer[d] = "allowed", stamp[d] > now - Window, d # c
  PROVE  /\ Entry(d) \in Kept(counted, stamp[c])
         /\ Entry(d) \in Add(Kept(counted, stamp[c]), IdOf[c], stamp[c])
  <1>1. Entry(d) \in counted /\ IdOf[d] # IdOf[c]
    BY DEF Remembered, DistinctIds
  <1>2. stamp[d] \in Int /\ stamp[c] \in Int /\ now \in Int /\ stamp[c] <= now
    BY DEF Timely, TypeOK
  <1>3. Entry(d) \in Kept(counted, stamp[c])
    BY <1>1, <1>2, ChatGuardAssumption, RateWindowAssumption DEF Kept, Entry
  <1> QED
    BY <1>1, <1>3 DEF Add, Entry

(* Every step keeps what the window knows of the requests.                 *)
LEMMA NextWindow ==
  ASSUME DistinctIds
  PROVE  WindowInv /\ [Next]_vars => WindowInv'
  <1> SUFFICES ASSUME WindowInv, [Next]_vars PROVE WindowInv'
    OBVIOUS
  <1>0. TypeOK'
    BY NextType DEF WindowInv
  <1> USE <1>0, ChatGuardAssumption, RateWindowAssumption DEF WindowInv
  <1>1. CASE Tick
    <2>1. RequestsLimited'
      BY <1>1, SameAllowed DEF Tick, TypeOK
    <2>2. Timely' /\ Remembered'
      BY <1>1 DEF Tick, Timely, Remembered, Entry, TypeOK
    <2> QED
      BY <1>1, <2>1, <2>2 DEF Tick
  <1>2. ASSUME NEW c \in Calls, ReadClock(c) PROVE WindowInv'
    <2>1. answer[c] = "none" /\ answer' = answer
      BY <1>2 DEF ReadClock, Rate!ReadClock, Timely, TypeOK
    <2>2. RequestsLimited'
      BY <1>2, <2>1, SameAllowed DEF ReadClock, Rate!ReadClock, TypeOK
    <2>3. Timely' /\ Remembered'
      BY <1>2, <2>1 DEF ReadClock, Rate!ReadClock, Timely, Remembered, Entry, TypeOK
    <2> QED
      BY <1>2, <2>2, <2>3 DEF ReadClock, Rate!ReadClock
  <1>3. ASSUME NEW c \in Calls, Refuse(c) PROVE WindowInv'
    <2>1. IsFiniteSet(counted')
      BY <1>3, ScriptFinite DEF Refuse
    <2>2. RequestsLimited'
      BY <1>3, SameAllowed DEF Refuse, TypeOK
    <2>3. Timely'
      BY <1>3 DEF Refuse, Timely, TypeOK
    <2>4. ASSUME NEW d \in Calls, answer'[d] = "allowed", stamp[d] > now - Window
          PROVE  Entry(d) \in counted'
      <3>1. d # c /\ answer[d] = "allowed"
        BY <1>3, <2>4 DEF Refuse, TypeOK
      <3> QED
        BY <1>3, <2>4, <3>1, ScriptRemembers DEF Refuse, Remembered
    <2>5. Remembered'
      BY <1>3, <2>4 DEF Refuse, Remembered, Entry
    <2> QED
      BY <2>1, <2>2, <2>3, <2>5
  <1>4. ASSUME NEW c \in Calls, Acquire(c) PROVE WindowInv'
    <2>1. IsFiniteSet(counted')
      BY <1>4, ScriptFinite DEF Acquire
    <2>2. Timely'
      BY <1>4 DEF Acquire, Timely, TypeOK
    <2>3. ASSUME NEW d \in Calls, answer'[d] = "allowed", stamp[d] > now - Window
          PROVE  Entry(d) \in counted'
      <3>1. CASE d = c
        BY <1>4, <3>1 DEF Acquire, Add, Entry
      <3>2. CASE d # c
        <4>1. answer[d] = "allowed"
          BY <1>4, <2>3, <3>2 DEF Acquire, TypeOK
        <4> QED
          BY <1>4, <2>3, <3>2, <4>1, ScriptRemembers DEF Acquire
      <3> QED
        BY <3>1, <3>2
    <2>4. Remembered'
      BY <1>4, <2>3 DEF Acquire, Remembered, Entry
    <2>5. RequestsLimited'
      BY <1>4, AcquireLimit
    <2> QED
      BY <2>1, <2>2, <2>4, <2>5
  <1>5. ASSUME UNCHANGED <<now, counted, stamp, answer>> PROVE WindowInv'
    <2>1. RequestsLimited'
      BY <1>5, SameAllowed DEF TypeOK
    <2> QED
      BY <1>5, <2>1 DEF Timely, Remembered, Entry
  <1>6. ASSUME NEW c \in Calls, End(c) \/ Release(c) \/ Die(c) PROVE WindowInv'
    BY <1>5, <1>6 DEF End, Release, Die
  <1>7. CASE UNCHANGED vars
    BY <1>5, <1>7 DEF vars
  <1> QED
    BY <1>1, <1>2, <1>3, <1>4, <1>6, <1>7 DEF Next

(* docs/openapi.yaml:102: no window of the configured length, less the     *)
(* delay of a call, sees more requests than the limit, whatever lost       *)
(* replies, expiring locks and processes that die do.                      *)
THEOREM RequestsAreLimited ==
  ASSUME DistinctIds
  PROVE  Spec => []RequestsLimited
  <1>1. WindowInv => RequestsLimited
    BY DEF WindowInv
  <1> QED
    BY <1>1, InitWindow, NextWindow, PTL DEF Spec
-----------------------------------------------------------------------------
(* The Retry-After of a refused request.                                   *)

\* What ZCARD finds: the script adds a request only below the limit.
Bounded == IsFiniteSet(counted) /\ Cardinality(counted) <= Limit

(* A set of times has an earliest one.                                     *)
LEMMA EarliestTime ==
  ASSUME NEW S \in SUBSET Nat, S # {}
  PROVE  Min(S) \in S /\ \A y \in S : Min(S) <= y
  <1> DEFINE Before == {ss \in Nat \X Nat : ss[1] < ss[2]}
  <1>1. IsWellFoundedOn(Before, Nat)
    BY NatLessThanWellFounded, Zenon DEF OpToRel
  <1>2. PICK x \in S : \A y \in S : ~(<<y, x>> \in Before)
    BY <1>1, WFMin
  <1>3. ASSUME NEW y \in S PROVE x <= y
    <2>1. x \in Nat /\ y \in Nat
      OBVIOUS
    <2>2. ~(y < x)
      BY <1>2, <2>1
    <2> QED
      BY <2>1, <2>2
  <1> QED
    BY <1>3 DEF Min

(* ZREMRANGEBYSCORE keeps a part of the set.                               *)
LEMMA KeptBounded ==
  ASSUME NEW set, IsFiniteSet(set), NEW n \in Nat, Cardinality(set) <= n, NEW t
  PROVE  /\ Kept(set, t) \subseteq set /\ IsFiniteSet(Kept(set, t))
         /\ Cardinality(Kept(set, t)) \in Nat /\ Cardinality(Kept(set, t)) <= n
  <1>1. Kept(set, t) \in SUBSET set
    BY DEF Kept
  <1>2. IsFiniteSet(Kept(set, t)) /\ Cardinality(Kept(set, t)) <= Cardinality(set)
    BY <1>1, FS_Subset
  <1>3. Cardinality(Kept(set, t)) \in Nat /\ Cardinality(set) \in Nat
    BY <1>2, FS_CardinalityType
  <1> QED
    BY <1>1, <1>2, <1>3

(* When a full window loses its first request there is room again, and     *)
(* not before.                                                             *)
LEMMA FullWindow ==
  ASSUME NEW M, NEW kept \in SUBSET [member : M, score : Nat], IsFiniteSet(kept),
         Cardinality(kept) <= Limit, Full(kept),
         NEW t \in Nat, \A e \in kept : e.score > t - Window
  PROVE  LET wait == RetryAfter(kept, t)
         IN  /\ ~Full(Kept(kept, t + wait))
             /\ \A k \in 1..(wait - 1) : Full(Kept(kept, t + k))
  <1> DEFINE first == Min(Scores(kept))
             wait  == RetryAfter(kept, t)
  <1>1. Limit \in Nat \ {0} /\ Window \in Nat \ {0}
    BY RateWindowAssumption
  <1>2. Cardinality(kept) = Limit
    BY <1>1, FS_CardinalityType DEF Full
  <1>3. kept # {}
    BY <1>1, <1>2, FS_EmptySet
  <1>4. Scores(kept) \in SUBSET Nat /\ Scores(kept) # {}
    BY <1>3 DEF Scores
  <1>5. first \in Scores(kept) /\ \A y \in Scores(kept) : first <= y
    BY <1>4, EarliestTime
  <1>6. PICK e \in kept : e.score = first
    BY <1>5 DEF Scores
  <1>7. /\ first \in Nat /\ first > t - Window
        /\ \A d \in kept : d.score \in Nat /\ first <= d.score
    BY <1>4, <1>5, <1>6 DEF Scores
  <1>8. wait = first + Window - t /\ wait >= 1 /\ wait \in Nat
    <2>1. first + Window - t \in Int /\ first + Window - t >= 1
      BY <1>1, <1>7
    <2>2. wait \in {1, first + Window - t} /\ \A y \in {1, first + Window - t} : wait >= y
      BY <2>1 DEF RetryAfter, Max
    <2> HIDE DEF wait, first
    <2> QED
      BY <2>1, <2>2
  <1> HIDE DEF wait, first
  <1>9. ~Full(Kept(kept, t + wait))
    <2>1. Kept(kept, t + wait) \in SUBSET (kept \ {e})
      BY <1>1, <1>6, <1>7, <1>8 DEF Kept
    <2>2. IsFiniteSet(kept \ {e}) /\ Cardinality(kept \ {e}) = Cardinality(kept) - 1
      BY FS_RemoveElement
    <2>3. /\ Cardinality(Kept(kept, t + wait)) <= Cardinality(kept \ {e})
          /\ IsFiniteSet(Kept(kept, t + wait))
      BY <2>1, <2>2, FS_Subset
    <2>4. Cardinality(Kept(kept, t + wait)) \in Nat
      BY <2>3, FS_CardinalityType
    <2> QED
      BY <1>1, <1>2, <2>2, <2>3, <2>4 DEF Full
  <1>10. ASSUME NEW k \in 1..(wait - 1) PROVE Full(Kept(kept, t + k))
    <2>1. \A d \in kept : d.score > (t + k) - Window
      BY <1>1, <1>7, <1>8
    <2>2. Kept(kept, t + k) = kept
      BY <2>1 DEF Kept
    <2> QED
      BY <2>2
  <1> QED
    BY <1>9, <1>10 DEF wait

(* The script never lets more than the limit into the set.                 *)
LEMMA NextBounded ==
  Bounded /\ TypeOK /\ [Next]_vars => Bounded'
  <1> SUFFICES ASSUME Bounded, TypeOK, [Next]_vars PROVE Bounded'
    OBVIOUS
  <1>1. Limit \in Nat \ {0}
    BY RateWindowAssumption
  <1>2. CASE UNCHANGED counted
    BY <1>2 DEF Bounded
  <1>3. ASSUME NEW c \in Calls, counted' = Kept(counted, stamp[c]) PROVE Bounded'
    BY <1>1, <1>3, KeptBounded DEF Bounded
  <1>4. ASSUME NEW c \in Calls, Acquire(c) PROVE Bounded'
    <2> DEFINE kept == Kept(counted, stamp[c])
               rest == {e \in kept : e.member # IdOf[c]}
    <2>1. IsFiniteSet(kept) /\ Cardinality(kept) \in Nat /\ Cardinality(kept) < Limit
      BY <1>1, <1>4, KeptBounded DEF Bounded, Acquire, Full
    <2>2. IsFiniteSet(rest) /\ Cardinality(rest) <= Cardinality(kept)
      <3>1. rest \in SUBSET kept
        OBVIOUS
      <3> QED
        BY <2>1, <3>1, FS_Subset
    <2>3. Cardinality(rest) < Limit
      BY <1>1, <2>1, <2>2, FS_CardinalityType
    <2>4. counted' = rest \cup {[member |-> IdOf[c], score |-> stamp[c]]}
      BY <1>4 DEF Acquire, Add
    <2> QED
      BY <1>1, <2>2, <2>3, <2>4, OneMore DEF Bounded
  <1> QED
    BY <1>2, <1>3, <1>4 DEF Next, vars, Tick, ReadClock, Rate!ReadClock, Refuse, End, Release, Die

(* retry_after of aiChatAcquireScript (ai_chat_guard.go:35-41): who waits   *)
(* that long is let in if nobody came between, and would not have been a   *)
(* second earlier, at whatever later time the window is as it is.          *)
THEOREM RetryAfterFits == Spec => []RetryAfterIsExact
  <1>1. Init => Bounded
    <2> SUFFICES ASSUME Init PROVE Bounded
      OBVIOUS
    <2>1. counted = {} /\ Limit \in Nat
      BY RateWindowAssumption DEF Init, Rate!Init
    <2> QED
      BY <2>1, FS_EmptySet DEF Bounded
  <1>2. TypeOK /\ Bounded => RetryAfterIsExact
    <2> SUFFICES ASSUME TypeOK, Bounded, NEW t \in now..MaxTime, Full(Kept(counted, t))
                 PROVE  LET wait == RetryAfter(Kept(counted, t), t)
                        IN  /\ ~Full(Kept(Kept(counted, t), t + wait))
                            /\ \A k \in 1..(wait - 1) : Full(Kept(Kept(counted, t), t + k))
      BY DEF RetryAfterIsExact, ExactRetryAfter
    <2> DEFINE kept == Kept(counted, t)
    <2>1. t \in Nat /\ Limit \in Nat /\ MaxTime \in Nat
      BY RateWindowAssumption DEF TypeOK
    <2>2. kept \in SUBSET [member : RequestIds, score : Nat]
      BY <2>1 DEF Kept, TypeOK
    <2>3. IsFiniteSet(kept) /\ Cardinality(kept) <= Limit
      BY <2>1, KeptBounded DEF Bounded
    <2>4. \A e \in kept : e.score > t - Window
      BY DEF Kept
    <2> HIDE DEF kept
    <2> QED
      BY <2>1, <2>2, <2>3, <2>4, FullWindow DEF kept
  <1>3. LockInv => TypeOK
    BY DEF LockInv
  <1>4. TypeOK /\ [Next]_vars => TypeOK'
    BY NextType
  <1>5. Init => TypeOK
    BY InitLock, <1>3
  <1> QED
    BY <1>1, <1>2, <1>4, <1>5, NextBounded, PTL DEF Spec

-----------------------------------------------------------------------------
(* The limits on registration and login: calls that are nothing but the    *)
(* script, on a window of their own (RateWindow).                          *)

\* Every call is a member of its own.
CallEntry(c) == [member |-> c, score |-> stamp[c]]

\* A call that was allowed less than a period ago is still counted.
CallRemembered ==
  \A c \in Calls : answer[c] = "allowed" /\ stamp[c] > now - Window => CallEntry(c) \in counted

RateInv ==
  Rate!TypeOK /\ IsFiniteSet(counted) /\ Timely /\ CallRemembered /\ Rate!LimitHolds

(* The script of RateWindow is that of the guard. *)
LEMMA SameScript ==
  /\ \A set, t : Rate!Kept(set, t) = Kept(set, t)
  /\ \A set, c, t : Rate!Add(set, c, t) = Add(set, c, t)
  /\ \A set : Rate!Full(set) <=> Full(set)
  BY SameCardinality DEF Rate!Kept, Kept, Rate!Add, Add, Rate!Full, Full

(* The step of a call, in terms of the script of the guard. *)
LEMMA AllowMeans ==
  \A c : Rate!Allow(c) <=>
    /\ stamp[c] >= 0 /\ answer[c] = "none"
    /\ IF Full(Kept(counted, stamp[c]))
         THEN /\ counted' = Kept(counted, stamp[c])
              /\ answer' = [answer EXCEPT ![c] = "limited"]
         ELSE /\ counted' = Add(Kept(counted, stamp[c]), c, stamp[c])
              /\ answer' = [answer EXCEPT ![c] = "allowed"]
    /\ now' = now /\ stamp' = stamp
  BY SameScript DEF Rate!Allow

(* Each of the calls that have an entry in the set of ZCARD is one of its  *)
(* members.                                                                *)
LEMMA CallsCount ==
  ASSUME NEW set, IsFiniteSet(set), NEW A,
         \A c \in A : \E e \in set : e.member = c
  PROVE  IsFiniteSet(A) /\ Cardinality(A) <= Cardinality(set)
  <1> DEFINE T == {e.member : e \in set}
             f == [e \in set |-> e.member]
  <1>1. f \in Surjection(set, T)
    BY DEF Surjection
  <1>2. IsFiniteSet(T) /\ Cardinality(T) <= Cardinality(set)
    BY <1>1, FS_Surjection
  <1>3. A \in SUBSET T
    OBVIOUS
  <1>4. IsFiniteSet(A) /\ Cardinality(A) <= Cardinality(T)
    BY <1>2, <1>3, FS_Subset
  <1>5. Cardinality(A) \in Nat /\ Cardinality(T) \in Nat /\ Cardinality(set) \in Nat
    BY <1>2, <1>4, FS_CardinalityType
  <1> QED
    BY <1>2, <1>4, <1>5

(* Nothing is counted before the first call.                               *)
LEMMA InitRate == Rate!Init => RateInv
  <1> SUFFICES ASSUME Rate!Init PROVE RateInv
    OBVIOUS
  <1> USE RateWindowAssumption DEF Rate!Init
  <1>1. \A a, b : Rate!Allowed(a, b) = {}
    BY DEF Rate!Allowed
  <1>2. Rate!LimitHolds
    BY <1>1, FS_EmptySet, SameCardinality DEF Rate!LimitHolds
  <1> QED
    BY <1>2, FS_EmptySet DEF RateInv, Rate!TypeOK, Timely, CallRemembered

(* A call that the script allows is the last that fits in each period.     *)
LEMMA AllowLimit ==
  ASSUME RateInv, NEW c \in Calls, Rate!Allow(c)
  PROVE  Rate!LimitHolds'
  <1> USE RateWindowAssumption DEF RateInv, Rate!TypeOK
  <1> DEFINE kept == Kept(counted, stamp[c])
  <1>1. SUFFICES ASSUME NEW t \in 0..MaxTime
                 PROVE  Cardinality(Rate!Allowed(t - (Window - MaxDelay), t)') <= Limit
    BY SameCardinality DEF Rate!LimitHolds, Rate!Allowed
  <1> DEFINE from == t - (Window - MaxDelay)
             A    == Rate!Allowed(from, t)
  <1>2. Cardinality(A) <= Limit
    BY SameCardinality DEF Rate!LimitHolds
  <1>3. CASE Full(kept) \/ ~(stamp[c] > from /\ stamp[c] <= t)
    <2>1. Rate!Allowed(from, t)' = A
      BY <1>3, AllowMeans DEF Rate!Allowed
    <2> QED
      BY <1>2, <2>1
  <1>4. CASE ~Full(kept) /\ stamp[c] > from /\ stamp[c] <= t
    <2>1. Rate!Allowed(from, t)' = A \cup {c}
      BY <1>4, AllowMeans DEF Rate!Allowed
    <2>2. ASSUME NEW d \in A PROVE \E e \in kept : e.member = d
      <3>1. /\ d \in Calls /\ answer[d] = "allowed"
            /\ stamp[d] > from
        BY <2>2 DEF Rate!Allowed
      <3>2. now <= stamp[c] + MaxDelay
        BY AllowMeans DEF Timely
      <3>3. stamp[d] \in Int /\ stamp[c] \in Int /\ now \in Int
        BY <3>1
      <3>4. stamp[d] > now - Window /\ stamp[d] > stamp[c] - Window
        BY <1>4, <3>1, <3>2, <3>3
      <3>5. CallEntry(d) \in kept
        BY <3>1, <3>4 DEF CallRemembered, CallEntry, Kept
      <3> QED
        BY <3>5 DEF CallEntry
    <2>3. IsFiniteSet(kept)
      BY ScriptFinite
    <2>4. IsFiniteSet(A) /\ Cardinality(A) <= Cardinality(kept)
      BY <2>2, <2>3, CallsCount
    <2>5. Cardinality(A) \in Nat /\ Cardinality(kept) \in Nat
      BY <2>3, <2>4, FS_CardinalityType
    <2>6. Cardinality(A) < Limit
      BY <1>4, <2>4, <2>5 DEF Full
    <2>7. Cardinality(A \cup {c}) <= Limit
      BY <2>4, <2>6, OneMore
    <2> QED
      BY <2>1, <2>7
  <1> QED
    BY <1>3, <1>4

(* The clock, a call that reads it and a script keep the invariant.        *)
LEMMA NextRate == RateInv /\ [Rate!Next]_(Rate!vars) => RateInv'
  <1> SUFFICES ASSUME RateInv, [Rate!Next]_(Rate!vars) PROVE RateInv'
    OBVIOUS
  <1> USE RateWindowAssumption DEF RateInv, Rate!TypeOK
  <1>1. CASE Rate!Tick
    <2>1. \A a, b : Rate!Allowed(a, b)' = Rate!Allowed(a, b)
      BY <1>1 DEF Rate!Tick, Rate!Allowed
    <2>2. Rate!LimitHolds'
      BY <2>1 DEF Rate!LimitHolds
    <2>3. Timely'
      BY <1>1 DEF Rate!Tick, Timely
    <2>4. CallRemembered'
      BY <1>1 DEF Rate!Tick, CallRemembered, CallEntry
    <2> QED
      BY <1>1, <2>2, <2>3, <2>4 DEF Rate!Tick
  <1>2. ASSUME NEW c \in Calls, Rate!ReadClock(c) PROVE RateInv'
    <2>1. answer[c] = "none" /\ answer' = answer
      BY <1>2 DEF Rate!ReadClock, Timely
    <2>2. \A a, b : Rate!Allowed(a, b)' = Rate!Allowed(a, b)
      BY <1>2, <2>1 DEF Rate!ReadClock, Rate!Allowed
    <2>3. Rate!LimitHolds'
      BY <2>2 DEF Rate!LimitHolds
    <2>4. Timely'
      BY <1>2, <2>1 DEF Rate!ReadClock, Timely
    <2>5. CallRemembered'
      BY <1>2, <2>1 DEF Rate!ReadClock, CallRemembered, CallEntry
    <2> QED
      BY <1>2, <2>3, <2>4, <2>5 DEF Rate!ReadClock
  <1>3. ASSUME NEW c \in Calls, Rate!Allow(c) PROVE RateInv'
    <2> DEFINE kept == Kept(counted, stamp[c])
    <2>1. Rate!TypeOK'
      <3>0. stamp[c] >= 0
        BY <1>3, AllowMeans
      <3>1. stamp[c] \in 0..MaxTime /\ kept \subseteq counted
        BY <3>0 DEF Kept
      <3>2. counted' \subseteq kept \cup {[member |-> c, score |-> stamp[c]]}
        BY <1>3, AllowMeans DEF Add
      <3> QED
        BY <1>3, <3>1, <3>2, AllowMeans
    <2>2. IsFiniteSet(counted')
      BY <1>3, ScriptFinite, AllowMeans
    <2>3. Timely'
      BY <1>3, AllowMeans DEF Timely
    <2>4. CallRemembered'
      <3> SUFFICES ASSUME NEW d \in Calls, answer'[d] = "allowed", stamp[d] > now - Window
                   PROVE  CallEntry(d) \in counted'
        BY <1>3, AllowMeans DEF CallRemembered, CallEntry
      <3>1. CASE d = c
        BY <1>3, <3>1, AllowMeans DEF Add, CallEntry
      <3>2. CASE d # c
        <4>1. CallEntry(d) \in counted
          BY <1>3, <3>2, AllowMeans DEF CallRemembered
        <4>2. stamp[d] \in Int /\ stamp[c] \in Int /\ now \in Int /\ stamp[c] <= now
          BY DEF Timely
        <4>3. CallEntry(d) \in kept
          BY <4>1, <4>2 DEF Kept, CallEntry
        <4> QED
          BY <1>3, <3>2, <4>3, AllowMeans DEF Add, CallEntry
      <3> QED
        BY <3>1, <3>2
    <2>5. Rate!LimitHolds'
      BY <1>3, AllowLimit
    <2> QED
      BY <2>1, <2>2, <2>3, <2>4, <2>5
  <1>4. CASE UNCHANGED Rate!vars
    <2>1. \A a, b : Rate!Allowed(a, b)' = Rate!Allowed(a, b)
      BY <1>4 DEF Rate!vars, Rate!Allowed
    <2>2. Rate!LimitHolds'
      BY <1>4, <2>1 DEF Rate!LimitHolds, Rate!vars
    <2> QED
      BY <1>4, <2>2 DEF Rate!vars, Timely, CallRemembered, CallEntry
  <1> QED
    BY <1>1, <1>2, <1>3, <1>4 DEF Rate!Next

(* The script of auth_rate_limiter.go keeps its limit, whatever the limit, *)
(* the period, the delay between a clock and the script and the number of  *)
(* calls.                                                                  *)
THEOREM LimitAlwaysHolds == Rate!Spec => []Rate!LimitHolds
  <1>1. RateInv => Rate!LimitHolds
    BY DEF RateInv
  <1> QED
    BY <1>1, InitRate, NextRate, PTL DEF Rate!Spec

-----------------------------------------------------------------------------
(***************************************************************************)
(* One answer on its way to the browser, for channels of any capacity,     *)
(* answers of any length and any number of pings.                          *)
(*                                                                         *)
(* Meta and the deltas are the pieces of the answer, numbered from 0.  The *)
(* page, the events, what runStream is sending and the deltas of the call  *)
(* hold them in one order: each piece of the events comes next on the page *)
(* or after one before it (Linked), runStream sends the one that comes     *)
(* then (QueueInv), and the call has the ones after that (DeltaInv).       *)
(***************************************************************************)
Piece(e) == e.type \in {"meta", "delta"}
Final(e) == e.type \in {"done", "error", "canceled"}

\* Piece n comes next on page p, or after one of the first i events in q.
Linked(n, i, q, p) ==
  n = Len(p) \/ \E k \in 1..i : Piece(q[k]) /\ q[k].n = n - 1

Sending == main \in {"loop", "send"}

\* The piece that comes next to the events, when runStream has taken t deltas.
Upcoming(t) == IF main = "send" /\ Piece(pending) THEN t ELSE t + 1

DeltaInv(t) ==
  /\ \A i \in 1..Len(deltas) : deltas[i] = t + i
  /\ ai = "running" => t + Len(deltas) = produced
  /\ ai = "sending" => t + Len(deltas) + 1 = produced
  /\ main = "send" /\ Piece(pending) =>
       pending.n = t /\ (pending.type = "meta" <=> t = 0)
  /\ main = "send" /\ pending.type = "meta" => ai = "ended" /\ produced = 0 /\ deltas = <<>>

\* Each piece comes after the one before it.
Chained ==
  \A i \in 1..Len(events) :
    Piece(events[i]) =>
      Linked(events[i].n, i - 1, events, page) /\ (events[i].type = "meta" <=> events[i].n = 0)

Ascending ==
  \A i, j \in 1..Len(events) :
    i < j /\ Piece(events[i]) /\ Piece(events[j]) => events[i].n < events[j].n

\* An end is the last event, and no answer ends that has not begun.
EndsLast ==
  /\ \A i \in 1..Len(events) :
       Final(events[i]) =>
         /\ i = Len(events) /\ ~Sending
         /\ page # <<>> \/ \E k \in 1..(i - 1) : Piece(events[k])
  /\ page # <<>> /\ Final(page[Len(page)]) => events = <<>> /\ ~Sending

Follows(next) ==
  Sending =>
    /\ Linked(next, Len(events), events, page)
    /\ \A i \in 1..Len(events) : Piece(events[i]) => events[i].n < next

Reading == ~disconnected /\ handler = "reading"

QueueInv(next) == Reading => Chained /\ Ascending /\ EndsLast /\ Follows(next)

PageInv ==
  \A i \in 1..Len(page) :
    \/ Piece(page[i]) /\ page[i].n = i - 1 /\ (page[i].type = "meta" <=> i = 1)
    \/ page[i].type \in {"done", "error"} /\ i = Len(page) /\ i > 1

StreamInv ==
  /\ StreamTypeOK /\ PageInv
  /\ \E t, next \in Nat : next = Upcoming(t) /\ DeltaInv(t) /\ QueueInv(next)

(* Events carry numbers. *)
LEMMA EventNumbers ==
  \A q \in Seq(Event) : \A i \in 1..Len(q) : q[i] \in Event /\ q[i].n \in Nat
  <1>1. \A e \in Event : e.n \in Nat
    BY ChatStreamAssumption DEF Event
  <1> QED
    BY <1>1

(* A channel takes at its end and gives at its beginning. *)
LEMMA ChannelType ==
  ASSUME NEW S, NEW q \in Seq(S)
  PROVE  /\ Len(q) \in Nat
         /\ \A x \in S : Append(q, x) \in Seq(S) /\ Len(Append(q, x)) = Len(q) + 1
         /\ q # <<>> => /\ Tail(q) \in Seq(S) /\ Len(Tail(q)) = Len(q) - 1
                        /\ Head(q) \in S /\ Len(q) \in Nat \ {0}
  OBVIOUS

(* runStream begins with meta. *)
LEMMA InitStream == StreamInit => StreamInv
  <1> SUFFICES ASSUME StreamInit PROVE StreamInv
    OBVIOUS
  <1> USE ChatStreamAssumption DEF StreamInit, Plain
  <1>1. StreamTypeOK
    <2>1. Len(<<>>) = 0 /\ <<>> \in Seq(1..MaxDeltas) /\ <<>> \in Seq(Event)
      OBVIOUS
    <2>2. pending \in Event
      BY DEF Event
    <2>3. disconnected \in BOOLEAN /\ expired \in BOOLEAN /\ locked \in BOOLEAN
      BY Zenon
    <2> QED
      BY <2>1, <2>2, <2>3 DEF StreamTypeOK
  <1>2. PageInv
    BY DEF PageInv
  <1>3. 0 = Upcoming(0) /\ DeltaInv(0) /\ QueueInv(0)
    BY DEF DeltaInv, QueueInv, Chained, Ascending, EndsLast, Follows, Piece, Linked, Upcoming
  <1> QED
    BY <1>1, <1>2, <1>3 DEF StreamInv

(* What the channels hold keeps its type. *)
LEMMA StreamTypes ==
  ASSUME StreamTypeOK, NEW t \in Nat, DeltaInv(t), [StreamNext]_streamVars
  PROVE  StreamTypeOK'
  <1> USE ChatStreamAssumption
  <1>1. CASE Produce
    BY <1>1 DEF Produce, StreamTypeOK, mainVars, httpVars
  <1>2. CASE SendDelta
    <2>1. produced \in 1..MaxDeltas
      BY <1>2 DEF SendDelta, StreamTypeOK, DeltaInv
    <2>2. /\ deltas \in Seq(1..MaxDeltas) /\ Len(deltas) \in Nat /\ Len(deltas) <= DeltaBuffer
          /\ Append(deltas, produced) \in Seq(1..MaxDeltas)
          /\ Len(Append(deltas, produced)) = Len(deltas) + 1
      BY <2>1, ChannelType DEF StreamTypeOK
    <2>3. deltas' \in Seq(1..MaxDeltas) /\ Len(deltas') <= DeltaBuffer
      <3>1. \/ deltas' = deltas
            \/ deltas' = Append(deltas, produced) /\ Len(deltas) < DeltaBuffer
        BY <1>2 DEF SendDelta
      <3>2. CASE deltas' = deltas
        BY <2>2, <3>2
      <3>3. CASE deltas' = Append(deltas, produced) /\ Len(deltas) < DeltaBuffer
        <4>1. Len(deltas') = Len(deltas) + 1
          BY <2>2, <3>3
        <4> QED
          BY <2>2, <3>3, <4>1
      <3> QED
        BY <3>1, <3>2, <3>3
    <2>4. ai' \in {"running", "ended"} /\ result' \in {"none", "done", "error"}
      BY <1>2 DEF SendDelta, StreamTypeOK
    <2> QED
      BY <1>2, <2>3, <2>4 DEF SendDelta, StreamTypeOK, mainVars, httpVars
  <1>3. CASE Finish
    BY <1>3 DEF Finish, StreamTypeOK, mainVars, httpVars
  <1>4. ASSUME NEW e \in Event, Select(e), UNCHANGED <<ai, produced, result>>,
               deltas' = deltas \/ (deltas # <<>> /\ deltas' = Tail(deltas)), pings' \in 0..MaxPings
        PROVE  StreamTypeOK'
    <2>1. deltas' \in Seq(1..MaxDeltas) /\ Len(deltas') <= DeltaBuffer
      <3>1. deltas \in Seq(1..MaxDeltas) /\ Len(deltas) \in Nat /\ Len(deltas) <= DeltaBuffer
        BY ChannelType DEF StreamTypeOK
      <3>2. deltas # <<>> => Tail(deltas) \in Seq(1..MaxDeltas) /\ Len(Tail(deltas)) = Len(deltas) - 1
        BY <3>1, ChannelType
      <3>3. DeltaBuffer \in Nat
        OBVIOUS
      <3>4. CASE deltas' = deltas
        BY <3>1, <3>4
      <3>5. CASE deltas # <<>> /\ deltas' = Tail(deltas)
        <4>1. Len(deltas') = Len(deltas) - 1
          BY <3>2, <3>5
        <4> QED
          BY <3>1, <3>2, <3>3, <3>5, <4>1
      <3> QED
        BY <1>4, <3>4, <3>5
    <2> QED
      BY <1>4, <2>1 DEF Select, StreamTypeOK, httpVars
  <1>5. \A type \in {"meta", "done", "error", "canceled", "ping"} :
          Plain(type) \in Event
    BY DEF Plain, Event
  <1>6. CASE TakeDelta
    <2>1. Delta(Head(deltas)) \in Event
      BY <1>6 DEF TakeDelta, StreamTypeOK, Delta, Event
    <2>2. pings' \in 0..MaxPings
      BY <1>6 DEF TakeDelta, StreamTypeOK
    <2> QED
      BY <1>4, <1>6, <2>1, <2>2 DEF TakeDelta
  <1>7. CASE TakeResult
    <2>1. \/ Select(Plain(result)) /\ result \in {"done", "error"}
          \/ Select(Plain("canceled"))
      BY <1>7 DEF TakeResult, StreamTypeOK
    <2>2. pings' \in 0..MaxPings
      BY <1>7 DEF TakeResult, StreamTypeOK
    <2> QED
      BY <1>4, <1>5, <1>7, <2>1, <2>2 DEF TakeResult, aiVars
  <1>8. CASE Ping
    <2>1. pings' \in 0..MaxPings
      BY <1>8 DEF Ping, StreamTypeOK
    <2> QED
      BY <1>4, <1>5, <1>8, <2>1 DEF Ping, aiVars
  <1>9. CASE Deadline
    <2>1. pings' \in 0..MaxPings
      BY <1>9 DEF Deadline, StreamTypeOK
    <2> QED
      BY <1>4, <1>5, <1>9, <2>1 DEF Deadline, aiVars
  <1>10. CASE Send
    <2>1. events' \in Seq(Event) /\ Len(events') <= EventBuffer
      <3>1. /\ events \in Seq(Event) /\ Len(events) \in Nat /\ Len(events) <= EventBuffer
            /\ Append(events, pending) \in Seq(Event)
            /\ Len(Append(events, pending)) = Len(events) + 1
        BY ChannelType DEF StreamTypeOK
      <3> QED
        BY <1>10, <3>1 DEF Send
    <2> QED
      BY <1>10, <2>1 DEF Send, StreamTypeOK, httpVars
  <1>11. CASE Unlock \/ Close
    BY <1>11 DEF Unlock, Close, StreamTypeOK, aiVars, httpVars
  <1>12. CASE Write
    <2>1. events' \in Seq(Event) /\ Len(events') <= EventBuffer
      <3>1. events \in Seq(Event) /\ Len(events) \in Nat /\ Len(events) <= EventBuffer
        BY ChannelType DEF StreamTypeOK
      <3>2. events # <<>> /\ events' = Tail(events)
        BY <1>12 DEF Write
      <3>3. Tail(events) \in Seq(Event) /\ Len(Tail(events)) = Len(events) - 1
        BY <3>1, <3>2, ChannelType
      <3> QED
        BY <3>1, <3>2, <3>3
    <2>2. page' \in Seq(Event) /\ handler' \in {"reading", "returned"}
      <3>1. Head(events) \in Event /\ page \in Seq(Event)
        BY <1>12, ChannelType DEF Write, StreamTypeOK
      <3>2. Append(page, Head(events)) \in Seq(Event)
        BY <3>1, ChannelType
      <3> QED
        BY <1>12, <3>1, <3>2 DEF Write, StreamTypeOK
    <2> QED
      BY <1>12, <2>1, <2>2 DEF Write, StreamTypeOK, aiVars
  <1>13. CASE Return \/ Disconnect \/ Expire
    BY <1>13 DEF Return, Disconnect, Expire, StreamTypeOK,
                 aiVars, mainVars, httpVars
  <1>14. CASE UNCHANGED streamVars
    BY <1>14 DEF streamVars, StreamTypeOK, aiVars, mainVars, httpVars
  <1> QED
    BY <1>1, <1>2, <1>3, <1>6, <1>7, <1>8, <1>9, <1>10, <1>11, <1>12, <1>13, <1>14
    DEF StreamNext, Ai, Main, Http

(* What is neither sent nor written leaves the events in their order. *)
LEMMA SameQueue ==
  ASSUME PageInv, NEW next \in Nat, QueueInv(next), UNCHANGED <<events, page>>,
         Sending' => Sending,
         disconnected => disconnected', handler # "reading" => handler' # "reading"
  PROVE  QueueInv(next)' /\ PageInv'
  <1>1. \A n, i : Linked(n, i, events', page') <=> Linked(n, i, events, page)
    OBVIOUS
  <1>2. PageInv'
    BY DEF PageInv
  <1>3. QueueInv(next)'
    BY <1>1 DEF QueueInv, Reading, Chained, Ascending, EndsLast, Follows
  <1> QED
    BY <1>2, <1>3

(* The call: deltas come one by one, and go into their channel in order. *)
LEMMA CallKeeps ==
  ASSUME StreamTypeOK, NEW t \in Nat, DeltaInv(t),
         Produce \/ SendDelta \/ Finish
  PROVE  DeltaInv(t)'
  <1>1. /\ produced \in Nat /\ deltas \in Seq(Nat) /\ Len(deltas) \in Nat
        /\ UNCHANGED <<main, pending>>
    BY ChatStreamAssumption DEF StreamTypeOK, Produce, SendDelta, Finish,
           mainVars
  <1>2. CASE Produce
    BY <1>1, <1>2 DEF Produce, DeltaInv
  <1>3. CASE Finish
    BY <1>1, <1>3 DEF Finish, DeltaInv
  <1>4. CASE SendDelta
    <2>1. ai = "sending" /\ t + Len(deltas) + 1 = produced /\ produced' = produced
      BY <1>4 DEF SendDelta, DeltaInv
    <2>2. CASE deltas' = Append(deltas, produced) /\ ai' = "running"
      <3>1. Len(deltas') = Len(deltas) + 1
            /\ \A i \in 1..Len(deltas') : deltas'[i] = IF i <= Len(deltas) THEN deltas[i] ELSE produced
        BY <1>1, <2>2
      <3>2. \A i \in 1..Len(deltas') : deltas'[i] = t + i
        BY <1>1, <2>1, <3>1 DEF DeltaInv
      <3> QED
        BY <1>1, <2>1, <2>2, <3>1, <3>2 DEF DeltaInv
    <2>3. CASE deltas' = deltas /\ ai' = "ended"
      BY <1>1, <2>1, <2>3 DEF DeltaInv
    <2> QED
      BY <1>4, <2>2, <2>3 DEF SendDelta
  <1> QED
    BY <1>2, <1>3, <1>4

(* runStream selects: a delta is the one that comes next. *)
LEMMA SelectKeeps ==
  ASSUME StreamTypeOK, NEW t \in Nat, DeltaInv(t),
         TakeDelta \/ TakeResult \/ Ping \/ Deadline
  PROVE  \E s \in Nat : Upcoming(s)' = Upcoming(t) /\ DeltaInv(s)'
  <1>1. /\ main = "loop" /\ main' = "send" /\ Upcoming(t) = t + 1
        /\ UNCHANGED <<ai, produced>>
    BY DEF TakeDelta, TakeResult, Ping, Deadline, Select,
           aiVars, Upcoming
  <1>2. CASE TakeDelta
    <2>1. /\ deltas # <<>> /\ deltas' = Tail(deltas) /\ pending' = Delta(Head(deltas))
          /\ deltas \in Seq(Nat)
      BY ChatStreamAssumption, <1>2 DEF TakeDelta, Select, StreamTypeOK
    <2>2. /\ Len(deltas) \in Nat \ {0} /\ Len(deltas') = Len(deltas) - 1
          /\ \A i \in 1..Len(deltas') : deltas'[i] = deltas[i + 1]
          /\ Head(deltas) = deltas[1]
      BY <2>1
    <2>3. pending'.type = "delta" /\ pending'.n = t + 1
      BY <2>1, <2>2 DEF DeltaInv, Delta
    <2>4. DeltaInv(t + 1)'
      <3>1. \A i \in 1..Len(deltas') : deltas'[i] = t + 1 + i
        BY <2>2 DEF DeltaInv
      <3>2. /\ ai = "running" => t + 1 + Len(deltas') = produced
            /\ ai = "sending" => t + 1 + Len(deltas') + 1 = produced
        BY <2>2 DEF DeltaInv
      <3> QED
        BY <1>1, <2>3, <3>1, <3>2 DEF DeltaInv, Piece
    <2>5. Upcoming(t + 1)' = Upcoming(t)
      BY <1>1, <2>3 DEF Upcoming, Piece
    <2> QED
      BY <2>4, <2>5
  <1>3. CASE TakeResult \/ Ping \/ Deadline
    <2>1. deltas' = deltas /\ pending'.type \in {"done", "error", "canceled", "ping"}
      BY <1>3 DEF TakeResult, Ping, Deadline, Select, Plain,
                  aiVars, StreamTypeOK
    <2>2. DeltaInv(t)' /\ Upcoming(t)' = Upcoming(t)
      BY <1>1, <2>1 DEF DeltaInv, Upcoming, Piece
    <2> QED
      BY <2>2
  <1> QED
    BY <1>2, <1>3

(* runStream sends a piece behind the one before it, and an end only when  *)
(* the answer has begun; or it gives up. *)
LEMMA SendKeeps ==
  ASSUME StreamTypeOK, PageInv, NEW t \in Nat, DeltaInv(t),
         NEW next \in Nat, next = Upcoming(t), QueueInv(next), Send
  PROVE  PageInv' /\ \E s, u \in Nat : u = Upcoming(s)' /\ DeltaInv(s)' /\ QueueInv(u)'
  <1>1. /\ main = "send" /\ Sending /\ pending' = pending
        /\ UNCHANGED <<produced, deltas, result, handler, page, disconnected>>
        /\ events \in Seq(Event) /\ pending \in Event /\ pending.n \in Nat
    BY ChatStreamAssumption DEF Send, httpVars, Sending, StreamTypeOK, Event
  <1>2. PageInv'
    BY <1>1 DEF PageInv
  <1>3. CASE UNCHANGED <<events, ai>> /\ main' = "return"
    <2>1. DeltaInv(t)' /\ ~Sending'
      BY <1>1, <1>3 DEF DeltaInv, Sending
    <2>2. QueueInv(t + 1)'
      <3>1. \A n, i : Linked(n, i, events', page') <=> Linked(n, i, events, page)
        BY <1>1, <1>3 DEF Linked
      <3> QED
        BY <1>1, <1>3, <2>1, <3>1 DEF QueueInv, Reading, Chained, Ascending, EndsLast, Follows
    <2>3. Upcoming(t)' = t + 1
      BY <1>3 DEF Upcoming
    <2> QED
      BY <1>2, <2>1, <2>2, <2>3
  <1>4. CASE /\ events' = Append(events, pending)
             /\ main' = IF Final(pending) THEN "return" ELSE "loop"
             /\ ai' = IF pending.type = "meta" THEN "running" ELSE ai
    <2>1. /\ Len(events) \in Nat /\ Len(events') = Len(events) + 1
          /\ \A i \in 1..Len(events) : events'[i] = events[i]
          /\ events'[Len(events) + 1] = pending
      BY <1>1, <1>4
    <2>2. DeltaInv(t)'
      BY <1>1, <1>4 DEF DeltaInv, Piece
    <2>3. Upcoming(t)' = t + 1
      BY <1>4 DEF Upcoming
    <2>4. \A n : \A i \in 0..Len(events) : Linked(n, i, events, page) => Linked(n, i, events', page')
      BY <1>1, <2>1 DEF Linked
    <2>5. ASSUME Reading PROVE Chained' /\ Ascending' /\ EndsLast' /\ Follows(t + 1)'
      <3>1. Chained /\ Ascending /\ EndsLast /\ Follows(next)
        BY <2>5 DEF QueueInv
      <3>2. /\ Linked(next, Len(events), events, page) /\ Len(events) \in Nat
            /\ \A i \in 1..Len(events) : Piece(events[i]) => events[i].n < next
            /\ \A i \in 1..Len(events) : ~Final(events[i])
            /\ ~(page # <<>> /\ Final(page[Len(page)]))
        BY <1>1, <2>1, <3>1 DEF EndsLast, Follows
      <3>3. /\ Piece(pending) => /\ next = t /\ pending.n = t /\ ~Final(pending)
                                 /\ pending.type = "meta" <=> pending.n = 0
            /\ ~Piece(pending) => next = t + 1
        BY <1>1 DEF Upcoming, DeltaInv, Piece, Final
      <3>4. Chained'
        <4> SUFFICES ASSUME NEW i \in 1..Len(events'), Piece(events'[i])
                     PROVE  /\ Linked(events'[i].n, i - 1, events', page')
                            /\ events'[i].type = "meta" <=> events'[i].n = 0
          BY DEF Chained
        <4>1. CASE i <= Len(events)
          <5>1. events'[i] = events[i] /\ i \in 1..Len(events) /\ i - 1 \in 0..Len(events)
            BY <2>1, <4>1
          <5>2. Linked(events[i].n, i - 1, events, page) /\ (events[i].type = "meta" <=> events[i].n = 0)
            BY <3>1, <5>1 DEF Chained
          <5> QED
            BY <2>4, <5>1, <5>2
        <4>2. CASE i = Len(events) + 1
          <5>1. events'[i] = pending /\ i - 1 = Len(events)
            BY <2>1, <4>2
          <5>2. next = t /\ pending.n = t /\ (pending.type = "meta" <=> pending.n = 0)
            BY <3>3, <5>1
          <5>3. Linked(t, Len(events), events, page) /\ Len(events) \in 0..Len(events)
            BY <3>2, <5>2
          <5>4. Linked(t, Len(events), events', page')
            BY <2>4, <5>3
          <5> QED
            BY <5>1, <5>2, <5>4
        <4> QED
          BY <2>1, <4>1, <4>2
      <3>5. Ascending'
        <4> SUFFICES ASSUME NEW i \in 1..Len(events'), NEW j \in 1..Len(events'),
                            i < j, Piece(events'[i]), Piece(events'[j])
                     PROVE  events'[i].n < events'[j].n
          BY DEF Ascending
        <4>1. i \in 1..Len(events) /\ events'[i] = events[i]
          BY <2>1
        <4>2. CASE j <= Len(events)
          BY <2>1, <3>1, <4>1, <4>2 DEF Ascending
        <4>3. CASE j = Len(events) + 1
          BY <2>1, <3>2, <3>3, <4>1, <4>3
        <4> QED
          BY <2>1, <4>2, <4>3
      <3>6. EndsLast'
        <4>1. ASSUME NEW i \in 1..Len(events'), Final(events'[i])
              PROVE  /\ i = Len(events') /\ ~Sending'
                     /\ page # <<>> \/ \E k \in 1..(i - 1) : Piece(events'[k])
          <5>1. i = Len(events) + 1 /\ events'[i] = pending
            BY <2>1, <3>2, <4>1
          <5>2. main' = "return" /\ next = t + 1
            BY <1>4, <3>3, <4>1, <5>1
          <5>3. page # <<>> \/ \E k \in 1..Len(events) : Piece(events[k])
            BY <1>1, <3>2, <5>2 DEF Linked
          <5> QED
            BY <2>1, <5>1, <5>2, <5>3 DEF Sending
        <4> QED
          BY <1>1, <3>2, <4>1 DEF EndsLast
      <3>7. Follows(t + 1)'
        <4>1. Linked(t + 1, Len(events'), events', page')
          <5>1. CASE Piece(pending)
            BY <2>1, <3>3, <5>1 DEF Linked
          <5>2. CASE ~Piece(pending)
            <6>1. Linked(t + 1, Len(events), events, page)
              BY <3>2, <3>3, <5>2
            <6>2. Linked(t + 1, Len(events), events', page')
              BY <2>1, <2>4, <6>1
            <6> QED
              BY <2>1, <6>2 DEF Linked
          <5> QED
            BY <5>1, <5>2
        <4>2. ASSUME NEW i \in 1..Len(events'), Piece(events'[i]) PROVE events'[i].n < t + 1
          <5>1. CASE i <= Len(events)
            <6>1. events'[i] = events[i] /\ events[i].n < next /\ i \in 1..Len(events)
              BY <2>1, <3>2, <4>2, <5>1
            <6>2. events[i].n \in Nat
              BY <1>1, <6>1, EventNumbers
            <6> QED
              BY <3>3, <6>1, <6>2
          <5>2. CASE i = Len(events) + 1
            BY <2>1, <3>3, <4>2, <5>2
          <5> QED
            BY <2>1, <5>1, <5>2
        <4> QED
          BY <4>1, <4>2 DEF Follows
      <3> QED
        BY <3>4, <3>5, <3>6, <3>7
    <2>6. QueueInv(t + 1)'
      BY <1>1, <2>5 DEF QueueInv, Reading
    <2> QED
      BY <1>2, <2>2, <2>3, <2>6
  <1> QED
    BY <1>3, <1>4 DEF Send, Final

(* The handler writes the piece that comes next, and nothing after an end. *)
LEMMA WriteKeeps ==
  ASSUME StreamTypeOK, PageInv, NEW next \in Nat, QueueInv(next), Write
  PROVE  PageInv' /\ QueueInv(next)'
  <1>1. /\ handler = "reading" /\ events # <<>> /\ events' = Tail(events)
        /\ events \in Seq(Event) /\ page \in Seq(Event)
        /\ UNCHANGED <<main, disconnected>> /\ Len(page) \in Nat
    BY DEF Write, StreamTypeOK
  <1>2. /\ Len(events) \in Nat \ {0} /\ Len(events') = Len(events) - 1
        /\ \A i \in 1..Len(events') : events'[i] = events[i + 1]
        /\ Head(events) = events[1] /\ 1 \in 1..Len(events)
        /\ \A i \in 1..Len(events) : events[i].n \in Nat
    BY <1>1, EventNumbers
  <1> DEFINE e == events[1]
  <1>3. CASE disconnected \/ e.type = "canceled"
    <2>1. page' = page /\ ~Reading'
      BY <1>1, <1>2, <1>3 DEF Write, Reading
    <2> QED
      BY <2>1 DEF PageInv, QueueInv
  <1>4. CASE ~disconnected /\ e.type # "canceled"
    <2>1. Chained /\ Ascending /\ EndsLast /\ Follows(next) /\ handler' = handler
      BY <1>1, <1>2, <1>4 DEF QueueInv, Reading, Write
    <2>2. page' = IF e.type = "ping" THEN page ELSE Append(page, e)
      BY <1>1, <1>2, <1>4 DEF Write
    <2>3. page # <<>> => ~Final(page[Len(page)])
      BY <1>1, <2>1 DEF EndsLast
    <2>4. CASE Final(e)
      <3>1. Len(events) = 1 /\ ~Sending /\ page # <<>>
        BY <1>2, <2>1, <2>4 DEF EndsLast
      <3>2. events' = <<>> /\ ~Sending' /\ Len(page) > 0
        BY <1>1, <1>2, <3>1 DEF Sending
      <3>3. /\ page' = Append(page, e) /\ Len(page') = Len(page) + 1
            /\ \A i \in 1..Len(page) : page'[i] = page[i]
            /\ page'[Len(page) + 1] = e /\ e.type \in {"done", "error"}
        BY <1>1, <1>4, <2>2, <2>4 DEF Final
      <3>4. PageInv'
        <4> SUFFICES ASSUME NEW i \in 1..Len(page')
                     PROVE  \/ Piece(page'[i]) /\ page'[i].n = i - 1 /\ (page'[i].type = "meta" <=> i = 1)
                            \/ page'[i].type \in {"done", "error"} /\ i = Len(page') /\ i > 1
          BY DEF PageInv
        <4>1. CASE i <= Len(page)
          BY <1>1, <2>3, <3>2, <3>3, <4>1 DEF PageInv, Final
        <4>2. CASE i = Len(page) + 1
          BY <1>1, <3>2, <3>3, <4>2
        <4> QED
          BY <1>1, <3>3, <4>1, <4>2
      <3>5. QueueInv(next)'
        BY <3>2 DEF QueueInv, Chained, Ascending, EndsLast, Follows
      <3> QED
        BY <3>4, <3>5
    <2>5. CASE ~Final(e)
      <3>1. Piece(e) => /\ e.n = Len(page) /\ (e.type = "meta" <=> e.n = 0)
                        /\ page' = Append(page, e) /\ Len(page') = Len(page) + 1
        BY <1>1, <1>2, <2>1, <2>2 DEF Chained, Linked, Piece
      <3>2. ~Piece(e) => page' = page
        <4>1. e \in Event
          BY <1>1, <1>2
        <4> QED
          BY <2>2, <2>5, <4>1 DEF Event, Piece, Final
      <3>3. ASSUME NEW n \in Nat, NEW i \in 1..Len(events), Linked(n, i, events, page),
                   Piece(e) => n > Len(page)
            PROVE  Linked(n, i - 1, events', page')
        <4>1. CASE n = Len(page)
          BY <1>1, <3>2, <3>3, <4>1 DEF Linked
        <4>2. ASSUME NEW k \in 1..i, Piece(events[k]), events[k].n = n - 1
              PROVE  Linked(n, i - 1, events', page')
          <5>1. CASE k = 1
            BY <1>1, <3>1, <4>2, <5>1 DEF Linked
          <5>2. CASE k # 1
            <6>1. k - 1 \in 1..(i - 1) /\ k - 1 \in 1..Len(events') /\ (k - 1) + 1 = k
              BY <1>2, <5>2
            <6>2. events'[k - 1] = events[k]
              BY <1>2, <6>1
            <6> QED
              BY <4>2, <6>1, <6>2 DEF Linked
          <5> QED
            BY <5>1, <5>2
        <4> QED
          BY <3>3, <4>1, <4>2 DEF Linked
      <3>4. \A i \in 1..Len(events') :
              /\ i \in 1..Len(events) /\ i + 1 \in 1..Len(events) /\ (i + 1) - 1 = i
              /\ events'[i] = events[i + 1]
              /\ Piece(e) /\ Piece(events[i + 1]) => events[i + 1].n > Len(page)
        BY <1>1, <1>2, <2>1, <3>1 DEF Ascending
      <3>5. Chained'
        <4> SUFFICES ASSUME NEW i \in 1..Len(events'), Piece(events'[i])
                     PROVE  /\ Linked(events'[i].n, i - 1, events', page')
                            /\ events'[i].type = "meta" <=> events'[i].n = 0
          BY DEF Chained
        <4>1. /\ Linked(events[i + 1].n, i, events, page) /\ events[i + 1].n \in Nat
              /\ events[i + 1].type = "meta" <=> events[i + 1].n = 0
          BY <1>2, <2>1, <3>4 DEF Chained
        <4>2. \A n \in Nat : n = events[i + 1].n => Linked(n, i - 1, events', page')
          BY <3>3, <3>4, <4>1
        <4>3. Linked(events'[i].n, i - 1, events', page')
          BY <3>4, <4>1, <4>2 DEF Linked
        <4> QED
          BY <3>4, <4>1, <4>3
      <3>6. Ascending'
        <4> SUFFICES ASSUME NEW i \in 1..Len(events'), NEW j \in 1..Len(events'),
                            i < j, Piece(events'[i]), Piece(events'[j])
                     PROVE  events'[i].n < events'[j].n
          BY DEF Ascending
        <4>1. i + 1 < j + 1
          OBVIOUS
        <4> QED
          BY <2>1, <3>4, <4>1 DEF Ascending
      <3>7. EndsLast'
        <4>1. ASSUME NEW i \in 1..Len(events'), Final(events'[i])
              PROVE  /\ i = Len(events') /\ ~Sending'
                     /\ page' # <<>> \/ \E k \in 1..(i - 1) : Piece(events'[k])
          <5>1. /\ i + 1 = Len(events) /\ ~Sending
                /\ page # <<>> \/ \E k \in 1..i : Piece(events[k])
            BY <2>1, <3>4, <4>1 DEF EndsLast
          <5>2. page # <<>> => page' # <<>>
            BY <1>1, <3>1, <3>2
          <5>3. ASSUME NEW k \in 1..i, Piece(events[k])
                PROVE  page' # <<>> \/ \E l \in 1..(i - 1) : Piece(events'[l])
            <6>1. CASE k = 1
              BY <1>1, <3>1, <5>3, <6>1
            <6>2. CASE k # 1
              <7>1. k - 1 \in 1..(i - 1) /\ k - 1 \in 1..Len(events') /\ (k - 1) + 1 = k
                BY <1>2, <6>2
              <7> QED
                BY <1>2, <5>3, <7>1
            <6> QED
              BY <6>1, <6>2
          <5> QED
            <6>4. Len(events') = Len(events) - 1 /\ Len(events) \in Nat /\ i \in Nat
              BY <1>2
            <6>1. i = Len(events')
              BY <5>1, <6>4
            <6>5. ~Sending'
              BY <1>1, <5>1 DEF Sending
            <6>3. (\E k \in 1..i : Piece(events[k]))
                    => page' # <<>> \/ \E k \in 1..(i - 1) : Piece(events'[k])
              BY <5>3
            <6>2. page' # <<>> \/ \E k \in 1..(i - 1) : Piece(events'[k])
              BY <5>1, <5>2, <6>3, Zenon
            <6> QED
              BY <6>1, <6>2, <6>5
        <4>2. page' # <<>> => ~Final(page'[Len(page')])
          <5>1. CASE Piece(e)
            BY <1>1, <2>5, <3>1, <5>1
          <5>2. CASE ~Piece(e)
            BY <2>3, <3>2, <5>2
          <5> QED
            BY <5>1, <5>2
        <4> QED
          BY <4>1, <4>2 DEF EndsLast
      <3>8. Follows(next)'
        <4> SUFFICES ASSUME Sending
                     PROVE  /\ Linked(next, Len(events'), events', page')
                            /\ \A i \in 1..Len(events') : Piece(events'[i]) => events'[i].n < next
          BY <1>1 DEF Follows, Sending
        <4>1. /\ Linked(next, Len(events), events, page) /\ Piece(e) => next > Len(page)
              /\ \A i \in 1..Len(events) : Piece(events[i]) => events[i].n < next
          BY <1>1, <1>2, <2>1, <3>1 DEF Follows
        <4>2. Linked(next, Len(events) - 1, events', page')
          BY <1>2, <2>1, <3>3, <4>1 DEF Follows
        <4>3. Linked(next, Len(events'), events', page')
          BY <1>2, <4>2 DEF Linked
        <4> QED
          BY <3>4, <4>1, <4>3
      <3>9. PageInv'
        <4>1. CASE ~Piece(e)
          BY <3>2, <4>1 DEF PageInv
        <4>2. CASE Piece(e)
          <5> SUFFICES ASSUME NEW i \in 1..Len(page')
                       PROVE  Piece(page'[i]) /\ page'[i].n = i - 1
                              /\ (page'[i].type = "meta" <=> i = 1)
            BY DEF PageInv
          <5>1. CASE i <= Len(page)
            <6>1. page'[i] = page[i] /\ i \in 1..Len(page) /\ page # <<>>
              BY <1>1, <3>1, <4>2, <5>1
            <6>2. page[i].type \in {"done", "error"} => i # Len(page)
              BY <2>3, <6>1 DEF Final
            <6> QED
              BY <6>1, <6>2 DEF PageInv
          <5>2. CASE i = Len(page) + 1
            BY <1>1, <3>1, <4>2, <5>2
          <5> QED
            BY <1>1, <3>1, <4>2, <5>1, <5>2
        <4> QED
          BY <4>1, <4>2
      <3> QED
        BY <3>5, <3>6, <3>7, <3>8, <3>9 DEF QueueInv
    <2> QED
      BY <2>4, <2>5
  <1> QED
    BY <1>3, <1>4

(* Every step of the three goroutines keeps the order. *)
LEMMA NextStream ==
  StreamInv /\ [StreamNext]_streamVars => StreamInv'
  <1> SUFFICES ASSUME StreamInv, [StreamNext]_streamVars PROVE StreamInv'
    OBVIOUS
  <1>1. PICK t \in Nat, next \in Nat : next = Upcoming(t) /\ DeltaInv(t) /\ QueueInv(next)
    BY DEF StreamInv
  <1>2. StreamTypeOK /\ PageInv
    BY DEF StreamInv
  <1>3. StreamTypeOK'
    BY <1>1, <1>2, StreamTypes
  <1> SUFFICES PageInv' /\ \E s, u \in Nat : u = Upcoming(s)' /\ DeltaInv(s)' /\ QueueInv(u)'
    BY <1>3 DEF StreamInv
  <1>4. CASE Produce \/ SendDelta \/ Finish
    <2>1. DeltaInv(t)'
      BY <1>1, <1>2, <1>4, CallKeeps
    <2>2. UNCHANGED <<main, pending, events, page, handler, disconnected>>
      BY <1>4 DEF Produce, SendDelta, Finish, mainVars, httpVars
    <2>3. QueueInv(next)' /\ PageInv'
      BY <1>1, <1>2, <2>2, SameQueue DEF Sending
    <2>4. Upcoming(t)' = next
      BY <1>1, <2>2 DEF Upcoming
    <2> QED
      BY <2>1, <2>3, <2>4
  <1>5. CASE TakeDelta \/ TakeResult \/ Ping \/ Deadline
    <2>1. PICK s \in Nat : Upcoming(s)' = Upcoming(t) /\ DeltaInv(s)'
      BY <1>1, <1>2, <1>5, SelectKeeps
    <2>2. UNCHANGED <<events, page, handler, disconnected>> /\ Sending
      BY <1>5 DEF TakeDelta, TakeResult, Ping, Deadline,
                  Select, httpVars, Sending
    <2>3. QueueInv(next)' /\ PageInv'
      BY <1>1, <1>2, <2>2, SameQueue
    <2> QED
      BY <1>1, <2>1, <2>3
  <1>6. CASE Send
    BY <1>1, <1>2, <1>6, SendKeeps
  <1>7. CASE Unlock \/ Close \/ Return \/ Disconnect
             \/ Expire \/ UNCHANGED streamVars
    <2> USE DEF streamVars, aiVars, mainVars, httpVars
    <2>4. UNCHANGED <<ai, produced, deltas, pending, events, page>>
      BY <1>7 DEF Unlock, Close, Return, Disconnect, Expire
    <2>5. main' = main \/ (main \in {"return", "released"} /\ main' \in {"released", "closed"})
      BY <1>7 DEF Unlock, Close, Return, Disconnect, Expire
    <2>7. handler' = handler \/ handler' = "returned"
      BY <1>7 DEF Unlock, Close, Return, Disconnect, Expire
    <2>8. disconnected => disconnected'
      BY <1>7 DEF Unlock, Close, Return, Disconnect, Expire
    <2>1. /\ UNCHANGED <<ai, produced, deltas, pending, events, page>>
          /\ Sending' => Sending
          /\ disconnected => disconnected'
          /\ handler # "reading" => handler' # "reading"
          /\ main' = main \/ (main # "send" /\ main' # "send")
      BY <2>4, <2>5, <2>7, <2>8 DEF Sending
    <2>2. DeltaInv(t)' /\ Upcoming(t)' = next
      BY <1>1, <2>1 DEF DeltaInv, Upcoming
    <2>3. QueueInv(next)' /\ PageInv'
      BY <1>1, <1>2, <2>1, SameQueue
    <2> QED
      BY <2>2, <2>3
  <1>8. CASE Write
    <2>1. UNCHANGED <<ai, produced, deltas, main, pending>>
      BY <1>8 DEF Write, aiVars
    <2>2. DeltaInv(t)' /\ Upcoming(t)' = next
      BY <1>1, <2>1 DEF DeltaInv, Upcoming
    <2>3. PageInv' /\ QueueInv(next)'
      BY <1>1, <1>2, <1>8, WriteKeeps
    <2> QED
      BY <2>2, <2>3
  <1> QED
    BY <1>4, <1>5, <1>6, <1>7, <1>8 DEF StreamNext, Ai, Main, Http

(* runStream and ChatHandler (service.go:108-166, chat.go:79-104): however *)
(* slowly the client reads, wherever it disconnects and whatever select    *)
(* takes first, the page is the beginning of the answer without a gap.     *)
THEOREM PageHasNoGaps ==
  StreamSpec => []NoGaps
  <1>1. StreamInv => NoGaps
    BY DEF StreamInv, PageInv, NoGaps, Piece
  <1> QED
    BY InitStream, NextStream, <1>1, PTL DEF StreamSpec

(* The same: the page begins with meta, and nothing follows its end.       *)
THEOREM PageIsWellFormed ==
  StreamSpec => []WellFormed
  <1>1. StreamInv => WellFormed
    BY DEF StreamInv, PageInv, WellFormed, Piece
  <1> QED
    BY InitStream, NextStream, <1>1, PTL DEF StreamSpec

-----------------------------------------------------------------------------
(* The channels: who waits at one is waited for by nobody who waits.       *)

\* From meta on the call to the AI is under way or has left its result.
CallPlaced ==
  ai = "ended" /\ result = "none" /\ main \in {"loop", "send"} =>
    main = "send" /\ pending.type = "meta"

\* What SendDelta, runStream (without its ticker) and the handler wait for.
CallCanSend == ai = "sending" /\ (Len(deltas) < DeltaBuffer \/ StreamDone)
StreamCanRun ==
  \/ main = "loop" /\ (deltas # <<>> \/ result # "none" \/ StreamDone)
  \/ main = "send" /\ (Len(events) < EventBuffer \/ Unwanted)
  \/ main \in {"return", "released"}
HandlerCanRun == handler = "reading" /\ (events # <<>> \/ main = "closed")

\* Until all three have ended, one can run, or the AI service is still answering.
ChannelsFlow ==
  ai # "ended" \/ main # "closed" \/ handler # "returned" =>
    ai = "running" \/ CallCanSend \/ StreamCanRun \/ HandlerCanRun

LEMMA NextCallPlaced == StreamTypeOK /\ CallPlaced /\ [StreamNext]_streamVars => CallPlaced'
  <1> SUFFICES ASSUME StreamTypeOK, CallPlaced, [StreamNext]_streamVars PROVE CallPlaced'
    OBVIOUS
  <1>1. CASE Produce \/ SendDelta \/ Finish
    BY <1>1 DEF Produce, SendDelta, Finish, CallPlaced, mainVars
  <1>2. CASE TakeDelta \/ TakeResult \/ Ping \/ Deadline
    BY <1>2 DEF TakeDelta, TakeResult, Ping, Deadline, Select, CallPlaced, aiVars
  <1>3. CASE Send
    BY <1>3 DEF Send, CallPlaced
  <1>4. CASE Unlock \/ Close
    BY <1>4 DEF Unlock, Close, CallPlaced, aiVars
  <1>5. CASE Write \/ Return \/ Disconnect \/ Expire \/ UNCHANGED streamVars
    BY <1>5
    DEF Write, Return, Disconnect, Expire, CallPlaced, streamVars, aiVars, mainVars
  <1> QED
    BY <1>1, <1>2, <1>3, <1>4, <1>5 DEF StreamNext, Ai, Main, Http

(* The call, runStream and ChatHandler never wait for each other in a      *)
(* circle, whatever the capacities of their channels: before all have      *)
(* ended one of them can run, also when the client or the deadline has     *)
(* made another return early, or it is the AI service that answers.        *)
THEOREM ChannelsNeverBlock == StreamSpec => []ChannelsFlow
  <1>1. StreamInit => CallPlaced
    BY DEF StreamInit, CallPlaced, Plain
  <1>2. StreamInv => StreamTypeOK
    BY DEF StreamInv
  <1>3. ASSUME StreamTypeOK, CallPlaced PROVE ChannelsFlow
    <2>1. /\ Len(deltas) \in Nat /\ Len(events) \in Nat
          /\ deltas = <<>> => Len(deltas) < DeltaBuffer
          /\ events = <<>> => Len(events) < EventBuffer
          /\ ai \in {"running", "sending", "ended"} /\ handler \in {"reading", "returned"}
          /\ main \in {"loop", "send", "return", "released", "closed"}
      BY <1>3, ChatStreamAssumption DEF StreamTypeOK
    <2>2. CASE main = "loop"
      BY <1>3, <2>1, <2>2 DEF ChannelsFlow, CallPlaced, CallCanSend, StreamCanRun
    <2>3. CASE main = "send"
      <3>1. handler = "returned" => Unwanted
        BY DEF Unwanted, StreamDone, RequestDone
      <3> QED
        BY <2>1, <2>3, <3>1 DEF ChannelsFlow, StreamCanRun, HandlerCanRun
    <2>4. CASE main \in {"return", "released"}
      BY <2>4 DEF ChannelsFlow, StreamCanRun
    <2>5. CASE main = "closed"
      BY <2>1, <2>5 DEF ChannelsFlow, CallCanSend, HandlerCanRun, StreamDone
    <2> QED
      BY <2>1, <2>2, <2>3, <2>4, <2>5
  <1> QED
    BY <1>1, <1>2, <1>3, InitStream, NextStream, NextCallPlaced, PTL DEF StreamSpec

-----------------------------------------------------------------------------
(* The messages of a conversation: the characters, each as the place of    *)
(* its message and its own; a sum of lengths is how many there are.        *)

Message == [role : STRING, chars : Nat]

Characters(m, places) == UNION {{i} \X (1..m[i].chars) : i \in places}

Places(m) == SUBSET (DOMAIN m)

\* What the fold over the messages is defined by.
Adds(m, sum) ==
  sum = [places \in Places(m) |->
           IF places = {} THEN 0 ELSE sum[places \ {Max(places)}] + m[Max(places)].chars]

(* The lengths are added from the last place of a set down.                *)
LEMMA CharsByPlaces ==
  ASSUME NEW m \in Seq(Message)
  PROVE  Chars(m) = (CHOOSE sum : Adds(m, sum))[DOMAIN m]
  BY Zenon DEF Chars, FoldLeft, MapThenFoldSet, Adds, Places

LEMMA LastPlace ==
  ASSUME NEW n \in Nat, NEW S \in SUBSET (1..n), S # {}
  PROVE  Max(S) \in S
  <1> DEFINE T == {t \in Nat : n - t \in S}
  <1>1. T \in SUBSET Nat /\ T # {}
    <2>1. PICK i \in S : i \in 1..n
      OBVIOUS
    <2>2. n - i \in Nat /\ n - (n - i) = i
      BY <2>1
    <2> QED
      BY <2>1, <2>2
  <1>2. Min(T) \in T /\ \A y \in T : Min(T) <= y
    BY <1>1, EarliestTime
  <1> DEFINE x == n - Min(T)
  <1>3. ASSUME NEW y \in S PROVE x >= y
    <2>1. y \in 1..n /\ n - y \in T
      OBVIOUS
    <2>2. Min(T) \in Nat /\ Min(T) <= n - y
      BY <1>2, <2>1
    <2> QED
      BY <2>1, <2>2
  <1>4. x \in S
    BY <1>2
  <1> HIDE DEF x
  <1> QED
    BY <1>3, <1>4 DEF Max

LEMMA MessageAt ==
  ASSUME NEW m \in Seq(Message), NEW i \in DOMAIN m
  PROVE  m[i].chars \in Nat
  <1>1. m[i] \in Message
    OBVIOUS
  <1> QED
    BY <1>1 DEF Message

LEMMA CharactersFinite ==
  ASSUME NEW m \in Seq(Message), NEW places \in Places(m)
  PROVE  /\ IsFiniteSet(places) /\ IsFiniteSet(Characters(m, places))
         /\ Cardinality(Characters(m, places)) \in Nat
  <1> DEFINE Of == [i \in places |-> {i} \X (1..m[i].chars)]
             Sets == {{i} \X (1..m[i].chars) : i \in places}
  <1>1. IsFiniteSet(places)
    <2>1. 1 \in Int /\ Len(m) \in Int /\ DOMAIN m = 1..Len(m)
      OBVIOUS
    <2>2. IsFiniteSet(DOMAIN m)
      BY <2>1, FS_Interval
    <2> QED
      BY <2>2, FS_Subset DEF Places
  <1>2. Of \in Surjection(places, Sets)
    BY DEF Surjection
  <1>3. IsFiniteSet(Sets)
    <2> HIDE DEF Of, Sets
    <2> QED
      BY <1>1, <1>2, FS_Surjection
  <1>4. ASSUME NEW set \in Sets PROVE IsFiniteSet(set)
    <2>1. PICK i \in places : set = {i} \X (1..m[i].chars)
      OBVIOUS
    <2>2. 1 \in Int /\ m[i].chars \in Int
      BY MessageAt DEF Places
    <2>3. IsFiniteSet({i}) /\ IsFiniteSet(1..m[i].chars)
      BY <2>2, FS_Singleton, FS_Interval
    <2> QED
      BY <2>1, <2>3, FS_Product
  <1>5. IsFiniteSet(UNION Sets)
    <2> HIDE DEF Sets
    <2> QED
      BY <1>3, <1>4, FS_UNION
  <1> QED
    BY <1>1, <1>5, FS_CardinalityType DEF Characters

(* One message more is its length more.                                    *)
LEMMA OneMessage ==
  ASSUME NEW m \in Seq(Message), NEW places \in Places(m), NEW x \in places
  PROVE  Cardinality(Characters(m, places))
           = Cardinality(Characters(m, places \ {x})) + m[x].chars
  <1> DEFINE others == Characters(m, places \ {x})
             own == {x} \X (1..m[x].chars)
  <1>1. m[x].chars \in Nat
    BY MessageAt DEF Places
  <1>2. IsFiniteSet(others)
    <2>1. places \ {x} \in Places(m)
      BY DEF Places
    <2> QED
      BY <2>1, CharactersFinite
  <1>3. IsFiniteSet(own) /\ Cardinality(own) = m[x].chars
    <2>1. 1 \in Int /\ m[x].chars \in Int
      BY <1>1
    <2>5. /\ IsFiniteSet(1..m[x].chars)
          /\ Cardinality(1..m[x].chars) = IF 1 > m[x].chars THEN 0 ELSE m[x].chars - 1 + 1
      BY <2>1, FS_Interval
    <2>2. IsFiniteSet(1..m[x].chars) /\ Cardinality(1..m[x].chars) = m[x].chars
      BY <1>1, <2>5
    <2>3. IsFiniteSet({x}) /\ Cardinality({x}) = 1
      BY FS_Singleton
    <2>4. IsFiniteSet(own) /\ Cardinality(own) = Cardinality({x}) * Cardinality(1..m[x].chars)
      BY <2>2, <2>3, FS_Product
    <2> QED
      BY <1>1, <2>2, <2>3, <2>4
  <1>4. Characters(m, places) = others \cup own /\ others \cap own = {}
    BY DEF Characters
  <1>5. Cardinality(others \cup own)
          = Cardinality(others) + Cardinality(own) - Cardinality(others \cap own)
    BY <1>2, <1>3, FS_Union
  <1>6. Cardinality({}) = 0 /\ Cardinality(others) \in Nat
    BY <1>2, FS_EmptySet, FS_CardinalityType
  <1> HIDE DEF others, own
  <1>9. Cardinality(others \cap own) = 0
    BY <1>4, <1>6
  <1>7. Cardinality(others \cup own) = Cardinality(others) + m[x].chars
    BY <1>1, <1>3, <1>5, <1>6, <1>9
  <1>8. Cardinality(Characters(m, places)) = Cardinality(others) + m[x].chars
    BY <1>4, <1>7
  <1> QED
    BY <1>8 DEF others

(* Chars counts the characters of all the messages.                        *)
LEMMA CharsCount ==
  ASSUME NEW m \in Seq(Message)
  PROVE  Chars(m) = Cardinality(Characters(m, DOMAIN m)) /\ Chars(m) \in Nat
  <1> DEFINE Count(places) == Cardinality(Characters(m, places))
             sum == CHOOSE sum : Adds(m, sum)
  <1>1. ASSUME NEW places \in Places(m), places # {}
        PROVE  /\ Max(places) \in places /\ places \ {Max(places)} \in Places(m)
               /\ Count(places) = Count(places \ {Max(places)}) + m[Max(places)].chars
    <2>1. Len(m) \in Nat /\ places \in SUBSET (1..Len(m))
      BY DEF Places
    <2>2. Max(places) \in places
      BY <1>1, <2>1, LastPlace
    <2> QED
      BY <2>2, OneMessage DEF Places
  <1>2. Count({}) = 0
    BY FS_EmptySet DEF Characters
  <1>3. Adds(m, [places \in Places(m) |-> Count(places)])
    <2> HIDE DEF Count
    <2>1. ASSUME NEW places \in Places(m)
          PROVE  Count(places) = IF places = {} THEN 0
                   ELSE [p \in Places(m) |-> Count(p)][places \ {Max(places)}] + m[Max(places)].chars
      BY <1>1, <1>2
    <2> QED
      BY <2>1, Zenon DEF Adds
  <1>4. Adds(m, sum)
    BY <1>3, Zenon
  <1> HIDE DEF sum
  <1> DEFINE Wrong == {n \in Nat : \E places \in Places(m) :
                         Cardinality(places) = n /\ sum[places] # Count(places)}
  <1>5. ASSUME Wrong # {} PROVE FALSE
    <2>1. Min(Wrong) \in Wrong /\ \A n \in Wrong : Min(Wrong) <= n
      BY <1>5, EarliestTime
    <2>2. PICK places \in Places(m) : Cardinality(places) = Min(Wrong) /\ sum[places] # Count(places)
      BY <2>1
    <2> DEFINE x == Max(places)
    <2>3. sum[places] = IF places = {} THEN 0 ELSE sum[places \ {x}] + m[x].chars
      BY <1>4 DEF Adds
    <2>4. places # {}
      BY <1>2, <2>2, <2>3
    <2>5. x \in places /\ places \ {x} \in Places(m) /\ Count(places) = Count(places \ {x}) + m[x].chars
      BY <1>1, <2>4
    <2>6. sum[places \ {x}] # Count(places \ {x})
      BY <2>2, <2>3, <2>4, <2>5
    <2>7. IsFiniteSet(places)
      BY CharactersFinite
    <2>8. Cardinality(places \ {x}) = Cardinality(places) - 1 /\ Cardinality(places \ {x}) \in Nat
      BY <2>5, <2>7, FS_RemoveElement, FS_CardinalityType
    <2> HIDE DEF x, Count
    <2>9. Cardinality(places \ {x}) \in Wrong
      BY <2>5, <2>6, <2>8
    <2>10. Min(Wrong) \in Nat /\ Min(Wrong) <= Cardinality(places \ {x})
      BY <2>1, <2>9
    <2> HIDE DEF Wrong
    <2> QED
      BY <2>2, <2>8, <2>10
  <1>6. DOMAIN m \in Places(m)
    BY DEF Places
  <1>7. Count(DOMAIN m) \in Nat
    BY <1>6, CharactersFinite
  <1>8. sum[DOMAIN m] = Count(DOMAIN m)
    <2>1. Cardinality(DOMAIN m) \in Nat
      BY <1>6, CharactersFinite, FS_CardinalityType
    <2> HIDE DEF Count
    <2> QED
      BY <1>5, <1>6, <2>1
  <1> QED
    BY <1>7, <1>8, CharsByPlaces DEF sum

-----------------------------------------------------------------------------
(* The window: the loop drops two messages at a time, so it stops at the   *)
(* first question from which the rest fits.                                *)

Latest(input, first) == SubSeq(input, first, Len(input))

\* The loop is left here.
Stays(input, first) ==
  ~(Chars(Latest(input, first)) > MaxHistoryChars /\ Len(Latest(input, first)) > 1)

\* Where it can be left when it has come to the message at first.
Stops(input, first) ==
  {s \in first..Len(input) :
     /\ (s - first) % 2 = 0 \/ s = Len(input)
     /\ Stays(input, s)}

Loop(input, from) ==
  from = [first \in 1..Len(input) |->
            IF Stays(input, first) THEN Latest(input, first)
            ELSE from[first + RemoveCount(Latest(input, first))]]

(* Rest is the loop.                                                       *)
LEMMA RestByLoop ==
  ASSUME NEW input \in Seq(Message)
  PROVE  Rest(input) = (CHOOSE from : Loop(input, from))[1]
  <1> DEFINE Body(from, first) ==
        LET messages == SubSeq(input, first, Len(input))
        IN  IF Chars(messages) > MaxHistoryChars /\ Len(messages) > 1
              THEN from[first + RemoveCount(messages)]
              ELSE messages
  <1>1. Rest(input) = (CHOOSE from : from = [first \in 1..Len(input) |-> Body(from, first)])[1]
    BY Zenon DEF Rest
  <1>2. ASSUME NEW from, NEW first
        PROVE  Body(from, first) = IF Stays(input, first) THEN Latest(input, first)
                                   ELSE from[first + RemoveCount(Latest(input, first))]
    BY Zenon DEF Stays, Latest
  <1> HIDE DEF Body
  <1>3. ASSUME NEW from
        PROVE  (from = [first \in 1..Len(input) |-> Body(from, first)]) <=> Loop(input, from)
    BY <1>2, Zenon DEF Loop
  <1>4. (CHOOSE from : from = [first \in 1..Len(input) |-> Body(from, first)])
          = CHOOSE from : Loop(input, from)
    BY <1>3, Zenon
  <1> QED
    BY <1>1, <1>4, Zenon

(* An end of a conversation is one.                                        *)
LEMMA EndMessages ==
  ASSUME NEW input \in Seq(Message), NEW first \in 1..Len(input)
  PROVE  /\ Latest(input, first) \in Seq(Message)
         /\ Len(Latest(input, first)) = Len(input) - first + 1
         /\ Latest(input, first)[1] = input[first]
  BY DEF Latest

LEMMA LastMessage ==
  ASSUME NEW input \in Seq(Message), NEW n \in 1..Len(input), n = Len(input)
  PROVE  Chars(Latest(input, n)) = input[n].chars
  <1> DEFINE m == Latest(input, n)
  <1>1. m \in Seq(Message) /\ Len(m) = 1 /\ m[1] = input[n]
    <2>1. Len(m) = Len(input) - n + 1 /\ m \in Seq(Message) /\ m[1] = input[n]
      BY EndMessages, Zenon
    <2>2. n \in Nat
      OBVIOUS
    <2> HIDE DEF m
    <2> QED
      BY <2>1, <2>2
  <1> HIDE DEF m
  <1>2. DOMAIN m = {1}
    BY <1>1
  <1>3. {1} \in Places(m) /\ 1 \in {1} /\ {1} \ {1} = {}
    BY <1>2 DEF Places
  <1>4. Cardinality(Characters(m, {1})) = Cardinality(Characters(m, {})) + m[1].chars
    BY <1>1, <1>3, OneMessage
  <1>5. Cardinality(Characters(m, {})) = 0
    BY FS_EmptySet DEF Characters
  <1>6. m[1].chars \in Nat
    BY <1>1, <1>2, MessageAt
  <1>7. Chars(m) = m[1].chars
    BY <1>1, <1>2, <1>4, <1>5, <1>6, CharsCount
  <1> QED
    BY <1>1, <1>7 DEF m

(* Where the loop is left from the next round on, it is left from here on. *)
LEMMA NextRound ==
  ASSUME NEW input \in Seq(Message), NEW first \in 1..Len(input)
  PROVE  /\ Stops(input, first) # {} /\ Stops(input, first) \in SUBSET Nat
         /\ Stays(input, first) => first \in Stops(input, first)
         /\ ~Stays(input, first) =>
              LET next == first + RemoveCount(Latest(input, first))
              IN  /\ next \in 1..Len(input) /\ next > first
                  /\ Stops(input, next) = Stops(input, first)
  <1> DEFINE n == Len(input)
             next == first + RemoveCount(Latest(input, first))
  <1>1. n \in Nat /\ n \in 1..n /\ Len(Latest(input, n)) = 1
    <2>1. n \in Nat /\ n \in 1..n
      OBVIOUS
    <2>2. Len(Latest(input, n)) = n - n + 1
      BY <2>1, EndMessages
    <2> QED
      BY <2>1, <2>2
  <1>2. Stays(input, n)
    BY <1>1 DEF Stays
  <1>3. Stops(input, first) # {} /\ Stops(input, first) \in SUBSET Nat
    BY <1>1, <1>2 DEF Stops
  <1>4. Stays(input, first) => first \in Stops(input, first)
    BY <1>1 DEF Stops
  <1>5. ASSUME ~Stays(input, first)
        PROVE  next \in 1..n /\ next > first /\ Stops(input, next) = Stops(input, first)
    <2>1. Len(Latest(input, first)) = n - first + 1 /\ n - first + 1 > 1
      BY <1>5, EndMessages DEF Stays
    <2>2. CASE first = n - 1
      <3>1. next = n
        BY <1>1, <2>1, <2>2 DEF RemoveCount
      <3>2. Stops(input, n) = {n} /\ Stops(input, first) = {n}
        BY <1>1, <1>2, <1>5, <2>2 DEF Stops
      <3> HIDE DEF next
      <3> QED
        BY <1>1, <2>2, <3>1, <3>2
    <2>3. CASE first < n - 1
      <3>1. next = first + 2 /\ next \in 1..n
        BY <1>1, <2>1, <2>3 DEF RemoveCount
      <3>2. ASSUME NEW s \in first..n, (s - first) % 2 = 0 \/ s = n, Stays(input, s)
            PROVE  s \in next..n /\ ((s - next) % 2 = 0 \/ s = n)
        <4>1. s # first
          BY <1>5, <3>2
        <4>2. s # first + 1
          BY <2>3, <3>2, <1>1
        <4> QED
          BY <1>1, <3>1, <3>2, <4>1, <4>2
      <3>3. ASSUME NEW s \in next..n, (s - next) % 2 = 0 \/ s = n
            PROVE  s \in first..n /\ ((s - first) % 2 = 0 \/ s = n)
        BY <1>1, <3>1, <3>3
      <3> HIDE DEF next
      <3>4. Stops(input, next) = Stops(input, first)
        BY <3>2, <3>3 DEF Stops
      <3> QED
        BY <3>1, <3>4
    <2> QED
      BY <1>1, <2>1, <2>2, <2>3
  <1> QED
    BY <1>3, <1>4, <1>5

(* The loop ends: it leaves what begins at the first of its stops.         *)
LEMMA LoopEnds ==
  ASSUME NEW input \in Seq(Message)
  PROVE  Loop(input, [first \in 1..Len(input) |-> Latest(input, Min(Stops(input, first)))])
  <1> DEFINE kept == [first \in 1..Len(input) |-> Latest(input, Min(Stops(input, first)))]
  <1>1. ASSUME NEW first \in 1..Len(input)
        PROVE  kept[first] = IF Stays(input, first) THEN Latest(input, first)
                             ELSE kept[first + RemoveCount(Latest(input, first))]
    <2> DEFINE next == first + RemoveCount(Latest(input, first))
    <2>1. kept[first] = Latest(input, Min(Stops(input, first)))
      OBVIOUS
    <2>2. CASE Stays(input, first)
      <3>1. first \in Stops(input, first) /\ Stops(input, first) \in SUBSET Nat
        BY <2>2, NextRound
      <3>2. /\ Min(Stops(input, first)) \in Stops(input, first)
            /\ \A s \in Stops(input, first) : Min(Stops(input, first)) <= s
        BY <3>1, EarliestTime
      <3>3. \A s \in Stops(input, first) : s \in Nat /\ first <= s
        BY DEF Stops
      <3>4. Min(Stops(input, first)) = first
        BY <3>1, <3>2, <3>3
      <3> QED
        BY <2>1, <2>2, <3>4
    <2>3. CASE ~Stays(input, first)
      <3>1. next \in 1..Len(input) /\ Stops(input, next) = Stops(input, first)
        BY <2>3, NextRound
      <3> HIDE DEF next
      <3>2. kept[next] = Latest(input, Min(Stops(input, next)))
        BY <3>1
      <3>3. kept[first] = kept[next]
        BY <2>1, <3>1, <3>2
      <3> QED
        BY <2>3, <3>3 DEF next
    <2> QED
      BY <2>2, <2>3
  <1>2. kept = [first \in 1..Len(input) |-> kept[first]]
    OBVIOUS
  <1> HIDE DEF kept
  <1>3. Loop(input, kept)
    BY <1>1, <1>2, Zenon DEF Loop
  <1> QED
    BY <1>3 DEF kept

(* What is sent begins at the first odd place from which the loop stays.   *)
LEMMA FirstStop ==
  ASSUME NEW input \in Seq(Message), Len(input) > 0
  PROVE  LET s == Min(Stops(input, 1))
         IN  /\ s \in Stops(input, 1) /\ Rest(input) = Latest(input, s)
             /\ \A t \in Stops(input, 1) : s <= t
  <1> DEFINE from == CHOOSE from : Loop(input, from)
             Left(first) == Latest(input, Min(Stops(input, first)))
             Wrong == {n \in Nat : \E first \in 1..Len(input) :
                         n = Len(input) - first /\ from[first] # Left(first)}
  <1>1. Loop(input, from)
    BY LoopEnds, Zenon
  <1>2. 1 \in 1..Len(input)
    OBVIOUS
  <1> HIDE DEF from
  <1>3. ASSUME Wrong # {} PROVE FALSE
    <2>1. Min(Wrong) \in Wrong /\ \A n \in Wrong : Min(Wrong) <= n
      BY <1>3, EarliestTime
    <2>2. PICK first \in 1..Len(input) :
            Min(Wrong) = Len(input) - first /\ from[first] # Left(first)
      BY <2>1
    <2> DEFINE next == first + RemoveCount(Latest(input, first))
    <2>3. from[first] = IF Stays(input, first) THEN Latest(input, first) ELSE from[next]
      BY <1>1 DEF Loop
    <2>4. [f \in 1..Len(input) |-> Left(f)][first]
            = IF Stays(input, first) THEN Latest(input, first)
              ELSE [f \in 1..Len(input) |-> Left(f)][next]
      BY LoopEnds, Zenon DEF Loop
    <2>5. ~Stays(input, first)
      BY <2>2, <2>3, <2>4
    <2>6. next \in 1..Len(input) /\ next > first
      BY <2>5, NextRound
    <2> HIDE DEF next
    <2>7. from[next] # Left(next)
      BY <2>2, <2>3, <2>4, <2>5, <2>6
    <2>8. Len(input) - next \in Wrong /\ Len(input) - next < Len(input) - first
      BY <2>6, <2>7
    <2> QED
      BY <2>1, <2>2, <2>6, <2>8
  <1>4. from[1] = Left(1)
    <2>1. Len(input) - 1 \in Nat
      OBVIOUS
    <2> HIDE DEF Left
    <2> QED
      BY <1>2, <1>3, <2>1
  <1>5. Rest(input) = Latest(input, Min(Stops(input, 1)))
    BY <1>4, RestByLoop DEF from
  <1>6. /\ Min(Stops(input, 1)) \in Stops(input, 1)
        /\ \A t \in Stops(input, 1) : Min(Stops(input, 1)) <= t
    BY <1>2, NextRound, EarliestTime
  <1> QED
    BY <1>5, <1>6

LEMMA LongestEnds ==
  ASSUME NEW input \in Conversations
  PROVE  IsLongestEnd(input)
  <1> SUFFICES ASSUME Conversation(input)
               PROVE  /\ Accepted(input)
                      /\ \E first \in Fitting(input) :
                           /\ \A other \in Fitting(input) : first <= other
                           /\ Rest(input) = SubSeq(input, first, Len(input))
    BY DEF IsLongestEnd
  <1> DEFINE n == Len(input)
             s == Min(Stops(input, 1))
  <1>1. input \in Seq(Message)
    BY HistoryAssumption DEF Message
  <1>2. n \in Nat /\ n \in 1..n /\ n > 0 /\ DOMAIN input = 1..n
    <2>1. Len(input) \in Nat /\ DOMAIN input = 1..Len(input)
      BY <1>1
    <2> QED
      BY <2>1, HistoryAssumption DEF Conversation
  <1>3. \A i \in 1..n : input[i].role = IF i % 2 = 1 THEN "user" ELSE "assistant"
    BY <1>2 DEF Conversation
  <1>4. n % 2 = 1 /\ input[n].chars <= MaxQuestionChars
    <2>1. Last(input) = input[n]
      BY DEF Last
    <2> QED
      BY <1>2, <1>3, <2>1 DEF Conversation
  <1>5. Chars(Latest(input, n)) <= MaxHistoryChars
    <2>1. Chars(Latest(input, n)) = input[n].chars /\ input[n].chars \in Nat
      BY <1>1, <1>2, LastMessage, MessageAt
    <2> QED
      BY <1>4, <2>1, HistoryAssumption
  <1>6. ASSUME NEW t \in 1..n
        PROVE  /\ input[t].role = "user" <=> t % 2 = 1
               /\ Stays(input, t) <=> Chars(Latest(input, t)) <= MaxHistoryChars
    <2>1. input[t].role = "user" <=> t % 2 = 1
      BY <1>3
    <2>2. Latest(input, t) \in Seq(Message) /\ Len(Latest(input, t)) = n - t + 1
      BY <1>1, EndMessages
    <2>3. Chars(Latest(input, t)) \in Nat
      BY <2>2, CharsCount
    <2>8. n - t + 1 > 1 <=> t # n
      <3>1. t \in Nat /\ t <= n /\ n \in Nat
        BY <1>2
      <3> HIDE DEF n
      <3> QED
        BY <3>1
    <2>4. Len(Latest(input, t)) > 1 <=> t # n
      BY <2>2, <2>8
    <2>5. MaxHistoryChars \in Nat
      BY HistoryAssumption
    <2>6. CASE t = n
      BY <1>5, <2>1, <2>4, <2>6 DEF Stays
    <2>7. CASE t # n
      <3>1. Stays(input, t) <=> ~(Chars(Latest(input, t)) > MaxHistoryChars)
        BY <2>4, <2>7 DEF Stays
      <3> QED
        BY <2>1, <2>3, <2>5, <3>1
    <2> QED
      BY <2>6, <2>7
  <1>7. Stops(input, 1) = Fitting(input)
    <2>1. ASSUME NEW t \in 1..n
          PROVE  (t - 1) % 2 = 0 \/ t = n <=> input[t].role = "user"
      <3>1. (t - 1) % 2 = 0 <=> t % 2 = 1
        BY <1>2
      <3>2. t = n => t % 2 = 1
        BY <1>4
      <3> QED
        BY <1>6, <3>1, <3>2
    <2>2. Stops(input, 1) = {t \in 1..n : ((t - 1) % 2 = 0 \/ t = n) /\ Stays(input, t)}
      BY Zenon DEF Stops
    <2>3. Fitting(input) =
            {t \in 1..n : input[t].role = "user" /\ Chars(Latest(input, t)) <= MaxHistoryChars}
      BY Zenon DEF Fitting, Latest
    <2> QED
      BY <1>6, <2>1, <2>2, <2>3, Zenon
  <1>8. s \in Fitting(input) /\ Rest(input) = Latest(input, s) /\ \A t \in Fitting(input) : s <= t
    BY <1>1, <1>2, <1>7, FirstStop
  <1> HIDE DEF s
  <1>9. Accepted(input)
    BY <1>8 DEF Accepted, Fitting, Latest
  <1> QED
    BY <1>8, <1>9 DEF Latest

(* Every conversation of the right form is accepted, whatever its length   *)
(* and that of its turns, and what the chat sends of it is the longest end *)
(* that begins with a question and fits (normalizeMessages).               *)
THEOREM LongestWindow == StreamSpec => []WindowIsLongest
  <1>1. WindowIsLongest
    BY LongestEnds DEF WindowIsLongest
  <1> QED
    BY <1>1, PTL
=============================================================================
