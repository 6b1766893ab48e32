----------------------------- MODULE ParseWorker -----------------------------
(***************************************************************************)
(* The asynchronous half of the parse pipeline: the worker processes       *)
(* (internal/worker/parsejob) between the Redis stream with its consumer   *)
(* group (pkg/cache) and the parse_jobs and parse_results tables.          *)
(*                                                                         *)
(* Every consume loop and every reclaim loop of a worker process is a      *)
(* goroutine with its own program counter; one step is one call to         *)
(* PostgreSQL, to Redis or to the parser.  A reconcile loop is the pair    *)
(* todo, touching of its process.  The requests of the API are atomic here *)
(* (ParseApi models their transactions), except that what they publish is  *)
(* published in a later step.                                              *)
(*                                                                         *)
(* Time is not counted.  A claim is stamped with its ordinal, and what the *)
(* code decides by comparing clocks is a set that a time step adds to:     *)
(* leaseExpired (started_at older than LeaseTimeout), due (updated_at      *)
(* older than PendingGrace) and idle (delivered more than LeaseTimeout     *)
(* ago).  The clocks of the worker hosts are assumed to agree.             *)
(***************************************************************************)
EXTENDS Integers, Sequences, FiniteSets

CONSTANTS
  Documents, Jobs, None, MaxRecoveries,   \* as in ParseJobLifecycle
  Messages,       \* bound: identifiers of the stream entries alive at once
  Workers,        \* worker processes
  Consumers,      \* consume loops, of all processes
  Reclaimers,     \* reclaim loops, of all processes
  WorkerOf,       \* the process a loop runs in
  MaxRetries,     \* bound: user retries of one job
  MaxFaults,      \* bound: failures in one behaviour
  MaxLate         \* bound: abandoned statements the database may still run

Goroutines == Consumers \cup Reclaimers

ASSUME ParseWorkerAssumption ==
  /\ None \notin Documents \cup Jobs \cup Messages
  /\ IsFiniteSet(Goroutines) /\ WorkerOf \in [Goroutines -> Workers]
  /\ {MaxRecoveries, MaxRetries, MaxFaults, MaxLate} \subseteq Nat

VARIABLES
  (* PostgreSQL *)
  document, status, document_id, retry_count, results,
  started_at,     \* started_at[j]: ordinal of the claim that runs j, 0 for NULL
  claims,         \* claims[j]: how often j was claimed (the clock of started_at)
  recoveries,     \* history: how often a reclaim loop put j back to pending
  (* what the clocks say *)
  leaseExpired, due, idle,
  (* Redis *)
  stream,         \* entries not yet delivered to the group, oldest first
  pel,            \* entries delivered and not acknowledged
  job_id,         \* job_id[m]: the payload of entry m
  (* goroutines *)
  pc,             \* where the loop stands
  inbox,          \* messages a Read or a ClaimStale returned, still to handle
  msg,            \* the message handleMessage is working on
  claimed,        \* whether the claim of this handler changed the row
  stale,          \* reclaim loop: rows its list query returned, still to treat
  recovered,      \* reclaim loop: the job it reset and has to publish
  todo,           \* reconcile loop: jobs its list query returned
  touching,       \* reconcile loop: the job it published and has to touch
  (* environment *)
  unpublished,    \* jobs an API request committed and has yet to publish
  late,           \* statements of handlers that gave up, still in the database
  faults          \* failures so far

rows       == <<document, status, document_id, retry_count, results>>
claimVars  == <<started_at, claims, leaseExpired>>
streamVars == <<stream, pel, job_id, idle>>
handlers   == <<pc, inbox, msg, claimed>>
sweepVars  == <<stale, recovered>>
reconVars  == <<todo, touching>>
envVars    == <<unpublished, late, faults>>
vars == <<rows, claimVars, recoveries, due, streamVars, handlers, sweepVars,
          reconVars, envVars>>

\* The tables are those of the contract: the other variables are hidden.
Contract == INSTANCE ParseJobLifecycle WITH
  Documents <- Documents, Jobs <- Jobs, None <- None, MaxRecoveries <- MaxRecoveries,
  document <- document, status <- status, document_id <- document_id,
  retry_count <- retry_count, results <- results

StaleRow == [job : Jobs, retry_count : Nat, started_at : Nat]
Statement == {"complete", "fail"} \X Jobs

\* Points of handleMessage: waiting for a process slot, then the calls in turn.
Handling == {"claim", "reload", "load", "parse", "complete", "fail", "ack"}
PC == {"idle", "slot", "recover", "republish"} \cup Handling

TypeOK ==
  /\ Contract!TypeOK
  /\ started_at \in [Jobs -> Nat] /\ claims \in [Jobs -> Nat]
  /\ recoveries \in [Jobs -> Nat]
  /\ leaseExpired \subseteq Jobs /\ due \subseteq Jobs /\ idle \subseteq Messages
  /\ stream \in Seq(Messages) /\ pel \subseteq Messages
  /\ job_id \in [Messages -> Jobs \cup {None}]
  /\ pc \in [Goroutines -> PC]
  /\ inbox \in [Goroutines -> SUBSET Messages]
  /\ msg \in [Goroutines -> Messages \cup {None}]
  /\ claimed \in [Goroutines -> BOOLEAN]
  /\ stale \in [Reclaimers -> SUBSET StaleRow]
  /\ recovered \in [Reclaimers -> Jobs \cup {None}]
  /\ todo \in [Workers -> SUBSET Jobs]
  /\ touching \in [Workers -> Jobs \cup {None}]
  /\ unpublished \subseteq Jobs /\ late \subseteq Statement /\ faults \in Nat

Init ==
  /\ Contract!Init
  /\ started_at = [j \in Jobs |-> 0] /\ claims = [j \in Jobs |-> 0]
  /\ recoveries = [j \in Jobs |-> 0]
  /\ leaseExpired = {} /\ due = {} /\ idle = {}
  /\ stream = <<>> /\ pel = {} /\ job_id = [m \in Messages |-> None]
  /\ pc = [g \in Goroutines |-> "idle"]
  /\ inbox = [g \in Goroutines |-> {}]
  /\ msg = [g \in Goroutines |-> None]
  /\ claimed = [g \in Goroutines |-> FALSE]
  /\ stale = [r \in Reclaimers |-> {}]
  /\ recovered = [r \in Reclaimers |-> None]
  /\ todo = [w \in Workers |-> {}] /\ touching = [w \in Workers |-> None]
  /\ unpublished = {} /\ late = {} /\ faults = 0

-----------------------------------------------------------------------------
(* Failures: every lost call, crash or expiry spends one of MaxFaults. *)
NoFault == UNCHANGED faults
Fault   == faults < MaxFaults /\ faults' = faults + 1

(* An entry identifier is reused only once Redis and every loop forgot it. *)
InUse(m) ==
  \/ \E i \in 1..Len(stream) : stream[i] = m
  \/ m \in pel
  \/ \E g \in Goroutines : m \in inbox[g] \/ msg[g] = m
Free == {m \in Messages : ~InUse(m)}

(* XADD: the entry joins the stream.  The call is lost when it fails, and  *)
(* when the bounded pool of identifiers is exhausted.                      *)
Added(j) ==
  \E m \in Free :
    /\ stream' = Append(stream, m)
    /\ job_id' = [job_id EXCEPT ![m] = j]
    /\ UNCHANGED <<pel, idle>>
PublishOk(j)   == Added(j) /\ NoFault
PublishLost(j) == UNCHANGED streamVars /\ (Fault \/ (Free = {} /\ NoFault))
Publish(j)     == PublishOk(j) \/ PublishLost(j)

(* The three conditional updates a worker makes to a row of parse_jobs. *)
MarkProcessing(j) ==
  /\ status' = [status EXCEPT ![j] = "processing"]
  /\ claims' = [claims EXCEPT ![j] = @ + 1]
  /\ started_at' = [started_at EXCEPT ![j] = claims[j] + 1]
  /\ leaseExpired' = leaseExpired \ {j} /\ due' = due \ {j}
  /\ UNCHANGED <<document, document_id, retry_count, results, recoveries>>

MarkFailed(j) ==
  /\ status' = [status EXCEPT ![j] = "failed"]
  /\ leaseExpired' = leaseExpired \ {j}
  /\ UNCHANGED <<document, document_id, retry_count, results, started_at,
                 claims, recoveries, due>>

(* The transaction of completeJob: insert the result, then update the job. *)
MarkSuccess(j) ==
  /\ status' = [status EXCEPT ![j] = "success"]
  /\ results' = results \cup {j}
  /\ leaseExpired' = leaseExpired \ {j}
  /\ UNCHANGED <<document, document_id, retry_count, started_at, claims,
                 recoveries, due>>

CanFail(j)     == status[j] = "processing"
CanComplete(j) == j \notin results /\ status[j] = "processing"

tables == <<rows, claimVars, recoveries, due>>

-----------------------------------------------------------------------------
(* Requests of the API.  Each commits, then publishes in a step of its own. *)

Create(j, d) ==
  /\ Contract!Create(j, d)
  /\ unpublished' = unpublished \cup {j}
  /\ UNCHANGED <<claimVars, recoveries, due, streamVars, handlers, sweepVars,
                 reconVars, late, faults>>

Retry(j) ==
  /\ retry_count[j] - recoveries[j] < MaxRetries
  /\ Contract!Retry(j)
  /\ started_at' = [started_at EXCEPT ![j] = 0]
  /\ unpublished' = unpublished \cup {j}
  /\ UNCHANGED <<claims, leaseExpired, recoveries, due, streamVars, handlers,
                 sweepVars, reconVars, late, faults>>

Delete(d) ==
  /\ Contract!Delete(d)
  /\ UNCHANGED <<claimVars, recoveries, due, streamVars, handlers, sweepVars,
                 reconVars, envVars>>

PublishCommitted(j) ==
  /\ j \in unpublished
  /\ unpublished' = unpublished \ {j}
  /\ Publish(j)
  /\ UNCHANGED <<tables, handlers, sweepVars, reconVars, late>>

-----------------------------------------------------------------------------
(* handleMessage, the same for consume loops and reclaim loops. *)

Job(g) == job_id[msg[g]]
Goto(g, label) == pc' = [pc EXCEPT ![g] = label]

\* The loop leaves handleMessage: next message of its batch, or back to waiting.
Release(g) ==
  /\ Goto(g, IF inbox[g] = {} THEN "idle" ELSE "slot")
  /\ msg' = [msg EXCEPT ![g] = None]
  /\ claimed' = [claimed EXCEPT ![g] = FALSE]
  /\ UNCHANGED inbox

Step(g, from, to) ==
  /\ pc[g] = from /\ Goto(g, to)
  /\ UNCHANGED <<inbox, msg, claimed>>

\* processSlots is buffered with one slot per consume loop of the process.
SlotFree(w) ==
  Cardinality({g \in Goroutines : WorkerOf[g] = w /\ pc[g] \in Handling})
    < Cardinality({c \in Consumers : WorkerOf[c] = w})

AcquireSlot(g) ==
  /\ pc[g] = "slot"
  /\ SlotFree(WorkerOf[g])
  /\ \E m \in inbox[g] :
       /\ msg' = [msg EXCEPT ![g] = m]
       /\ inbox' = [inbox EXCEPT ![g] = @ \ {m}]
  /\ Goto(g, "claim")
  /\ UNCHANGED <<tables, streamVars, claimed, sweepVars, reconVars, envVars>>

\* The conditional UPDATE of claimJob; its reply says how many rows changed.
ClaimTx(j) ==
  IF status[j] = "pending" THEN MarkProcessing(j) ELSE UNCHANGED tables

\* Mutant: claimJob does not look at the number of rows it changed.
ClaimJobUnchecked(g) ==
  /\ pc[g] = "claim"
  /\ ClaimTx(Job(g))
  /\ claimed' = [claimed EXCEPT ![g] = TRUE]
  /\ Goto(g, "reload")
  /\ UNCHANGED <<streamVars, inbox, msg, sweepVars, reconVars, envVars>>

ClaimJob(g) ==
  /\ pc[g] = "claim"
  /\ ClaimTx(Job(g))
  /\ claimed' = [claimed EXCEPT ![g] = status[Job(g)] = "pending"]
  /\ Goto(g, "reload")
  /\ UNCHANGED <<streamVars, inbox, msg, sweepVars, reconVars, envVars>>

\* The UPDATE is applied and its reply lost: the handler sees an error.
ClaimReplyLost(g) ==
  /\ pc[g] = "claim"
  /\ ClaimTx(Job(g))
  /\ Release(g)
  /\ Fault
  /\ UNCHANGED <<streamVars, sweepVars, reconVars, unpublished, late>>

\* Mutant: processJob forgets that "failed" is terminal.
ReloadSuccessOnly(g) ==
  /\ pc[g] = "reload"
  /\ \/ claimed[g] /\ Step(g, "reload", "load")
     \/ /\ ~claimed[g] /\ status[Job(g)] = "success"
        /\ Step(g, "reload", "ack")
     \/ /\ ~claimed[g] /\ status[Job(g)] # "success"
        /\ Release(g)
  /\ UNCHANGED <<tables, streamVars, sweepVars, reconVars, envVars>>

\* The SELECT that follows sees the row as it is by now.
Reload(g) ==
  /\ pc[g] = "reload"
  /\ \/ claimed[g] /\ Step(g, "reload", "load")
     \/ /\ ~claimed[g] /\ status[Job(g)] \in {"success", "failed"}
        /\ Step(g, "reload", "ack")
     \/ /\ ~claimed[g] /\ status[Job(g)] \notin {"success", "failed"}
        /\ Release(g)
  /\ UNCHANGED <<tables, streamVars, sweepVars, reconVars, envVars>>

LoadDocument(g) ==
  /\ pc[g] = "load"
  /\ IF document[document_id[Job(g)]] = "ready"
       THEN Step(g, "load", "parse")
       ELSE Step(g, "load", "fail")
  /\ UNCHANGED <<tables, streamVars, sweepVars, reconVars, envVars>>

\* A database error here is treated like a document that is gone.
LoadError(g) ==
  /\ Step(g, "load", "fail") /\ Fault
  /\ UNCHANGED <<tables, streamVars, sweepVars, reconVars, unpublished, late>>

\* The text is blank or the parser fails, or the parser returns a document.
Parse(g) ==
  /\ Step(g, "parse", "fail") \/ Step(g, "parse", "complete")
  /\ UNCHANGED <<tables, streamVars, sweepVars, reconVars, envVars>>

CompleteTx(j) == IF CanComplete(j) THEN MarkSuccess(j) ELSE UNCHANGED tables
FailTx(j)     == IF CanFail(j) THEN MarkFailed(j) ELSE UNCHANGED tables

CompleteJob(g) ==
  /\ pc[g] = "complete"
  /\ CompleteTx(Job(g))
  /\ IF CanComplete(Job(g)) THEN Step(g, "complete", "ack") ELSE Release(g)
  /\ UNCHANGED <<streamVars, sweepVars, reconVars, envVars>>

FailJob(g) ==
  /\ pc[g] = "fail"
  /\ FailTx(Job(g))
  /\ IF CanFail(Job(g)) THEN Step(g, "fail", "ack") ELSE Release(g)
  /\ UNCHANGED <<streamVars, sweepVars, reconVars, envVars>>

\* The last write is applied and its reply lost: nothing is acknowledged.
EndReplyLost(g) ==
  /\ \/ pc[g] = "complete" /\ CompleteTx(Job(g))
     \/ pc[g] = "fail" /\ FailTx(Job(g))
  /\ Release(g)
  /\ Fault
  /\ UNCHANGED <<streamVars, sweepVars, reconVars, unpublished, late>>

\* XACK; the entry leaves the group whoever holds it now.
Ack(g) ==
  /\ pc[g] = "ack"
  /\ pel' = pel \ {msg[g]} /\ idle' = idle \ {msg[g]}
  /\ Release(g)
  /\ UNCHANGED <<tables, stream, job_id, sweepVars, reconVars, envVars>>

\* What handler g has sent to the database and may leave there.
Sent(g) == IF pc[g] \in {"complete", "fail"} THEN {<<pc[g], Job(g)>>} ELSE {}

\* The context of the job ends (LeaseTimeout after handleMessage created it),
\* or a call fails: every later call with that context fails too, so the
\* handler returns without acknowledging.
GiveUp(g) ==
  /\ pc[g] \in Handling
  /\ \/ UNCHANGED late
     \/ late' = late \cup Sent(g) /\ Cardinality(late') <= MaxLate
  /\ Release(g)
  /\ Fault
  /\ UNCHANGED <<tables, streamVars, sweepVars, reconVars, unpublished>>

\* The database runs a statement whose client is gone.
RunLate(s) ==
  /\ s \in late
  /\ late' = late \ {s}
  /\ IF s[1] = "complete" THEN CompleteTx(s[2]) ELSE FailTx(s[2])
  /\ UNCHANGED <<streamVars, handlers, sweepVars, reconVars, unpublished, faults>>

-----------------------------------------------------------------------------
(* consumeLoop: XREADGROUP COUNT 1 of the entries nobody received yet. *)
Deliver(c) ==
  /\ pc[c] = "idle" /\ stream # <<>>
  /\ stream' = Tail(stream)
  /\ pel' = pel \cup {Head(stream)}
  /\ UNCHANGED <<job_id, idle>>

Read(c) ==
  /\ Deliver(c)
  /\ inbox' = [inbox EXCEPT ![c] = {Head(stream)}]
  /\ Goto(c, "slot")
  /\ UNCHANGED <<tables, msg, claimed, sweepVars, reconVars, envVars>>

\* Redis delivered the entry and the reply was lost.
ReadReplyLost(c) ==
  /\ Deliver(c)
  /\ Fault
  /\ UNCHANGED <<tables, handlers, sweepVars, reconVars, unpublished, late>>

-----------------------------------------------------------------------------
(* reclaimLoop: recoverStaleJobs, then ClaimStale, then its messages. *)

\* Mutant: the list query has no cutoff.
ListStaleNoCutoff(r) ==
  /\ pc[r] = "idle"
  /\ stale' = [stale EXCEPT ![r] =
       {[job |-> j, retry_count |-> retry_count[j], started_at |-> started_at[j]] :
          j \in {i \in Jobs : status[i] = "processing"}}]
  /\ Goto(r, "recover")
  /\ UNCHANGED <<tables, streamVars, inbox, msg, claimed, recovered, reconVars,
                 envVars>>

\* The list query of recoverStaleJobs, with cutoff = now - LeaseTimeout.
ListStale(r) ==
  /\ pc[r] = "idle"
  /\ stale' = [stale EXCEPT ![r] =
       {[job |-> j, retry_count |-> retry_count[j], started_at |-> started_at[j]] :
          j \in {i \in leaseExpired : status[i] = "processing"}}]
  /\ Goto(r, "recover")
  /\ UNCHANGED <<tables, streamVars, inbox, msg, claimed, recovered, reconVars,
                 envVars>>

\* Mutant: the UPDATE does not repeat the cutoff.
StillStaleAnyClaim(row) == status[row.job] = "processing"

\* WHERE status = 'processing' AND started_at < cutoff, cutoff being the one
\* of the list query: the row was not claimed again since.
StillStale(row) ==
  /\ status[row.job] = "processing"
  /\ started_at[row.job] <= row.started_at

RecoverExhausted(r, row) ==
  /\ pc[r] = "recover" /\ row \in stale[r]
  /\ row.retry_count >= MaxRecoveries
  /\ IF StillStale(row) THEN MarkFailed(row.job) ELSE UNCHANGED tables
  /\ stale' = [stale EXCEPT ![r] = @ \ {row}]
  /\ UNCHANGED <<streamVars, handlers, recovered, reconVars, envVars>>

\* Mutant: a status the tables do not know.
ResetUnknownStatus(row) ==
  /\ status' = [status EXCEPT ![row.job] = "queued"]
  /\ retry_count' = [retry_count EXCEPT ![row.job] = row.retry_count + 1]
  /\ started_at' = [started_at EXCEPT ![row.job] = 0]
  /\ recoveries' = [recoveries EXCEPT ![row.job] = @ + 1]
  /\ leaseExpired' = leaseExpired \ {row.job}
  /\ UNCHANGED <<document, document_id, results, claims, due>>

Reset(row) ==
  /\ status' = [status EXCEPT ![row.job] = "pending"]
  /\ retry_count' = [retry_count EXCEPT ![row.job] = row.retry_count + 1]
  /\ started_at' = [started_at EXCEPT ![row.job] = 0]
  /\ recoveries' = [recoveries EXCEPT ![row.job] = @ + 1]
  /\ leaseExpired' = leaseExpired \ {row.job}
  /\ UNCHANGED <<document, document_id, results, claims, due>>

\* Mutant: the limit is off by one.
RecoverStaleOnceMore(r, row) ==
  /\ pc[r] = "recover" /\ row \in stale[r]
  /\ row.retry_count <= MaxRecoveries
  /\ stale' = [stale EXCEPT ![r] = @ \ {row}]
  /\ \/ /\ StillStale(row)
        /\ Reset(row)
        /\ recovered' = [recovered EXCEPT ![r] = row.job]
        /\ Step(r, "recover", "republish")
     \/ /\ ~StillStale(row)
        /\ UNCHANGED <<tables, recovered, handlers>>
  /\ UNCHANGED <<streamVars, reconVars, envVars>>

RecoverStale(r, row) ==
  /\ pc[r] = "recover" /\ row \in stale[r]
  /\ row.retry_count < MaxRecoveries
  /\ stale' = [stale EXCEPT ![r] = @ \ {row}]
  /\ \/ /\ StillStale(row)
        /\ Reset(row)
        /\ recovered' = [recovered EXCEPT ![r] = row.job]
        /\ Step(r, "recover", "republish")
     \/ /\ ~StillStale(row)
        /\ UNCHANGED <<tables, recovered, handlers>>
  /\ UNCHANGED <<streamVars, reconVars, envVars>>

Republish(r) ==
  /\ Step(r, "republish", "recover")
  /\ Publish(recovered[r])
  /\ recovered' = [recovered EXCEPT ![r] = None]
  /\ UNCHANGED <<tables, stale, reconVars, unpublished, late>>

\* XAUTOCLAIM from 0-0: every entry idle for LeaseTimeout, as one batch.
ClaimStale(r) ==
  /\ pc[r] = "recover" /\ stale[r] = {}
  /\ inbox' = [inbox EXCEPT ![r] = idle]
  /\ idle' = {}
  /\ Goto(r, IF idle = {} THEN "idle" ELSE "slot")
  /\ UNCHANGED <<tables, stream, pel, job_id, msg, claimed, sweepVars, reconVars,
                 envVars>>

\* A query of recoverStaleJobs fails: it returns, and ClaimStale goes on.
RecoverError(r) ==
  /\ pc[r] = "recover" /\ stale[r] # {} /\ Fault
  /\ stale' = [stale EXCEPT ![r] = {}]
  /\ UNCHANGED <<tables, streamVars, handlers, recovered, reconVars,
                 unpublished, late>>

\* XAUTOCLAIM fails, perhaps after moving the entries to this consumer.
ClaimStaleError(r) ==
  /\ pc[r] = "recover" /\ stale[r] = {} /\ Fault
  /\ idle' \in {idle, {}}
  /\ Goto(r, "idle")
  /\ UNCHANGED <<tables, stream, pel, job_id, inbox, msg, claimed, sweepVars,
                 reconVars, unpublished, late>>

-----------------------------------------------------------------------------
(* reconcileLoop: reconcilePendingJobs. *)

\* Mutant: only jobs that some worker claimed before are published again.
ListDueClaimed(w) ==
  /\ todo[w] = {} /\ due # {}
  /\ todo' = [todo EXCEPT ![w] = {j \in due : claims[j] > 0}]
  /\ UNCHANGED <<tables, streamVars, handlers, sweepVars, touching, envVars>>

ListDue(w) ==
  /\ todo[w] = {} /\ due # {}
  /\ todo' = [todo EXCEPT ![w] = due]
  /\ UNCHANGED <<tables, streamVars, handlers, sweepVars, touching, envVars>>

\* A failed publish ends the round.
ReconcilePublish(w, j) ==
  /\ touching[w] = None /\ j \in todo[w]
  /\ \/ /\ PublishOk(j)
        /\ touching' = [touching EXCEPT ![w] = j] /\ UNCHANGED todo
     \/ /\ PublishLost(j)
        /\ todo' = [todo EXCEPT ![w] = {}] /\ UNCHANGED touching
  /\ UNCHANGED <<tables, handlers, sweepVars, unpublished, late>>

\* updated_at = now, unless the row was updated since the list query.
ReconcileTouch(w) ==
  /\ touching[w] # None
  /\ due' \in {due, due \ {touching[w]}}
  /\ todo' = [todo EXCEPT ![w] = @ \ {touching[w]}]
  /\ touching' = [touching EXCEPT ![w] = None]
  /\ UNCHANGED <<rows, claimVars, recoveries, streamVars, handlers, sweepVars,
                 envVars>>

\* The update fails: the round ends and the job stays due.
ReconcileError(w) ==
  /\ touching[w] # None /\ Fault
  /\ todo' = [todo EXCEPT ![w] = {}]
  /\ touching' = [touching EXCEPT ![w] = None]
  /\ UNCHANGED <<tables, streamVars, handlers, sweepVars, unpublished, late>>

-----------------------------------------------------------------------------
(* Time, crashes and losses. *)

\* The handler whose claim runs job j, with a context that has not ended.
Running(g, j) == pc[g] \in Handling /\ claimed[g] /\ Job(g) = j

\* Mutant: the context of a handler outlives the lease of its claim.
LeaseExpiresEarly(j) ==
  /\ status[j] = "processing" /\ j \notin leaseExpired
  /\ leaseExpired' = leaseExpired \cup {j}
  /\ UNCHANGED <<rows, started_at, claims, recoveries, due, streamVars, handlers,
                 sweepVars, reconVars, envVars>>

\* handleMessage creates its context before claimJob stamps started_at, with
\* the same LeaseTimeout: a lease is over only after the context of its run.
LeaseExpires(j) ==
  /\ status[j] = "processing" /\ j \notin leaseExpired
  /\ \A g \in Goroutines : ~Running(g, j)
  /\ leaseExpired' = leaseExpired \cup {j}
  /\ UNCHANGED <<rows, started_at, claims, recoveries, due, streamVars, handlers,
                 sweepVars, reconVars, envVars>>

GraceElapses(j) ==
  /\ status[j] = "pending" /\ j \notin due
  /\ due' = due \cup {j}
  /\ UNCHANGED <<rows, claimVars, recoveries, streamVars, handlers, sweepVars,
                 reconVars, envVars>>

BecomesIdle(m) ==
  /\ m \in pel \ idle
  /\ idle' = idle \cup {m}
  /\ UNCHANGED <<tables, stream, pel, job_id, handlers, sweepVars, reconVars,
                 envVars>>

\* The process stops (killed, or shut down after its grace period) and a new
\* one starts: what its loops held in memory is gone.
Crash(w) ==
  LET down == {g \in Goroutines : WorkerOf[g] = w}
  IN
  /\ Fault
  /\ \/ UNCHANGED late
     \/ late' = late \cup UNION {Sent(g) : g \in down} /\ Cardinality(late') <= MaxLate
  /\ pc' = [g \in Goroutines |-> IF g \in down THEN "idle" ELSE pc[g]]
  /\ inbox' = [g \in Goroutines |-> IF g \in down THEN {} ELSE inbox[g]]
  /\ msg' = [g \in Goroutines |-> IF g \in down THEN None ELSE msg[g]]
  /\ claimed' = [g \in Goroutines |-> g \notin down /\ claimed[g]]
  /\ stale' = [r \in Reclaimers |-> IF r \in down THEN {} ELSE stale[r]]
  /\ recovered' = [r \in Reclaimers |-> IF r \in down THEN None ELSE recovered[r]]
  /\ todo' = [todo EXCEPT ![w] = {}]
  /\ touching' = [touching EXCEPT ![w] = None]
  /\ UNCHANGED <<tables, streamVars, unpublished>>

\* An API process stops between its commit and its XADD.
ApiCrash ==
  /\ unpublished # {} /\ Fault
  /\ unpublished' = {}
  /\ UNCHANGED <<tables, streamVars, handlers, sweepVars, reconVars, late>>

\* trimLoop: an old entry is dropped, acknowledged or not.
TrimBefore ==
  /\ Fault
  /\ \/ \E m \in pel : pel' = pel \ {m} /\ idle' = idle \ {m} /\ UNCHANGED stream
     \/ pel = {} /\ stream # <<>> /\ stream' = Tail(stream) /\ UNCHANGED <<pel, idle>>
  /\ UNCHANGED <<tables, job_id, handlers, sweepVars, reconVars, unpublished, late>>

\* Redis loses the stream; the next Read fails and calls EnsureGroup.
RedisLost ==
  /\ (stream # <<>> \/ pel # {}) /\ Fault
  /\ stream' = <<>> /\ pel' = {} /\ idle' = {}
  /\ UNCHANGED <<tables, job_id, handlers, sweepVars, reconVars, unpublished, late>>

-----------------------------------------------------------------------------
HandleMessage(g) ==
  \/ ClaimJob(g) \/ Reload(g) \/ LoadDocument(g) \/ Parse(g)
  \/ CompleteJob(g) \/ FailJob(g) \/ Ack(g)

Recover(r) ==
  \E row \in stale[r] : RecoverExhausted(r, row) \/ RecoverStale(r, row)

ReclaimLoop(r) == ListStale(r) \/ Recover(r) \/ Republish(r) \/ ClaimStale(r)

ReconcileLoop(w) ==
  ListDue(w) \/ (\E j \in todo[w] : ReconcilePublish(w, j)) \/ ReconcileTouch(w)

Api == \E j \in Jobs :
  \/ \E d \in Documents : Create(j, d)
  \/ Retry(j)
  \/ PublishCommitted(j)

Time ==
  \/ \E j \in Jobs : LeaseExpires(j) \/ GraceElapses(j)
  \/ \E m \in Messages : BecomesIdle(m)

Failure ==
  \/ \E g \in Goroutines :
       ClaimReplyLost(g) \/ LoadError(g) \/ EndReplyLost(g) \/ GiveUp(g)
  \/ \E c \in Consumers : ReadReplyLost(c)
  \/ \E r \in Reclaimers : RecoverError(r) \/ ClaimStaleError(r)
  \/ \E w \in Workers : ReconcileError(w) \/ Crash(w)
  \/ \E s \in late : RunLate(s)
  \/ ApiCrash \/ TrimBefore \/ RedisLost

Next ==
  \/ Api \/ (\E d \in Documents : Delete(d))
  \/ \E g \in Goroutines : AcquireSlot(g) \/ HandleMessage(g)
  \/ \E c \in Consumers : Read(c)
  \/ \E r \in Reclaimers : ReclaimLoop(r)
  \/ \E w \in Workers : ReconcileLoop(w)
  \/ Time \/ Failure

\* The loops run for ever, blocked senders on processSlots are served in turn,
\* and clocks advance.  Nothing is assumed of users, crashes or late statements.
Fairness ==
  /\ \A g \in Goroutines : WF_vars(HandleMessage(g)) /\ SF_vars(AcquireSlot(g))
  /\ \A c \in Consumers : WF_vars(Read(c))
  /\ \A r \in Reclaimers : WF_vars(ReclaimLoop(r))
  /\ \A w \in Workers : WF_vars(ReconcileLoop(w))
  /\ \A j \in Jobs : WF_vars(LeaseExpires(j)) /\ WF_vars(GraceElapses(j))
  /\ \A m \in Messages : WF_vars(BecomesIdle(m))

Spec == Init /\ [][Next]_vars
FairSpec == Spec /\ Fairness

-----------------------------------------------------------------------------
(* A handler between the claim that won and the reply of its last write. *)
Working(g, j) ==
  pc[g] \in {"reload", "load", "parse", "complete", "fail"} /\ claimed[g] /\ Job(g) = j

(* The tables change only as the lifecycle contract allows, whatever the   *)
(* loops, crashes and late statements do: no half-written completion, no   *)
(* requeue of a job that is not running, and retry_count grows by exactly  *)
(* one per requeue although recoverStaleJobs writes a count it read before *)
(* (the cutoff condition of its UPDATE is what makes that count current).  *)
Lifecycle == Contract!Spec

(* A job is put back automatically at most MaxRecoveries times, over its   *)
(* whole life and over all worker processes (recoverStaleJobs compares the *)
(* count its list query returned).                                         *)
RecoveryBudget ==
  \A j \in Jobs : recoveries[j] <= MaxRecoveries /\ recoveries[j] <= retry_count[j]

(* No two handlers with a live context work on the same job, although      *)
(* messages are duplicated by the reconcile loop, by recoveries and by     *)
(* ClaimStale, and although no write carries a fencing token.  It holds    *)
(* when no statement outlives its handler (MaxLate = 0).                   *)
OneRun ==
  \A g, h \in Goroutines, j \in Jobs : Working(g, j) /\ Working(h, j) => g = h

(* The stronger form it rests on: while a handler works on a job the row   *)
(* says "processing" with a lease that is not over, so neither recovery    *)
(* nor another claim nor a retry can take the job away from it.            *)
RunOwnsJob ==
  \A g \in Goroutines, j \in Jobs :
    Working(g, j) => status[j] = "processing" /\ j \notin leaseExpired

(* Recovery takes back only a job whose lease is over in the state where   *)
(* the UPDATE runs, never one that was claimed again since the list query. *)
RecoverOnlyExpired ==
  [][\A j \in Jobs : recoveries'[j] # recoveries[j] => j \in leaseExpired]_vars

(* Every job a user created or retried ends in success or failure: lost    *)
(* publications are compensated by the reconcile loop, crashed or expired  *)
(* runs by the reclaim loop.                                               *)
JobsSettle ==
  \A j \in Jobs : (status[j] \in {"pending", "processing"})
                     ~> (status[j] \in {"success", "failed"})

(* No delivered entry stays in the group for ever: the entries a handler   *)
(* left unacknowledged are claimed again until their job is terminal.      *)
EntriesSettle == \A m \in Messages : (m \in pel) ~> (m \notin pel)
=============================================================================
