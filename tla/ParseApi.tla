------------------------------ MODULE ParseApi ------------------------------
(***************************************************************************)
(* The transactional half of the parse pipeline: the API requests that     *)
(* create, retry or delete (internal/logic/parsejob, .../document) and the *)
(* completion transaction of the workers, with the row locks they take in  *)
(* PostgreSQL at READ COMMITTED.                                           *)
(*                                                                         *)
(* A request is one transaction, run statement by statement.  What it      *)
(* writes shows at its commit, so the write and the COMMIT are one step,   *)
(* and a lost connection before it leaves nothing.  SELECT ... FOR UPDATE  *)
(* returns the row as it is when the lock is granted.  The INSERT of a     *)
(* result takes KEY SHARE locks on the document and on the job for its     *)
(* foreign keys.  The one-statement updates of the workers (claim, fail,   *)
(* recover) are atomic; ParseWorker models their callers.                  *)
(***************************************************************************)
EXTENDS Integers, FiniteSets

CONSTANTS
  Documents, Jobs, None, MaxRecoveries,   \* as in ParseJobLifecycle
  Requests,       \* concurrent API requests
  Handlers,       \* concurrent completions, abandoned ones included
  MaxRetryCount   \* bound: retry_count up to which a job is retried

ASSUME ParseApiAssumption ==
  /\ None \notin Documents \cup Jobs \cup Requests \cup Handlers
  /\ Requests \cap Handlers = {}
  /\ MaxRecoveries \in Nat /\ MaxRetryCount \in Nat

VARIABLES
  document, status, document_id, retry_count, results,   \* committed rows
  pc,             \* pc[t]: where transaction t stands
  op,             \* op[r]: "create", "retry" or "delete"
  doc,            \* doc[t]: the document t works on
  job,            \* job[t]: the job t works on
  docLock,        \* docLock[d]: the request that holds d FOR UPDATE
  docShare,       \* docShare[d]: the completions that hold d FOR KEY SHARE
  jobLock,        \* jobLock[j]: the retry that holds j FOR UPDATE, or the
                  \* completion that holds it FOR KEY SHARE
  inserted        \* inserted[j]: the completion with an uncommitted result of j

rows  == <<document, status, document_id, retry_count, results>>
locks == <<docLock, docShare, jobLock, inserted>>
local == <<op, doc, job>>
vars  == <<rows, pc, local, locks>>

\* The tables are those of the contract: the other variables are hidden.
Contract == INSTANCE ParseJobLifecycle WITH
  Documents <- Documents, Jobs <- Jobs, None <- None, MaxRecoveries <- MaxRecoveries,
  document <- document, status <- status, document_id <- document_id,
  retry_count <- retry_count, results <- results

Transactions == Requests \cup Handlers

TypeOK ==
  /\ Contract!TypeOK
  /\ pc \in [Transactions -> {"idle", "insert", "document", "job", "write"}]
  /\ op \in [Requests -> {"create", "retry", "delete"}]
  /\ doc \in [Transactions -> Documents \cup {None}]
  /\ job \in [Transactions -> Jobs \cup {None}]
  /\ docLock \in [Documents -> Requests \cup {None}]
  /\ docShare \in [Documents -> SUBSET Handlers]
  /\ jobLock \in [Jobs -> Transactions \cup {None}]
  /\ inserted \in [Jobs -> Handlers \cup {None}]

Init ==
  /\ Contract!Init
  /\ pc = [t \in Transactions |-> "idle"]
  /\ op = [r \in Requests |-> "create"]
  /\ doc = [t \in Transactions |-> None]
  /\ job = [t \in Transactions |-> None]
  /\ docLock = [d \in Documents |-> None]
  /\ docShare = [d \in Documents |-> {}]
  /\ jobLock = [j \in Jobs |-> None]
  /\ inserted = [j \in Jobs |-> None]

-----------------------------------------------------------------------------
(* The end of a transaction, committed or rolled back, frees its locks. *)
End(t) ==
  /\ pc' = [pc EXCEPT ![t] = "idle"]
  /\ doc' = [doc EXCEPT ![t] = None] /\ job' = [job EXCEPT ![t] = None]
  /\ docLock' = [d \in Documents |-> IF docLock[d] = t THEN None ELSE docLock[d]]
  /\ docShare' = [d \in Documents |-> docShare[d] \ {t}]
  /\ jobLock' = [j \in Jobs |-> IF jobLock[j] = t THEN None ELSE jobLock[j]]
  /\ inserted' = [j \in Jobs |-> IF inserted[j] = t THEN None ELSE inserted[j]]
  /\ UNCHANGED op

\* Mutant: an error path returns without ending its transaction.
RollbackForgotten(t) ==
  /\ pc' = [pc EXCEPT ![t] = "idle"]
  /\ UNCHANGED <<rows, local, locks>>

Rollback(t) == End(t) /\ UNCHANGED rows

Goto(t, label) == pc' = [pc EXCEPT ![t] = label] /\ UNCHANGED <<rows, local>>

\* A lost connection, or an error of the database, at any statement.
Lost(t) == pc[t] # "idle" /\ Rollback(t)

-----------------------------------------------------------------------------
(* Requests. *)

Begin(r, kind, d, j) ==
  /\ pc[r] = "idle"
  /\ pc' = [pc EXCEPT ![r] = "document"]
  /\ op' = [op EXCEPT ![r] = kind]
  /\ doc' = [doc EXCEPT ![r] = d] /\ job' = [job EXCEPT ![r] = j]
  /\ UNCHANGED <<rows, locks>>

\* Bound: an identifier is left for every create in flight.
BeginCreate(r, d) ==
  /\ Cardinality({q \in Requests : pc[q] # "idle" /\ op[q] = "create"})
       < Cardinality({j \in Jobs : status[j] = "absent"})
  /\ Begin(r, "create", d, None)

BeginDelete(r, d) == Begin(r, "delete", d, None)

\* The job is first read without a lock, for its document.
BeginRetry(r, j) ==
  /\ status[j] # "absent" /\ retry_count[j] < MaxRetryCount
  /\ Begin(r, "retry", document_id[j], j)

\* Mutant: a plain SELECT of the document.
LockDocumentNoWait(r) ==
  /\ pc[r] = "document"
  /\ IF document[doc[r]] = "ready"
       THEN /\ docLock' = [docLock EXCEPT ![doc[r]] = r]
            /\ Goto(r, "job")
            /\ UNCHANGED <<docShare, jobLock, inserted>>
       ELSE Rollback(r)

\* SELECT ... FOR UPDATE of the document, among those not soft-deleted.
LockDocument(r) ==
  /\ pc[r] = "document" /\ docLock[doc[r]] = None /\ docShare[doc[r]] = {}
  /\ IF document[doc[r]] = "ready"
       THEN /\ docLock' = [docLock EXCEPT ![doc[r]] = r]
            /\ Goto(r, "job")
            /\ UNCHANGED <<docShare, jobLock, inserted>>
       ELSE Rollback(r)

\* Mutant: only pending jobs count as active.
CountPending(r) ==
  /\ pc[r] = "job" /\ op[r] \in {"create", "delete"}
  /\ IF {j \in Jobs : document_id[j] = doc[r] /\ status[j] = "pending"} = {}
       THEN Goto(r, "write") /\ UNCHANGED locks
       ELSE Rollback(r)

\* Create and Delete count the active jobs of the document.
CountActive(r) ==
  /\ pc[r] = "job" /\ op[r] \in {"create", "delete"}
  /\ IF Contract!ActiveJobs(doc[r]) = {}
       THEN Goto(r, "write") /\ UNCHANGED locks
       ELSE Rollback(r)

\* Retry locks the job row FOR UPDATE.
LockJob(r) ==
  /\ pc[r] = "job" /\ op[r] = "retry" /\ jobLock[job[r]] = None
  /\ IF status[job[r]] = "failed"
       THEN /\ jobLock' = [jobLock EXCEPT ![job[r]] = r]
            /\ Goto(r, "write")
            /\ UNCHANGED <<docLock, docShare, inserted>>
       ELSE Rollback(r)

\* Mutant: the partial index is missing.
NoIndex(d) == TRUE

\* uq_parse_jobs_active_document admits one active row per document.
IndexAdmits(d) == {j \in Jobs : document_id[j] = d /\ Contract!Active(j)} = {}

InsertJob(r) ==
  /\ pc[r] = "write" /\ op[r] = "create"
  /\ IF IndexAdmits(doc[r])
       THEN \E j \in Jobs :
            /\ status[j] = "absent"
            /\ status' = [status EXCEPT ![j] = "pending"]
            /\ document_id' = [document_id EXCEPT ![j] = doc[r]]
            /\ UNCHANGED <<document, retry_count, results>>
            /\ End(r)
       ELSE Rollback(r)

\* The update repeats the condition on the status and meets the same index.
ResetJob(r) ==
  /\ pc[r] = "write" /\ op[r] = "retry"
  /\ IF status[job[r]] = "failed" /\ IndexAdmits(doc[r])
       THEN /\ status' = [status EXCEPT ![job[r]] = "pending"]
            /\ retry_count' = [retry_count EXCEPT ![job[r]] = @ + 1]
            /\ UNCHANGED <<document, document_id, results>>
            /\ End(r)
       ELSE Rollback(r)

SoftDelete(r) ==
  /\ pc[r] = "write" /\ op[r] = "delete"
  /\ document' = [document EXCEPT ![doc[r]] = "deleted"]
  /\ UNCHANGED <<status, document_id, retry_count, results>>
  /\ End(r)

Request(r) ==
  \/ LockDocument(r) \/ CountActive(r) \/ LockJob(r)
  \/ InsertJob(r) \/ ResetJob(r) \/ SoftDelete(r)

-----------------------------------------------------------------------------
(* completeJob: INSERT the result, then UPDATE the job WHERE processing. *)

\* A handler completes a job it claimed, whatever became of the row since.
BeginComplete(h, j) ==
  /\ pc[h] = "idle"
  /\ status[j] # "absent" /\ (status[j] = "pending" => retry_count[j] > 0)
  /\ pc' = [pc EXCEPT ![h] = "insert"]
  /\ doc' = [doc EXCEPT ![h] = document_id[j]] /\ job' = [job EXCEPT ![h] = j]
  /\ UNCHANGED <<rows, op, locks>>

\* uq_parse_results_parse_job_id: a second INSERT waits for the first to end,
\* then fails if that one committed.
InsertResult(h) ==
  /\ pc[h] = "insert" /\ inserted[job[h]] = None
  /\ IF job[h] \in results
       THEN Rollback(h)
       ELSE /\ inserted' = [inserted EXCEPT ![job[h]] = h]
            /\ Goto(h, "document")
            /\ UNCHANGED <<docLock, docShare, jobLock>>

\* Its foreign keys on documents and parse_jobs: KEY SHARE waits for FOR UPDATE.
ShareDocument(h) ==
  /\ pc[h] = "document" /\ docLock[doc[h]] = None
  /\ docShare' = [docShare EXCEPT ![doc[h]] = @ \cup {h}]
  /\ Goto(h, "job")
  /\ UNCHANGED <<docLock, jobLock, inserted>>

ShareJob(h) ==
  /\ pc[h] = "job" /\ jobLock[job[h]] = None
  /\ jobLock' = [jobLock EXCEPT ![job[h]] = h]
  /\ Goto(h, "write")
  /\ UNCHANGED <<docLock, docShare, inserted>>

\* Mutant: nobody looks at the number of rows the UPDATE changed.
UpdateCompletedUnchecked(h) ==
  /\ pc[h] = "write"
  /\ status' = [status EXCEPT ![job[h]] = IF @ = "processing" THEN "success" ELSE @]
  /\ results' = results \cup {job[h]}
  /\ UNCHANGED <<document, document_id, retry_count>>
  /\ End(h)

\* No row changed means "processing state was lost": the insert is undone.
UpdateCompleted(h) ==
  /\ pc[h] = "write"
  /\ IF status[job[h]] = "processing"
       THEN /\ status' = [status EXCEPT ![job[h]] = "success"]
            /\ results' = results \cup {job[h]}
            /\ UNCHANGED <<document, document_id, retry_count>>
            /\ End(h)
       ELSE Rollback(h)

Completion(h) ==
  InsertResult(h) \/ ShareDocument(h) \/ ShareJob(h) \/ UpdateCompleted(h)

\* One-statement updates; a row held FOR UPDATE makes them wait.
WorkerUpdate(j) ==
  /\ jobLock[j] \notin Requests
  /\ Contract!Claim(j) \/ Contract!Fail(j) \/ Contract!Recover(j)
  /\ UNCHANGED <<pc, local, locks>>

-----------------------------------------------------------------------------
Next ==
  \/ \E r \in Requests :
       \/ \E d \in Documents : BeginCreate(r, d) \/ BeginDelete(r, d)
       \/ \E j \in Jobs : BeginRetry(r, j)
       \/ Request(r)
  \/ \E h \in Handlers : (\E j \in Jobs : BeginComplete(h, j)) \/ Completion(h)
  \/ \E t \in Transactions : Lost(t)
  \/ \E j \in Jobs : WorkerUpdate(j)

\* A transaction that has begun runs on; a waiter for a row lock is served,
\* since PostgreSQL queues the waiters of a row.
Fairness ==
  /\ \A r \in Requests : SF_vars(Request(r))
  /\ \A h \in Handlers : SF_vars(Completion(h))

Spec == Init /\ [][Next]_vars
FairSpec == Spec /\ Fairness

-----------------------------------------------------------------------------
(* Every commit of a request or of a completion is one atomic step of the  *)
(* contract, although each decides on rows it read in earlier statements:  *)
(* Delete and Create on a count of active jobs, Retry on a status, and     *)
(* completeJob after a result it already inserted.                         *)
Lifecycle == Contract!Spec

(* At most one pending or processing job per document, under concurrent    *)
(* Create and Retry (the row lock, the count and the partial index).       *)
OneActiveJob == Contract!OneActiveJob

(* No job is active on a soft-deleted document, under concurrent Create,   *)
(* Retry and Delete, which read and write different rows.                  *)
ActiveJobHasDocument == Contract!ActiveJobHasDocument

(* A result shows exactly when its job succeeded: the two statements of    *)
(* completeJob commit together, and a late one undoes its insert.          *)
ResultIffSuccess == Contract!ResultIffSuccess

(* Locks are never waited for in a circle: requests and completions lock   *)
(* the document before the job, so every transaction ends.                 *)
TransactionsEnd == \A t \in Transactions : (pc[t] # "idle") ~> (pc[t] = "idle")
=============================================================================
