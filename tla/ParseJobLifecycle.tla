-------------------------- MODULE ParseJobLifecycle --------------------------
(***************************************************************************)
(* What the parse pipeline promises to its users: the life of a document,  *)
(* of the parse jobs of that document and of the result of each job, as    *)
(* the PostgreSQL tables documents, parse_jobs and parse_results show it.  *)
(* Every action is atomic here.  ParseApi (row locks and transactions of   *)
(* the API server) and ParseWorker (queue, leases and failures of the      *)
(* workers) are the two detailed modules that implement it.                *)
(***************************************************************************)
EXTENDS Naturals, TLAPS

CONSTANTS
  Documents,      \* rows of documents
  Jobs,           \* identifiers the parse_jobs sequence can hand out
  None,           \* NULL
  MaxRecoveries   \* worker option: automatic recoveries of one job

VARIABLES
  document,       \* document[d]: "ready", or "deleted" once soft-deleted
  status,         \* status[j]: "absent" until the row is inserted
  document_id,    \* document_id[j]: the document of job j
  retry_count,    \* retry_count[j]: retries and recoveries so far
  results         \* the jobs that have a row in parse_results

vars == <<document, status, document_id, retry_count, results>>

Status == {"absent", "pending", "processing", "success", "failed"}

Active(j) == status[j] \in {"pending", "processing"}
ActiveJobs(d) == {j \in Jobs : document_id[j] = d /\ Active(j)}

TypeOK ==
  /\ document \in [Documents -> {"ready", "deleted"}]
  /\ status \in [Jobs -> Status]
  /\ document_id \in [Jobs -> Documents \cup {None}]
  /\ retry_count \in [Jobs -> Nat]
  /\ results \subseteq Jobs

Init ==
  /\ document = [d \in Documents |-> "ready"]
  /\ status = [j \in Jobs |-> "absent"]
  /\ document_id = [j \in Jobs |-> None]
  /\ retry_count = [j \in Jobs |-> 0]
  /\ results = {}

-----------------------------------------------------------------------------
(* Requests of the user. *)

Create(j, d) ==
  /\ status[j] = "absent"
  /\ document[d] = "ready"
  /\ ActiveJobs(d) = {}
  /\ status' = [status EXCEPT ![j] = "pending"]
  /\ document_id' = [document_id EXCEPT ![j] = d]
  /\ UNCHANGED <<document, retry_count, results>>

Retry(j) ==
  /\ status[j] = "failed"
  /\ document[document_id[j]] = "ready"
  /\ ActiveJobs(document_id[j]) = {}
  /\ status' = [status EXCEPT ![j] = "pending"]
  /\ retry_count' = [retry_count EXCEPT ![j] = @ + 1]
  /\ UNCHANGED <<document, document_id, results>>

Delete(d) ==
  /\ document[d] = "ready"
  /\ ActiveJobs(d) = {}
  /\ document' = [document EXCEPT ![d] = "deleted"]
  /\ UNCHANGED <<status, document_id, retry_count, results>>

(* Progress of the workers. *)

Claim(j) ==
  /\ status[j] = "pending"
  /\ status' = [status EXCEPT ![j] = "processing"]
  /\ UNCHANGED <<document, document_id, retry_count, results>>

Complete(j) ==
  /\ status[j] = "processing"
  /\ status' = [status EXCEPT ![j] = "success"]
  /\ results' = results \cup {j}
  /\ UNCHANGED <<document, document_id, retry_count>>

Fail(j) ==
  /\ status[j] = "processing"
  /\ status' = [status EXCEPT ![j] = "failed"]
  /\ UNCHANGED <<document, document_id, retry_count, results>>

Recover(j) ==
  /\ status[j] = "processing"
  /\ retry_count[j] < MaxRecoveries
  /\ status' = [status EXCEPT ![j] = "pending"]
  /\ retry_count' = [retry_count EXCEPT ![j] = @ + 1]
  /\ UNCHANGED <<document, document_id, results>>

Next ==
  \/ \E j \in Jobs, d \in Documents : Create(j, d)
  \/ \E d \in Documents : Delete(d)
  \/ \E j \in Jobs : Retry(j) \/ Claim(j) \/ Complete(j) \/ Fail(j) \/ Recover(j)

Spec == Init /\ [][Next]_vars

-----------------------------------------------------------------------------
(* The uniqueness that uq_parse_jobs_active_document and the document lock *)
(* are there for: at most one pending or processing job per document.      *)
OneActiveJob ==
  \A i, j \in Jobs :
    /\ status[i] \in {"pending", "processing"}
    /\ status[j] \in {"pending", "processing"}
    /\ document_id[i] = document_id[j]
    => i = j

(* A job a worker may still run has a document that was not soft-deleted:  *)
(* Delete refuses while a job is active, Create and Retry refuse once the  *)
(* document is gone.                                                       *)
ActiveJobHasDocument ==
  \A j \in Jobs :
    status[j] \in {"pending", "processing"} =>
      /\ document_id[j] \in Documents
      /\ document[document_id[j]] = "ready"

(* A result exists exactly when its job succeeded: completeJob writes both *)
(* in one transaction, and nothing else writes either.                     *)
ResultIffSuccess == results = {j \in Jobs : status[j] = "success"}

(* A job that succeeded stays so, with its result and its document.        *)
SuccessIsFinal ==
  [][\A j \in Jobs : status[j] = "success" =>
       /\ status'[j] = "success"
       /\ document_id'[j] = document_id[j]
       /\ retry_count'[j] = retry_count[j]]_vars

-----------------------------------------------------------------------------
\* Every inserted job names a document, whatever became of that document.
HasDocument == \A j \in Jobs : status[j] # "absent" => document_id[j] \in Documents

Inv == TypeOK /\ HasDocument /\ OneActiveJob /\ ActiveJobHasDocument /\ ResultIffSuccess

(* A fresh database has no jobs. *)
LEMMA InitInv == Init => Inv
  BY DEF Init, Inv, TypeOK, Status, HasDocument, OneActiveJob, ActiveJobHasDocument,
         ResultIffSuccess

(* No request of a user and no update of a worker breaks the invariant. *)
LEMMA NextInv == Inv /\ [Next]_vars => Inv'
  <1>0. SUFFICES ASSUME Inv, [Next]_vars PROVE Inv'
    OBVIOUS
  <1> USE <1>0 DEF Inv, TypeOK, Status, HasDocument, OneActiveJob, ActiveJobHasDocument,
                   ResultIffSuccess
  <1>1. ASSUME NEW j \in Jobs, NEW d \in Documents, Create(j, d) PROVE Inv'
    BY <1>1 DEF Create, ActiveJobs, Active
  <1>2. ASSUME NEW d \in Documents, Delete(d) PROVE Inv'
    BY <1>2 DEF Delete, ActiveJobs, Active
  <1>3. ASSUME NEW j \in Jobs, Retry(j) PROVE Inv'
    BY <1>3 DEF Retry, ActiveJobs, Active
  <1>4. ASSUME NEW j \in Jobs, Claim(j) PROVE Inv'
    BY <1>4 DEF Claim
  <1>5. ASSUME NEW j \in Jobs, Complete(j) PROVE Inv'
    BY <1>5 DEF Complete
  <1>6. ASSUME NEW j \in Jobs, Fail(j) PROVE Inv'
    BY <1>6 DEF Fail
  <1>7. ASSUME NEW j \in Jobs, Recover(j) PROVE Inv'
    BY <1>7 DEF Recover
  <1>8. CASE UNCHANGED vars
    BY <1>8 DEF vars
  <1>9. QED
    BY <1>1, <1>2, <1>3, <1>4, <1>5, <1>6, <1>7, <1>8 DEF Next

(* The three table invariants: one active job per document, no active job  *)
(* on a deleted document, a result exactly for the jobs that succeeded.    *)
THEOREM TablesCorrect ==
  Spec => [](OneActiveJob /\ ActiveJobHasDocument /\ ResultIffSuccess)
  BY InitInv, NextInv, PTL DEF Spec, Inv

(* No retry, recovery or second completion touches a job that succeeded.   *)
THEOREM SuccessStays == Spec => SuccessIsFinal
  <1>1. Inv /\ [Next]_vars =>
          [\A j \in Jobs : status[j] = "success" =>
             /\ status'[j] = "success"
             /\ document_id'[j] = document_id[j]
             /\ retry_count'[j] = retry_count[j]]_vars
    BY DEF Inv, TypeOK, Next, Create, Delete, Retry, Claim, Complete, Fail, Recover
  <1>2. Spec => []Inv
    BY InitInv, NextInv, PTL DEF Spec
  <1>3. QED
    BY <1>1, <1>2, PTL DEF Spec, SuccessIsFinal
=============================================================================
