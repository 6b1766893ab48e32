---------------------------- MODULE ParseApiProofs ----------------------------
(* Theorems about ParseApi: the row locks make every commit a step of the  *)
(* lifecycle contract, and are taken in one order, for any number of       *)
(* requests, completions, jobs and documents.                              *)
EXTENDS ParseApi, TLAPS

Points == {"idle", "insert", "document", "job", "write"}

Placed == \A j \in Jobs : status[j] # "absent" => document_id[j] \in Documents

\* A request works on rows that exist, and a completion on a job.
Targets ==
  /\ \A r \in Requests : pc[r] # "idle" =>
       /\ doc[r] \in Documents
       /\ op[r] = "retry" => /\ job[r] \in Jobs /\ status[job[r]] # "absent"
                             /\ document_id[job[r]] = doc[r]
  /\ \A h \in Handlers : pc[h] # "idle" => doc[h] \in Documents /\ job[h] \in Jobs

\* Past its first statement a request holds its document, which is alive.
HoldsDocument ==
  \A r \in Requests : pc[r] \in {"job", "write"} =>
    docLock[doc[r]] = r /\ document[doc[r]] = "ready"

\* What the second statement found still holds at the write.
StillCounted ==
  \A r \in Requests : pc[r] = "write" /\ op[r] \in {"create", "delete"} =>
    Contract!ActiveJobs(doc[r]) = {}
StillFailed ==
  \A r \in Requests : pc[r] = "write" /\ op[r] = "retry" =>
    jobLock[job[r]] = r /\ status[job[r]] = "failed"

Inv == TypeOK /\ Placed /\ Targets /\ HoldsDocument /\ StillCounted /\ StillFailed

(* No transaction has begun on the empty tables. *)
LEMMA InitInv == Init => Inv
  BY ParseApiAssumption
  DEF Init, Contract!Init, Inv, TypeOK, Contract!TypeOK, Contract!Status, Placed, Targets,
      HoldsDocument, StillCounted, StillFailed, Transactions

(* A transaction that ends leaves well-formed locks. *)
LEMMA EndType ==
  ASSUME TypeOK, NEW t \in Transactions, End(t), Contract!TypeOK'
  PROVE  TypeOK'
  BY DEF TypeOK, End, Transactions

(* Every statement of every transaction, and every loss of one, keeps the locks *)
(* consistent with what the requests that hold them have found.             *)
LEMMA NextInv == Inv /\ [Next]_vars => Inv'
  <1>0. SUFFICES ASSUME Inv, [Next]_vars PROVE Inv'
    OBVIOUS
  <1> USE <1>0, ParseApiAssumption
      DEF Inv, TypeOK, Contract!TypeOK, Contract!Status, Placed, Targets, HoldsDocument,
          StillCounted, StillFailed, Contract!ActiveJobs, Contract!Active, Transactions,
          rows, local, locks
  <1>1. ASSUME NEW r \in Requests, NEW d \in Documents, BeginCreate(r, d) \/ BeginDelete(r, d)
        PROVE  Inv'
    <2>1. TypeOK'
      BY <1>1 DEF BeginCreate, BeginDelete, Begin
    <2>2. Placed'
      BY <1>1 DEF BeginCreate, BeginDelete, Begin
    <2>3. Targets'
      BY <1>1 DEF BeginCreate, BeginDelete, Begin
    <2>4. HoldsDocument'
      BY <1>1 DEF BeginCreate, BeginDelete, Begin
    <2>5. StillCounted'
      BY <1>1 DEF BeginCreate, BeginDelete, Begin
    <2>6. StillFailed'
      BY <1>1 DEF BeginCreate, BeginDelete, Begin
    <2>7. QED
      BY <2>1, <2>2, <2>3, <2>4, <2>5, <2>6 DEF Inv
  <1>2. ASSUME NEW r \in Requests, NEW j \in Jobs, BeginRetry(r, j)
        PROVE  Inv'
    <2>1. TypeOK'
      BY <1>2 DEF BeginRetry, Begin
    <2>2. Placed'
      BY <1>2 DEF BeginRetry, Begin
    <2>3. Targets'
      BY <1>2 DEF BeginRetry, Begin
    <2>4. HoldsDocument'
      BY <1>2 DEF BeginRetry, Begin
    <2>5. StillCounted'
      BY <1>2 DEF BeginRetry, Begin
    <2>6. StillFailed'
      BY <1>2 DEF BeginRetry, Begin
    <2>7. QED
      BY <2>1, <2>2, <2>3, <2>4, <2>5, <2>6 DEF Inv
  <1>3. ASSUME NEW r \in Requests, LockDocument(r)
        PROVE  Inv'
    <2>1. TypeOK'
      BY <1>3 DEF LockDocument, Goto, Rollback, End
    <2>2. Placed'
      BY <1>3 DEF LockDocument, Goto, Rollback, End
    <2>3. Targets'
      BY <1>3 DEF LockDocument, Goto, Rollback, End
    <2>4. HoldsDocument'
      BY <1>3 DEF LockDocument, Goto, Rollback, End
    <2>5. StillCounted'
      BY <1>3 DEF LockDocument, Goto, Rollback, End
    <2>6. StillFailed'
      BY <1>3 DEF LockDocument, Goto, Rollback, End
    <2>7. QED
      BY <2>1, <2>2, <2>3, <2>4, <2>5, <2>6 DEF Inv
  <1>4. ASSUME NEW r \in Requests, CountActive(r)
        PROVE  Inv'
    <2>1. TypeOK'
      <3>1. CASE Rollback(r)
        BY <3>1, EndType DEF Rollback
      <3>2. CASE Goto(r, "write") /\ UNCHANGED locks
        BY <1>4, <3>2 DEF CountActive, Goto
      <3>3. QED
        BY <1>4, <3>1, <3>2 DEF CountActive
    <2>2. Placed'
      BY <1>4 DEF CountActive, Goto, Rollback, End
    <2>3. Targets'
      BY <1>4 DEF CountActive, Goto, Rollback, End
    <2>4. HoldsDocument'
      BY <1>4 DEF CountActive, Goto, Rollback, End
    <2>5. StillCounted'
      BY <1>4 DEF CountActive, Goto, Rollback, End
    <2>6. StillFailed'
      BY <1>4 DEF CountActive, Goto, Rollback, End
    <2>7. QED
      BY <2>1, <2>2, <2>3, <2>4, <2>5, <2>6 DEF Inv
  <1>5. ASSUME NEW r \in Requests, LockJob(r)
        PROVE  Inv'
    <2>1. TypeOK'
      BY <1>5 DEF LockJob, Goto, Rollback, End
    <2>2. Placed'
      BY <1>5 DEF LockJob, Goto, Rollback, End
    <2>3. Targets'
      BY <1>5 DEF LockJob, Goto, Rollback, End
    <2>4. HoldsDocument'
      BY <1>5 DEF LockJob, Goto, Rollback, End
    <2>5. StillCounted'
      BY <1>5 DEF LockJob, Goto, Rollback, End
    <2>6. StillFailed'
      BY <1>5 DEF LockJob, Goto, Rollback, End
    <2>7. QED
      BY <2>1, <2>2, <2>3, <2>4, <2>5, <2>6 DEF Inv
  <1>6. ASSUME NEW r \in Requests, InsertJob(r)
        PROVE  Inv'
    <2>1. TypeOK'
      <3>1. CASE Rollback(r)
        BY <3>1, EndType DEF Rollback
      <3>2. CASE ~Rollback(r)
        <4>1. Contract!TypeOK' /\ End(r)
          BY <1>6, <3>2 DEF InsertJob
        <4>2. QED
          BY <4>1, EndType
      <3>3. QED
        BY <3>1, <3>2
    <2>2. Placed'
      BY <1>6 DEF InsertJob, IndexAdmits, Rollback, End
    <2>3. Targets'
      BY <1>6 DEF InsertJob, IndexAdmits, Rollback, End
    <2>4. HoldsDocument'
      BY <1>6 DEF InsertJob, IndexAdmits, Rollback, End
    <2>5. StillCounted'
      BY <1>6 DEF InsertJob, IndexAdmits, Rollback, End
    <2>6. StillFailed'
      BY <1>6 DEF InsertJob, IndexAdmits, Rollback, End
    <2>7. QED
      BY <2>1, <2>2, <2>3, <2>4, <2>5, <2>6 DEF Inv
  <1>7. ASSUME NEW r \in Requests, ResetJob(r)
        PROVE  Inv'
    <2>1. TypeOK'
      <3>1. CASE Rollback(r)
        BY <3>1, EndType DEF Rollback
      <3>2. CASE ~Rollback(r)
        <4>1. Contract!TypeOK' /\ End(r)
          BY <1>7, <3>2 DEF ResetJob
        <4>2. QED
          BY <4>1, EndType
      <3>3. QED
        BY <3>1, <3>2
    <2>2. Placed'
      BY <1>7 DEF ResetJob, IndexAdmits, Rollback, End
    <2>3. Targets'
      BY <1>7 DEF ResetJob, IndexAdmits, Rollback, End
    <2>4. HoldsDocument'
      BY <1>7 DEF ResetJob, IndexAdmits, Rollback, End
    <2>5. StillCounted'
      BY <1>7 DEF ResetJob, IndexAdmits, Rollback, End
    <2>6. StillFailed'
      BY <1>7 DEF ResetJob, IndexAdmits, Rollback, End
    <2>7. QED
      BY <2>1, <2>2, <2>3, <2>4, <2>5, <2>6 DEF Inv
  <1>8. ASSUME NEW r \in Requests, SoftDelete(r)
        PROVE  Inv'
    <2>1. TypeOK'
      BY <1>8 DEF SoftDelete, End
    <2>2. Placed'
      BY <1>8 DEF SoftDelete, End
    <2>3. Targets'
      BY <1>8 DEF SoftDelete, End
    <2>4. HoldsDocument'
      BY <1>8 DEF SoftDelete, End
    <2>5. StillCounted'
      BY <1>8 DEF SoftDelete, End
    <2>6. StillFailed'
      BY <1>8 DEF SoftDelete, End
    <2>7. QED
      BY <2>1, <2>2, <2>3, <2>4, <2>5, <2>6 DEF Inv
  <1>9. ASSUME NEW h \in Handlers, NEW j \in Jobs, BeginComplete(h, j)
        PROVE  Inv'
    <2>1. TypeOK'
      BY <1>9 DEF BeginComplete
    <2>2. Placed'
      BY <1>9 DEF BeginComplete
    <2>3. Targets'
      BY <1>9 DEF BeginComplete
    <2>4. HoldsDocument'
      BY <1>9 DEF BeginComplete
    <2>5. StillCounted'
      BY <1>9 DEF BeginComplete
    <2>6. StillFailed'
      BY <1>9 DEF BeginComplete
    <2>7. QED
      BY <2>1, <2>2, <2>3, <2>4, <2>5, <2>6 DEF Inv
  <1>10. ASSUME NEW h \in Handlers, InsertResult(h)
        PROVE  Inv'
    <2>1. TypeOK'
      BY <1>10 DEF InsertResult, Goto, Rollback, End
    <2>2. Placed'
      BY <1>10 DEF InsertResult, Goto, Rollback, End
    <2>3. Targets'
      BY <1>10 DEF InsertResult, Goto, Rollback, End
    <2>4. HoldsDocument'
      BY <1>10 DEF InsertResult, Goto, Rollback, End
    <2>5. StillCounted'
      BY <1>10 DEF InsertResult, Goto, Rollback, End
    <2>6. StillFailed'
      BY <1>10 DEF InsertResult, Goto, Rollback, End
    <2>7. QED
      BY <2>1, <2>2, <2>3, <2>4, <2>5, <2>6 DEF Inv
  <1>11. ASSUME NEW h \in Handlers, ShareDocument(h)
        PROVE  Inv'
    <2>1. TypeOK'
      BY <1>11 DEF ShareDocument, Goto
    <2>2. Placed'
      BY <1>11 DEF ShareDocument, Goto
    <2>3. Targets'
      BY <1>11 DEF ShareDocument, Goto
    <2>4. HoldsDocument'
      BY <1>11 DEF ShareDocument, Goto
    <2>5. StillCounted'
      BY <1>11 DEF ShareDocument, Goto
    <2>6. StillFailed'
      BY <1>11 DEF ShareDocument, Goto
    <2>7. QED
      BY <2>1, <2>2, <2>3, <2>4, <2>5, <2>6 DEF Inv
  <1>12. ASSUME NEW h \in Handlers, ShareJob(h)
        PROVE  Inv'
    <2>1. TypeOK'
      BY <1>12 DEF ShareJob, Goto
    <2>2. Placed'
      BY <1>12 DEF ShareJob, Goto
    <2>3. Targets'
      BY <1>12 DEF ShareJob, Goto
    <2>4. HoldsDocument'
      BY <1>12 DEF ShareJob, Goto
    <2>5. StillCounted'
      BY <1>12 DEF ShareJob, Goto
    <2>6. StillFailed'
      BY <1>12 DEF ShareJob, Goto
    <2>7. QED
      BY <2>1, <2>2, <2>3, <2>4, <2>5, <2>6 DEF Inv
  <1>13. ASSUME NEW h \in Handlers, UpdateCompleted(h)
        PROVE  Inv'
    <2>1. TypeOK'
      BY <1>13 DEF UpdateCompleted, Rollback, End
    <2>2. Placed'
      BY <1>13 DEF UpdateCompleted, Rollback, End
    <2>3. Targets'
      BY <1>13 DEF UpdateCompleted, Rollback, End
    <2>4. HoldsDocument'
      BY <1>13 DEF UpdateCompleted, Rollback, End
    <2>5. StillCounted'
      BY <1>13 DEF UpdateCompleted, Rollback, End
    <2>6. StillFailed'
      BY <1>13 DEF UpdateCompleted, Rollback, End
    <2>7. QED
      BY <2>1, <2>2, <2>3, <2>4, <2>5, <2>6 DEF Inv
  <1>14. ASSUME NEW t \in Transactions, Lost(t)
        PROVE  Inv'
    <2>1. TypeOK'
      BY <1>14 DEF Lost, Rollback, End
    <2>2. Placed'
      BY <1>14 DEF Lost, Rollback, End
    <2>3. Targets'
      BY <1>14 DEF Lost, Rollback, End
    <2>4. HoldsDocument'
      BY <1>14 DEF Lost, Rollback, End
    <2>5. StillCounted'
      BY <1>14 DEF Lost, Rollback, End
    <2>6. StillFailed'
      BY <1>14 DEF Lost, Rollback, End
    <2>7. QED
      BY <2>1, <2>2, <2>3, <2>4, <2>5, <2>6 DEF Inv
  <1>15. ASSUME NEW j \in Jobs, WorkerUpdate(j)
        PROVE  Inv'
    <2>1. TypeOK'
      BY <1>15 DEF WorkerUpdate, Contract!Claim, Contract!Fail, Contract!Recover
    <2>2. Placed'
      BY <1>15 DEF WorkerUpdate, Contract!Claim, Contract!Fail, Contract!Recover
    <2>3. Targets'
      BY <1>15 DEF WorkerUpdate, Contract!Claim, Contract!Fail, Contract!Recover
    <2>4. HoldsDocument'
      BY <1>15 DEF WorkerUpdate, Contract!Claim, Contract!Fail, Contract!Recover
    <2>5. StillCounted'
      BY <1>15 DEF WorkerUpdate, Contract!Claim, Contract!Fail, Contract!Recover
    <2>6. StillFailed'
      BY <1>15 DEF WorkerUpdate, Contract!Claim, Contract!Fail, Contract!Recover
    <2>7. QED
      BY <2>1, <2>2, <2>3, <2>4, <2>5, <2>6 DEF Inv
  <1>16. ASSUME UNCHANGED vars
        PROVE  Inv'
    <2>1. TypeOK'
      BY <1>16 DEF vars
    <2>2. Placed'
      BY <1>16 DEF vars
    <2>3. Targets'
      BY <1>16 DEF vars
    <2>4. HoldsDocument'
      BY <1>16 DEF vars
    <2>5. StillCounted'
      BY <1>16 DEF vars
    <2>6. StillFailed'
      BY <1>16 DEF vars
    <2>7. QED
      BY <2>1, <2>2, <2>3, <2>4, <2>5, <2>6 DEF Inv
  <1>17. QED
    BY <1>0, <1>1, <1>2, <1>3, <1>4, <1>5, <1>6, <1>7, <1>8, <1>9, <1>10, <1>11, <1>12, <1>13, <1>14, <1>15, <1>16 DEF Next, Request, Completion

(* The invariant, for every behaviour of the API. *)
LEMMA InvHolds == Spec => []Inv
  BY InitInv, NextInv, PTL DEF Spec

(* Every reachable state has the declared types (TypeOK of the run).        *)
THEOREM ApiTypeCorrect == Spec => []TypeOK
  BY InvHolds, PTL DEF Inv

(* A commit is a step of the contract: what the transaction found under its *)
(* locks is what the contract requires in the state of the commit.          *)
LEMMA StepContract == Inv /\ [Next]_vars => [Contract!Next]_(Contract!vars)
  <1>0. SUFFICES ASSUME Inv, [Next]_vars PROVE [Contract!Next]_(Contract!vars)
    OBVIOUS
  <1> USE DEF Contract!Next, Contract!vars, rows
  <1>1. ASSUME NEW r \in Requests, InsertJob(r) PROVE [Contract!Next]_(Contract!vars)
    <2>1. CASE Rollback(r)
      BY <2>1 DEF Rollback
    <2>2. CASE ~Rollback(r)
      <3>1. doc[r] \in Documents /\ document[doc[r]] = "ready"
            /\ Contract!ActiveJobs(doc[r]) = {}
        BY <1>0, <1>1 DEF InsertJob, Inv, Targets, HoldsDocument, StillCounted
      <3>2. \E j \in Jobs : Contract!Create(j, doc[r])
        BY <1>1, <2>2, <3>1 DEF InsertJob, Contract!Create
      <3>3. QED
        BY <3>1, <3>2
    <2>3. QED
      BY <2>1, <2>2
  <1>2. ASSUME NEW r \in Requests, ResetJob(r) PROVE [Contract!Next]_(Contract!vars)
    <2>1. CASE Rollback(r)
      BY <2>1 DEF Rollback
    <2>2. CASE ~Rollback(r)
      <3>1. /\ job[r] \in Jobs /\ document_id[job[r]] = doc[r]
            /\ document[doc[r]] = "ready"
        BY <1>0, <1>2 DEF ResetJob, Inv, Targets, HoldsDocument
      <3>2. Contract!ActiveJobs(doc[r]) = {}
        BY <1>2, <2>2 DEF ResetJob, IndexAdmits, Contract!ActiveJobs
      <3>3. Contract!Retry(job[r])
        BY <1>2, <2>2, <3>1, <3>2 DEF ResetJob, Contract!Retry
      <3>4. QED
        BY <3>1, <3>3
    <2>3. QED
      BY <2>1, <2>2
  <1>3. ASSUME NEW r \in Requests, SoftDelete(r) PROVE [Contract!Next]_(Contract!vars)
    <2>1. doc[r] \in Documents /\ document[doc[r]] = "ready"
          /\ Contract!ActiveJobs(doc[r]) = {}
      BY <1>0, <1>3 DEF SoftDelete, Inv, Targets, HoldsDocument, StillCounted
    <2>2. Contract!Delete(doc[r])
      BY <1>3, <2>1 DEF SoftDelete, Contract!Delete
    <2>3. QED
      BY <2>1, <2>2
  <1>4. ASSUME NEW h \in Handlers, UpdateCompleted(h) PROVE [Contract!Next]_(Contract!vars)
    <2>1. CASE Rollback(h)
      BY <2>1 DEF Rollback
    <2>2. CASE ~Rollback(h)
      <3>1. job[h] \in Jobs
        BY <1>0, <1>4 DEF UpdateCompleted, Inv, Targets
      <3>2. Contract!Complete(job[h])
        BY <1>4, <2>2 DEF UpdateCompleted, Contract!Complete
      <3>3. QED
        BY <3>1, <3>2
    <2>3. QED
      BY <2>1, <2>2
  <1>5. ASSUME NEW j \in Jobs, WorkerUpdate(j) PROVE [Contract!Next]_(Contract!vars)
    BY <1>5 DEF WorkerUpdate
  <1>6. ASSUME UNCHANGED rows PROVE [Contract!Next]_(Contract!vars)
    BY <1>6
  <1>7. ASSUME NEW r \in Requests, LockDocument(r) \/ CountActive(r) \/ LockJob(r)
        PROVE  UNCHANGED rows
    BY <1>7 DEF LockDocument, CountActive, LockJob, Goto, Rollback
  <1>8. ASSUME NEW h \in Handlers, InsertResult(h) \/ ShareDocument(h) \/ ShareJob(h)
        PROVE  UNCHANGED rows
    BY <1>8 DEF InsertResult, ShareDocument, ShareJob, Goto, Rollback
  <1>9. ASSUME NEW r \in Requests, NEW d \in Documents, BeginCreate(r, d) \/ BeginDelete(r, d)
        PROVE  UNCHANGED rows
    BY <1>9 DEF BeginCreate, BeginDelete, Begin
  <1>10. ASSUME NEW r \in Requests, NEW j \in Jobs, BeginRetry(r, j) PROVE UNCHANGED rows
    BY <1>10 DEF BeginRetry, Begin
  <1>11. ASSUME NEW h \in Handlers, NEW j \in Jobs, BeginComplete(h, j) PROVE UNCHANGED rows
    BY <1>11 DEF BeginComplete
  <1>12. ASSUME NEW t \in Transactions, Lost(t) PROVE UNCHANGED rows
    BY <1>12 DEF Lost, Rollback
  <1>13. ASSUME UNCHANGED vars PROVE UNCHANGED rows
    BY <1>13 DEF vars
  <1>14. QED
    BY <1>0, <1>1, <1>2, <1>3, <1>4, <1>5, <1>6, <1>7, <1>8, <1>9, <1>10, <1>11, <1>12, <1>13
    DEF Next, Request, Completion

(* The statements of concurrent requests and completions, interleaved, are  *)
(* the atomic actions of the contract.                                      *)
THEOREM ApiRefinement == Spec => Lifecycle
  <1>1. Init => Contract!Init
    BY DEF Init
  <1>2. QED
    BY <1>1, InvHolds, StepContract, PTL DEF Spec, Lifecycle, Contract!Spec

(* One active job per document, none on a deleted document, a result for    *)
(* exactly the jobs that succeeded, under any interleaving of requests.     *)
THEOREM ApiKeepsTables == Spec => [](OneActiveJob /\ ActiveJobHasDocument /\ ResultIffSuccess)
  BY ApiRefinement, Contract!TablesCorrect, PTL
  DEF Lifecycle, OneActiveJob, ActiveJobHasDocument, ResultIffSuccess

(* No job runs on a document that was deleted while it was created.        *)
THEOREM ApiJobsHaveDocuments == Spec => []ActiveJobHasDocument
  BY ApiKeepsTables, PTL

(* A job and its result succeed together, or neither does.                 *)
THEOREM ApiResultsMatchJobs == Spec => []ResultIffSuccess
  BY ApiKeepsTables, PTL

(* A job that succeeded stays so, whatever requests retry it and whatever  *)
(* completions come after the first.                                       *)
THEOREM ApiKeepsSuccess == Spec => Contract!SuccessIsFinal
  BY ApiRefinement, Contract!SuccessStays, PTL DEF Lifecycle

\* The INSERT of a job meets no active row in the index.
IndexIsFree == \A r \in Requests : pc[r] = "write" /\ op[r] = "create" => IndexAdmits(doc[r])

(* The count under the row lock is enough for Create: no INSERT of a job   *)
(* fails at uq_parse_jobs_active_document, which is there for the retry.   *)
THEOREM ApiCreateMeetsNoIndex == Spec => []IndexIsFree
  <1>1. Inv => IndexIsFree
    BY DEF Inv, StillCounted, IndexIsFree, IndexAdmits, Contract!ActiveJobs
  <1> QED
    BY <1>1, InvHolds, PTL

-----------------------------------------------------------------------------
(* Who holds what, and who waits for whom. *)

\* A transaction holds the locks of the statements it has run, and no others.
Holds(t) ==
  /\ \A d \in Documents :
       /\ docLock[d] = t <=> t \in Requests /\ pc[t] \in {"job", "write"} /\ doc[t] = d
       /\ t \in docShare[d] <=> t \in Handlers /\ pc[t] \in {"job", "write"} /\ doc[t] = d
  /\ \A j \in Jobs :
       /\ jobLock[j] = t <=> pc[t] = "write" /\ job[t] = j
       /\ inserted[j] = t <=> /\ t \in Handlers /\ pc[t] \in {"document", "job", "write"}
                              /\ job[t] = j

\* A request has no statement "insert", and a job only if it retries one; a completion
\* locks the document its job is about.
Kinds ==
  /\ \A r \in Requests : pc[r] # "insert" /\ (op[r] # "retry" => job[r] = None)
  /\ \A h \in Handlers : pc[h] # "idle" =>
       status[job[h]] # "absent" /\ doc[h] = document_id[job[h]]

\* FOR UPDATE and KEY SHARE exclude each other.
Exclusive == \A d \in Documents : docLock[d] # None => docShare[d] = {}

OrderInv == (\A t \in Transactions : Holds(t)) /\ Kinds /\ Exclusive

\* t cannot run its next statement before u ends.
WaitsFor(t, u) ==
  /\ u # t
  /\ \/ /\ t \in Requests /\ pc[t] = "document"
        /\ docLock[doc[t]] = u \/ u \in docShare[doc[t]]
     \/ t \in Requests /\ pc[t] = "job" /\ op[t] = "retry" /\ jobLock[job[t]] = u
     \/ t \in Handlers /\ pc[t] = "insert" /\ inserted[job[t]] = u
     \/ t \in Handlers /\ pc[t] = "document" /\ docLock[doc[t]] = u
     \/ t \in Handlers /\ pc[t] = "job" /\ jobLock[job[t]] = u

Stage == [idle |-> 0, insert |-> 1, document |-> 2, job |-> 3, write |-> 3]

(* Whoever waits waits for one that has come further: the result of a job  *)
(* is inserted before its document is locked, the document before the job, *)
(* and the row of the job is free for the one that holds the document.     *)
WaitsForward ==
  \A t, u \in Transactions : WaitsFor(t, u) => pc[t] # "idle" /\ Stage[pc[t]] < Stage[pc[u]]

\* The locks that the next statement of t takes are free.
CanLock(t) ==
  /\ t \in Requests /\ pc[t] = "document" => docLock[doc[t]] = None /\ docShare[doc[t]] = {}
  /\ t \in Requests /\ pc[t] = "job" /\ op[t] = "retry" => jobLock[job[t]] = None
  /\ t \in Handlers /\ pc[t] = "insert" => inserted[job[t]] = None
  /\ t \in Handlers /\ pc[t] = "document" => docLock[doc[t]] = None
  /\ t \in Handlers /\ pc[t] = "job" => jobLock[job[t]] = None

\* While requests or completions are under way one of them can go on.
SomebodyRuns ==
  (\E t \in Transactions : pc[t] # "idle") =>
    \E t \in Transactions : pc[t] # "idle" /\ CanLock(t)

(* An inserted job stays, and stays with its document.                     *)
LEMMA JobsStay ==
  ASSUME Inv, [Next]_vars, NEW j \in Jobs, status[j] # "absent"
  PROVE  status'[j] # "absent" /\ document_id'[j] = document_id[j]
  <1>1. [Contract!Next]_(Contract!vars) /\ Contract!TypeOK
    BY StepContract DEF Inv, TypeOK
  <1>2. CASE UNCHANGED Contract!vars
    BY <1>2 DEF Contract!vars
  <1>3. CASE Contract!Next
    BY <1>1, <1>3
    DEF Contract!Next, Contract!Create, Contract!Delete, Contract!Retry, Contract!Claim,
        Contract!Complete, Contract!Fail, Contract!Recover, Contract!TypeOK, Contract!vars
  <1> QED
    BY <1>1, <1>2, <1>3

\* What a step of another transaction leaves to u.
Untouched(u) ==
  /\ pc'[u] = pc[u] /\ doc'[u] = doc[u] /\ job'[u] = job[u]
  /\ u \in Requests => op'[u] = op[u]
  /\ \A d \in Documents : (docLock'[d] = u <=> docLock[d] = u)
                          /\ (u \in docShare'[d] <=> u \in docShare[d])
  /\ \A j \in Jobs : (jobLock'[j] = u <=> jobLock[j] = u) /\ (inserted'[j] = u <=> inserted[j] = u)

(* Others keep what they hold; what is left to see is the one that moves.  *)
LEMMA OthersHold ==
  ASSUME Inv, OrderInv, [Next]_vars, NEW t \in Transactions, Holds(t)', Exclusive',
         \A u \in Transactions : u # t => Untouched(u),
         t \in Requests => pc'[t] # "insert" /\ (op'[t] # "retry" => job'[t] = None),
         t \in Handlers /\ pc'[t] # "idle" =>
           job'[t] \in Jobs /\ status[job'[t]] # "absent" /\ doc'[t] = document_id[job'[t]]
  PROVE  OrderInv'
  <1>1. ASSUME NEW u \in Transactions PROVE Holds(u)'
    <2>1. CASE u # t
      BY <2>1 DEF OrderInv, Holds, Untouched
    <2> QED
      BY <2>1
  <1>2. ASSUME NEW r \in Requests
        PROVE  pc'[r] # "insert" /\ (op'[r] # "retry" => job'[r] = None)
    BY DEF OrderInv, Kinds, Untouched, Transactions
  <1>3. ASSUME NEW h \in Handlers, pc'[h] # "idle"
        PROVE  status'[job'[h]] # "absent" /\ doc'[h] = document_id'[job'[h]]
    <2>1. job'[h] \in Jobs /\ status[job'[h]] # "absent" /\ doc'[h] = document_id[job'[h]]
      BY <1>3 DEF OrderInv, Kinds, Untouched, Transactions, Inv, Targets
    <2> QED
      BY <2>1, JobsStay
  <1> QED
    BY <1>1, <1>2, <1>3 DEF OrderInv, Kinds

(* A transaction that ends holds nothing.                                  *)
LEMMA EndFrees ==
  ASSUME Inv, OrderInv, [Next]_vars, NEW t \in Transactions, End(t)
  PROVE  OrderInv'
  <1>1. TypeOK /\ t # None
    BY ParseApiAssumption DEF Inv, Transactions
  <1>2. pc'[t] = "idle" /\ job'[t] = None
    BY <1>1 DEF TypeOK, End
  <1>3. Holds(t)'
    BY <1>1, <1>2 DEF Holds, End, TypeOK
  <1>4. Exclusive'
    BY <1>1 DEF OrderInv, Exclusive, End, TypeOK
  <1>5. ASSUME NEW u \in Transactions, u # t PROVE Untouched(u)
    <2>1. u # None
      BY ParseApiAssumption DEF Transactions
    <2> QED
      BY <1>1, <1>5, <2>1 DEF Untouched, End, TypeOK
  <1> QED
    BY <1>2, <1>3, <1>4, <1>5, OthersHold

(* A transaction that begins holds nothing yet.                            *)
LEMMA BeginHolds ==
  ASSUME Inv, OrderInv, [Next]_vars, NEW t \in Transactions, pc[t] = "idle", UNCHANGED locks,
         NEW d, NEW j, NEW label, label \in {"insert", "document"},
         pc' = [pc EXCEPT ![t] = label], doc' = [doc EXCEPT ![t] = d], job' = [job EXCEPT ![t] = j],
         \A r \in Requests : r # t => op'[r] = op[r],
         t \in Requests => label = "document" /\ (op'[t] # "retry" => j = None),
         t \in Handlers =>
           label = "insert" /\ j \in Jobs /\ status[j] # "absent" /\ d = document_id[j]
  PROVE  OrderInv'
  <1>1. TypeOK /\ Requests \cap Handlers = {}
    BY ParseApiAssumption DEF Inv
  <1>2. pc'[t] = label /\ doc'[t] = d /\ job'[t] = j
    BY <1>1 DEF TypeOK
  <1>3. Holds(t)'
    <2>1. t \notin Handlers => label = "document"
      BY DEF Transactions
    <2>2. label \notin {"job", "write", "idle"} /\ (t \in Handlers => label = "insert")
      OBVIOUS
    <2> QED
      BY <1>2, <2>1, <2>2 DEF OrderInv, Holds, locks
  <1>4. Exclusive'
    BY DEF OrderInv, Exclusive, locks
  <1>5. ASSUME NEW u \in Transactions, u # t PROVE Untouched(u)
    BY <1>1, <1>5 DEF Untouched, TypeOK, locks
  <1> QED
    BY <1>1, <1>2, <1>3, <1>4, <1>5, OthersHold

(* A statement of a request that takes a lock, or needs none.              *)
LEMMA RequestHolds ==
  ASSUME Inv, OrderInv, [Next]_vars, NEW r \in Requests, Request(r)
  PROVE  OrderInv'
  <1>1. CASE End(r)
    BY <1>1, EndFrees DEF Transactions
  <1>2. CASE ~End(r)
    <2>1. /\ TypeOK /\ Targets /\ r \in Transactions /\ r \notin Handlers /\ r # None
          /\ pc[r] # "idle" /\ doc[r] \in Documents /\ Holds(r)
      <3>1. pc[r] # "idle"
        BY DEF Request, LockDocument, CountActive, LockJob, InsertJob, ResetJob, SoftDelete
      <3> QED
        BY <3>1, ParseApiAssumption DEF Inv, Targets, OrderInv, Transactions
    <2>2. CASE LockDocument(r)
      <3>1. /\ pc[r] = "document" /\ docLock[doc[r]] = None /\ docShare[doc[r]] = {}
            /\ docLock' = [docLock EXCEPT ![doc[r]] = r] /\ pc' = [pc EXCEPT ![r] = "job"]
            /\ UNCHANGED <<op, doc, job, docShare, jobLock, inserted>>
        BY <1>2, <2>2 DEF LockDocument, Goto, Rollback, local
      <3>2. pc'[r] = "job"
        BY <2>1, <3>1 DEF TypeOK
      <3>3. Holds(r)'
        BY <2>1, <3>1, <3>2 DEF Holds, TypeOK
      <3>4. Exclusive'
        BY <2>1, <3>1 DEF OrderInv, Exclusive, TypeOK
      <3>5. ASSUME NEW u \in Transactions, u # r PROVE Untouched(u)
        BY <2>1, <3>1, <3>5, ParseApiAssumption DEF Untouched, TypeOK, Transactions
      <3> QED
        BY <2>1, <3>1, <3>2, <3>3, <3>4, <3>5, OthersHold DEF OrderInv, Kinds
    <2>3. CASE CountActive(r)
      <3>1. /\ pc[r] = "job" /\ op[r] # "retry" /\ job[r] = None
            /\ pc' = [pc EXCEPT ![r] = "write"]
            /\ UNCHANGED <<op, doc, job, docLock, docShare, jobLock, inserted>>
        BY <1>2, <2>3 DEF CountActive, Goto, Rollback, local, locks, OrderInv, Kinds
      <3>2. pc'[r] = "write"
        BY <2>1, <3>1 DEF TypeOK
      <3>3. Holds(r)'
        BY <2>1, <3>1, <3>2, ParseApiAssumption DEF Holds
      <3>4. Exclusive'
        BY <3>1 DEF OrderInv, Exclusive
      <3>5. ASSUME NEW u \in Transactions, u # r PROVE Untouched(u)
        BY <2>1, <3>1, <3>5 DEF Untouched, TypeOK
      <3> QED
        BY <2>1, <3>1, <3>2, <3>3, <3>4, <3>5, OthersHold DEF OrderInv, Kinds
    <2>4. CASE LockJob(r)
      <3>1. /\ pc[r] = "job" /\ op[r] = "retry" /\ jobLock[job[r]] = None
            /\ jobLock' = [jobLock EXCEPT ![job[r]] = r] /\ pc' = [pc EXCEPT ![r] = "write"]
            /\ UNCHANGED <<op, doc, job, docLock, docShare, inserted>>
        BY <1>2, <2>4 DEF LockJob, Goto, Rollback, local
      <3>2. pc'[r] = "write" /\ job[r] \in Jobs
        BY <2>1, <3>1 DEF TypeOK, Targets
      <3>3. Holds(r)'
        BY <2>1, <3>1, <3>2 DEF Holds, TypeOK
      <3>4. Exclusive'
        BY <3>1 DEF OrderInv, Exclusive
      <3>5. ASSUME NEW u \in Transactions, u # r PROVE Untouched(u)
        BY <2>1, <3>1, <3>2, <3>5, ParseApiAssumption DEF Untouched, TypeOK, Transactions
      <3> QED
        BY <2>1, <3>1, <3>2, <3>3, <3>4, <3>5, OthersHold DEF OrderInv, Kinds
    <2> QED
      BY <1>2, <2>2, <2>3, <2>4 DEF Request, InsertJob, ResetJob, SoftDelete, Rollback
  <1> QED
    BY <1>1, <1>2

(* A statement of a completion that takes a lock.                          *)
LEMMA CompletionHolds ==
  ASSUME Inv, OrderInv, [Next]_vars, NEW h \in Handlers, Completion(h)
  PROVE  OrderInv'
  <1>1. CASE End(h)
    BY <1>1, EndFrees DEF Transactions
  <1>2. CASE ~End(h)
    <2>1. /\ TypeOK /\ h \in Transactions /\ h \notin Requests /\ h # None
          /\ pc[h] # "idle" /\ doc[h] \in Documents /\ job[h] \in Jobs /\ Holds(h)
          /\ status[job[h]] # "absent" /\ doc[h] = document_id[job[h]]
      <3>1. pc[h] # "idle"
        BY DEF Completion, InsertResult, ShareDocument, ShareJob, UpdateCompleted
      <3> QED
        BY <3>1, ParseApiAssumption DEF Inv, Targets, OrderInv, Kinds, Transactions
    <2>2. CASE InsertResult(h)
      <3>1. /\ pc[h] = "insert" /\ inserted[job[h]] = None
            /\ inserted' = [inserted EXCEPT ![job[h]] = h] /\ pc' = [pc EXCEPT ![h] = "document"]
            /\ UNCHANGED <<op, doc, job, docLock, docShare, jobLock>>
        BY <1>2, <2>2 DEF InsertResult, Goto, Rollback, local
      <3>2. pc'[h] = "document"
        BY <2>1, <3>1 DEF TypeOK
      <3>3. Holds(h)'
        BY <2>1, <3>1, <3>2 DEF Holds, TypeOK
      <3>4. Exclusive'
        BY <3>1 DEF OrderInv, Exclusive
      <3>5. ASSUME NEW u \in Transactions, u # h PROVE Untouched(u)
        BY <2>1, <3>1, <3>5, ParseApiAssumption DEF Untouched, TypeOK, Transactions
      <3> QED
        BY <2>1, <3>1, <3>2, <3>3, <3>4, <3>5, OthersHold
    <2>3. CASE ShareDocument(h)
      <3>1. /\ pc[h] = "document" /\ docLock[doc[h]] = None
            /\ docShare' = [docShare EXCEPT ![doc[h]] = @ \cup {h}]
            /\ pc' = [pc EXCEPT ![h] = "job"]
            /\ UNCHANGED <<op, doc, job, docLock, jobLock, inserted>>
        BY <1>2, <2>3 DEF ShareDocument, Goto, local
      <3>2. pc'[h] = "job"
        BY <2>1, <3>1 DEF TypeOK
      <3>3. Holds(h)'
        BY <2>1, <3>1, <3>2 DEF Holds, TypeOK
      <3>4. Exclusive'
        BY <2>1, <3>1 DEF OrderInv, Exclusive, TypeOK
      <3>5. ASSUME NEW u \in Transactions, u # h PROVE Untouched(u)
        BY <2>1, <3>1, <3>5 DEF Untouched, TypeOK
      <3> QED
        BY <2>1, <3>1, <3>2, <3>3, <3>4, <3>5, OthersHold
    <2>4. CASE ShareJob(h)
      <3>1. /\ pc[h] = "job" /\ jobLock[job[h]] = None
            /\ jobLock' = [jobLock EXCEPT ![job[h]] = h] /\ pc' = [pc EXCEPT ![h] = "write"]
            /\ UNCHANGED <<op, doc, job, docLock, docShare, inserted>>
        BY <1>2, <2>4 DEF ShareJob, Goto, local
      <3>2. pc'[h] = "write"
        BY <2>1, <3>1 DEF TypeOK
      <3>3. Holds(h)'
        BY <2>1, <3>1, <3>2 DEF Holds, TypeOK
      <3>4. Exclusive'
        BY <3>1 DEF OrderInv, Exclusive
      <3>5. ASSUME NEW u \in Transactions, u # h PROVE Untouched(u)
        BY <2>1, <3>1, <3>5, ParseApiAssumption DEF Untouched, TypeOK, Transactions
      <3> QED
        BY <2>1, <3>1, <3>2, <3>3, <3>4, <3>5, OthersHold
    <2> QED
      BY <1>2, <2>2, <2>3, <2>4 DEF Completion, UpdateCompleted, Rollback
  <1> QED
    BY <1>1, <1>2

(* A step that is no transaction's leaves the locks alone.                 *)
LEMMA LocksStay ==
  ASSUME Inv, OrderInv, [Next]_vars, UNCHANGED <<pc, op, doc, job>>, UNCHANGED locks
  PROVE  OrderInv'
  <1>1. (\A t \in Transactions : Holds(t)') /\ Exclusive'
    BY DEF OrderInv, Holds, Exclusive, locks
  <1>2. ASSUME NEW h \in Handlers, pc[h] # "idle"
        PROVE  status'[job[h]] # "absent" /\ doc[h] = document_id'[job[h]]
    BY <1>2, JobsStay DEF Inv, Targets, OrderInv, Kinds
  <1> QED
    BY <1>1, <1>2 DEF OrderInv, Kinds

LEMMA OrderNext == Inv /\ OrderInv /\ [Next]_vars => OrderInv'
  <1> SUFFICES ASSUME Inv, OrderInv, [Next]_vars PROVE OrderInv'
    OBVIOUS
  <1>1. ASSUME NEW r \in Requests, NEW d \in Documents, BeginCreate(r, d) \/ BeginDelete(r, d)
        PROVE  OrderInv'
    <2>1. PICK kind \in {"create", "delete"} : Begin(r, kind, d, None)
      BY <1>1 DEF BeginCreate, BeginDelete
    <2>2. r \in Transactions /\ r \notin Handlers /\ op'[r] # "retry" => None = None
      BY ParseApiAssumption DEF Transactions
    <2> QED
      BY <2>1, <2>2, BeginHolds, ParseApiAssumption DEF Begin, Transactions, Inv, TypeOK
  <1>2. ASSUME NEW r \in Requests, NEW j \in Jobs, BeginRetry(r, j)
        PROVE  OrderInv'
    <2>1. Begin(r, "retry", document_id[j], j)
      BY <1>2 DEF BeginRetry
    <2>2. op' = [op EXCEPT ![r] = "retry"] /\ op'[r] = "retry"
      BY <2>1 DEF Begin, Inv, TypeOK
    <2> QED
      BY <2>1, <2>2, BeginHolds, ParseApiAssumption DEF Begin, Transactions, Inv, TypeOK
  <1>3. ASSUME NEW h \in Handlers, NEW j \in Jobs, BeginComplete(h, j)
        PROVE  OrderInv'
    <2>1. h \in Transactions /\ h \notin Requests
      BY ParseApiAssumption DEF Transactions
    <2> QED
      BY <1>3, <2>1, BeginHolds DEF BeginComplete
  <1>4. ASSUME NEW t \in Transactions, Lost(t)
        PROVE  OrderInv'
    BY <1>4, EndFrees DEF Lost, Rollback
  <1>5. ASSUME NEW j \in Jobs, WorkerUpdate(j)
        PROVE  OrderInv'
    BY <1>5, LocksStay DEF WorkerUpdate, local
  <1>6. CASE UNCHANGED vars
    BY <1>6, LocksStay DEF vars, local
  <1> QED
    BY <1>1, <1>2, <1>3, <1>4, <1>5, <1>6, RequestHolds, CompletionHolds DEF Next

(* The row lock of a document stands before that of its jobs, and the      *)
(* result of a job before both, in all requests and in the completion      *)
(* transaction of the workers: whatever is under way, who waits waits for  *)
(* one that has come further, so nobody waits in a circle, and while any   *)
(* are under way there is one whose next statement finds its locks free.   *)
THEOREM ApiLockOrder == Spec => [](WaitsForward /\ SomebodyRuns)
  <1>1. Init => OrderInv
    BY ParseApiAssumption
    DEF Init, OrderInv, Holds, Kinds, Exclusive, Transactions
  <1>2. Spec => []OrderInv
    BY <1>1, OrderNext, InvHolds, PTL DEF Spec
  <1>3. ASSUME Inv, OrderInv PROVE WaitsForward
    <2>1. ASSUME NEW t \in Transactions, NEW u \in Transactions, WaitsFor(t, u)
          PROVE  pc[t] # "idle" /\ Stage[pc[t]] < Stage[pc[u]]
      <3>1. /\ Holds(t) /\ Holds(u) /\ Requests \cap Handlers = {} /\ TypeOK
            /\ t \in Requests \/ t \in Handlers
        BY <1>3, ParseApiAssumption DEF OrderInv, Inv, Transactions
      <3>2. CASE t \in Requests /\ pc[t] = "document"
        <4>1. doc[t] \in Documents
          BY <1>3, <3>2 DEF Inv, Targets
        <4>2. pc[u] \in {"job", "write"}
          BY <2>1, <3>1, <3>2, <4>1 DEF WaitsFor, Holds
        <4> QED
          BY <3>2, <4>2 DEF Stage
      <3>3. CASE t \in Requests /\ pc[t] = "job" /\ op[t] = "retry"
        <4>1. /\ doc[t] \in Documents /\ job[t] \in Jobs /\ document_id[job[t]] = doc[t]
              /\ docLock[doc[t]] = t /\ docShare[doc[t]] = {} /\ t # None
          BY <1>3, <3>1, <3>3, ParseApiAssumption DEF Inv, Targets, Holds, OrderInv, Exclusive
        <4>2. pc[u] = "write" /\ job[u] = job[t]
          BY <2>1, <3>1, <3>3, <4>1 DEF WaitsFor, Holds
        <4>3. doc[u] = doc[t]
          BY <1>3, <4>1, <4>2, ParseApiAssumption
          DEF Inv, Targets, OrderInv, Kinds, Transactions, TypeOK
        <4>4. docLock[doc[t]] = u \/ u \in docShare[doc[t]]
          BY <3>1, <4>1, <4>2, <4>3 DEF Holds, Transactions
        <4> QED
          BY <2>1, <4>1, <4>4 DEF WaitsFor
      <3>4. CASE t \in Handlers /\ pc[t] = "insert"
        <4>1. job[t] \in Jobs
          BY <1>3, <3>4 DEF Inv, Targets
        <4>2. pc[u] \in {"document", "job", "write"}
          BY <2>1, <3>1, <3>4, <4>1 DEF WaitsFor, Holds
        <4> QED
          BY <3>4, <4>2 DEF Stage
      <3>5. CASE t \in Handlers /\ pc[t] = "document"
        <4>1. doc[t] \in Documents
          BY <1>3, <3>5 DEF Inv, Targets
        <4>2. pc[u] \in {"job", "write"}
          BY <2>1, <3>1, <3>5, <4>1 DEF WaitsFor, Holds
        <4> QED
          BY <3>5, <4>2 DEF Stage
      <3>6. CASE t \in Handlers /\ pc[t] = "job"
        <4>1. /\ doc[t] \in Documents /\ job[t] \in Jobs /\ document_id[job[t]] = doc[t]
              /\ t \in docShare[doc[t]] /\ inserted[job[t]] = t
          BY <1>3, <3>1, <3>6 DEF Inv, Targets, Holds, OrderInv, Kinds
        <4>2. pc[u] = "write" /\ job[u] = job[t]
          BY <2>1, <3>1, <3>6, <4>1 DEF WaitsFor, Holds
        <4>3. CASE u \in Handlers
          <5>1. inserted[job[t]] = u
            BY <3>1, <4>1, <4>2, <4>3 DEF Holds
          <5> QED
            BY <2>1, <4>1, <5>1 DEF WaitsFor
        <4>4. CASE u \in Requests
          <5>1. op[u] = "retry"
            BY <1>3, <4>1, <4>2, <4>4, ParseApiAssumption DEF OrderInv, Kinds
          <5>2. doc[u] = doc[t]
            BY <1>3, <4>1, <4>2, <4>4, <5>1 DEF Inv, Targets
          <5>3. docLock[doc[t]] = u /\ u # None
            BY <3>1, <4>1, <4>2, <4>4, <5>2, ParseApiAssumption DEF Holds
          <5> QED
            BY <1>3, <4>1, <5>3 DEF OrderInv, Exclusive
        <4> QED
          BY <4>3, <4>4 DEF Transactions
      <3> QED
        BY <2>1, <3>1, <3>2, <3>3, <3>4, <3>5, <3>6 DEF WaitsFor
    <2> QED
      BY <2>1 DEF WaitsForward
  <1>4. ASSUME Inv, OrderInv, WaitsForward PROVE SomebodyRuns
    <2> DEFINE Free(t) == \A u \in Transactions : ~WaitsFor(t, u)
    <2>1. ASSUME NEW t \in Transactions
          PROVE  pc[t] \in {"idle", "insert", "document", "job", "write"}
      BY <1>4 DEF Inv, TypeOK
    <2>2. ASSUME NEW t \in Transactions, pc[t] \in {"job", "write"} PROVE Free(t)
      BY <1>4, <2>1, <2>2 DEF WaitsForward, Stage
    <2>3. ASSUME NEW t \in Transactions, pc[t] = "document",
                 \A u \in Transactions : pc[u] \notin {"job", "write"}
          PROVE  Free(t)
      BY <1>4, <2>1, <2>3 DEF WaitsForward, Stage
    <2>4. ASSUME NEW t \in Transactions, pc[t] = "insert",
                 \A u \in Transactions : pc[u] \in {"idle", "insert"}
          PROVE  Free(t)
      BY <1>4, <2>4 DEF WaitsForward, Stage
    <2>6. ASSUME NEW t \in Transactions, pc[t] # "idle", Free(t) PROVE CanLock(t)
      <3>1. /\ TypeOK /\ Holds(t) /\ None \notin Transactions
            /\ doc[t] \in Documents
            /\ t \in Requests /\ op[t] = "retry" => job[t] \in Jobs
            /\ t \in Handlers => job[t] \in Jobs
        BY <1>4, <2>6, ParseApiAssumption DEF Inv, Targets, OrderInv, Transactions
      <3>2. ASSUME NEW d \in Documents
            PROVE  docLock[d] \in Requests \cup {None} /\ docShare[d] \in SUBSET Handlers
        BY <3>1 DEF TypeOK
      <3>3. ASSUME NEW j \in Jobs
            PROVE  jobLock[j] \in Transactions \cup {None} /\ inserted[j] \in Handlers \cup {None}
        BY <3>1 DEF TypeOK
      <3> QED
        BY <2>6, <3>1, <3>2, <3>3, ParseApiAssumption DEF CanLock, WaitsFor, Holds, Transactions
    <2> HIDE DEF Free
    <2>5. ASSUME NEW t \in Transactions, pc[t] # "idle"
          PROVE  \E u \in Transactions : pc[u] # "idle" /\ CanLock(u)
      <3>1. PICK u \in Transactions : pc[u] # "idle" /\ Free(u)
        BY <2>1, <2>2, <2>3, <2>4, <2>5
      <3> QED
        BY <3>1, <2>6
    <2> QED
      BY <2>5 DEF SomebodyRuns
  <1> QED
    BY <1>2, <1>3, <1>4, InvHolds, PTL DEF Inv
=============================================================================
