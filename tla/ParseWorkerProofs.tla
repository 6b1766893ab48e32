-------------------------- MODULE ParseWorkerProofs --------------------------
(* Theorems about ParseWorker, for every value of its constants. *)
EXTENDS ParseWorker, FiniteSetTheorems, TLAPS

\* Whatever entry a loop, the group or the stream holds names a job.
QueueKnown ==
  /\ \A i \in 1..Len(stream) : job_id[stream[i]] \in Jobs
  /\ idle \subseteq pel
  /\ \A m \in pel : job_id[m] \in Jobs
HandlersKnown ==
  /\ \A g \in Goroutines : \A m \in inbox[g] : job_id[m] \in Jobs
  /\ \A g \in Goroutines : pc[g] \in Handling => msg[g] \in Messages /\ Job(g) \in Jobs
  /\ \A r \in Reclaimers : pc[r] = "republish" => recovered[r] \in Jobs
EntriesKnown == QueueKnown /\ HandlersKnown

(* The tables of migrate.sql start empty and every loop starts in its first wait. *)
LEMMA InitType == Init => TypeOK /\ EntriesKnown
  BY ParseWorkerAssumption
  DEF Init, TypeOK, Contract!Init, Contract!TypeOK, Contract!Status, PC, Handling,
      Goroutines, EntriesKnown, QueueKnown, HandlersKnown

\* The type invariant in four parts.
TablesOK ==
  /\ Contract!TypeOK
  /\ started_at \in [Jobs -> Nat] /\ claims \in [Jobs -> Nat]
  /\ recoveries \in [Jobs -> Nat]
  /\ leaseExpired \subseteq Jobs /\ due \subseteq Jobs

TablesStep(j) ==
  \/ MarkProcessing(j) \/ MarkFailed(j) \/ MarkSuccess(j) \/ UNCHANGED tables

(* An update of a worker keeps the rows of the tables well formed. *)
LEMMA TablesType ==
  ASSUME TablesOK, NEW j \in Jobs, TablesStep(j)
  PROVE  TablesOK'
  <1> USE DEF TablesOK, Contract!TypeOK, Contract!Status, tables, rows, claimVars
  <1>1. CASE MarkProcessing(j)
    BY <1>1 DEF MarkProcessing
  <1>2. CASE MarkFailed(j)
    BY <1>2 DEF MarkFailed
  <1>3. CASE MarkSuccess(j)
    BY <1>3 DEF MarkSuccess
  <1>4. CASE UNCHANGED tables
    BY <1>4
  <1>5. QED
    BY <1>1, <1>2, <1>3, <1>4 DEF TablesStep

(* Typing of everything else. *)
QueueOK ==
  /\ idle \subseteq Messages
  /\ stream \in Seq(Messages) /\ pel \subseteq Messages
  /\ job_id \in [Messages -> Jobs \cup {None}]
HandlersOK ==
  /\ pc \in [Goroutines -> PC]
  /\ inbox \in [Goroutines -> SUBSET Messages]
  /\ msg \in [Goroutines -> Messages \cup {None}]
  /\ claimed \in [Goroutines -> BOOLEAN]
LoopsOK ==
  /\ stale \in [Reclaimers -> SUBSET StaleRow]
  /\ recovered \in [Reclaimers -> Jobs \cup {None}]
  /\ todo \in [Workers -> SUBSET Jobs]
  /\ touching \in [Workers -> Jobs \cup {None}]
  /\ unpublished \subseteq Jobs /\ late \subseteq Statement /\ faults \in Nat

(* The type invariant, one part per kind of state. *)
LEMMA TypeParts == TypeOK <=> TablesOK /\ QueueOK /\ HandlersOK /\ LoopsOK
  BY DEF TypeOK, TablesOK, QueueOK, HandlersOK, LoopsOK

(* XADD adds an entry that names a job and touches no entry somebody holds. *)
LEMMA PublishType ==
  ASSUME TypeOK, EntriesKnown, NEW j \in Jobs, Publish(j)
  PROVE  /\ QueueOK'
         /\ \A i \in 1..Len(stream') : job_id'[stream'[i]] \in Jobs
         /\ \A m \in Messages : InUse(m) => job_id'[m] = job_id[m]
         /\ UNCHANGED <<pel, idle>>
         /\ faults' \in Nat
  <1> USE DEF TypeOK
  <1>1. CASE Added(j) /\ NoFault
    <2>1. PICK m \in Free : stream' = Append(stream, m)
                         /\ job_id' = [job_id EXCEPT ![m] = j]
                         /\ UNCHANGED <<pel, idle>>
      BY <1>1 DEF Added
    <2>2. m \in Messages /\ ~InUse(m)
      BY DEF Free
    <2>3. \A i \in 1..Len(stream) : stream[i] # m
      BY <2>2 DEF InUse
    <2>4. \A i \in 1..Len(stream') : job_id'[stream'[i]] \in Jobs
      BY <2>1, <2>2, <2>3 DEF EntriesKnown, QueueKnown
    <2>5. QED
      BY <1>1, <2>1, <2>2, <2>4 DEF QueueOK, NoFault
  <1>2. CASE UNCHANGED streamVars /\ (NoFault \/ Fault)
    BY <1>2 DEF streamVars, QueueOK, EntriesKnown, QueueKnown, NoFault, Fault
  <1>3. QED
    BY <1>1, <1>2 DEF Publish, PublishOk, PublishLost

\* The typing part of the inductive invariant.
Shape == TablesOK /\ QueueOK /\ HandlersOK /\ LoopsOK /\ EntriesKnown

(* The UPDATE of recoverStaleJobs keeps the rows well formed. *)
LEMMA ResetType ==
  ASSUME TablesOK, NEW row \in StaleRow, Reset(row)
  PROVE  TablesOK'
  <1>1. row.job \in Jobs /\ row.retry_count + 1 \in Nat
    BY DEF StaleRow
  <1>2. Contract!TypeOK'
    BY <1>1 DEF TablesOK, Contract!TypeOK, Contract!Status, Reset
  <1>3. QED
    BY <1>1, <1>2 DEF TablesOK, Reset

(* Reading or trimming the oldest entry leaves a stream of entries that name jobs. *)
LEMMA HeadTail ==
  ASSUME Shape, stream # <<>>
  PROVE  /\ Head(stream) \in Messages /\ job_id[Head(stream)] \in Jobs
         /\ Tail(stream) \in Seq(Messages)
         /\ \A i \in 1..Len(Tail(stream)) : job_id[Tail(stream)[i]] \in Jobs
  BY DEF Shape, QueueOK, EntriesKnown, QueueKnown

(* Moving on within handleMessage keeps the message of the handler. *)
LEMMA StepShape ==
  ASSUME Shape, NEW g \in Goroutines, NEW from \in Handling, NEW to \in Handling,
         Step(g, from, to), UNCHANGED <<job_id, recovered>>
  PROVE  HandlersOK' /\ HandlersKnown'
  <1> USE DEF Shape, HandlersOK, EntriesKnown, HandlersKnown, Step, Goto, Job
  <1>1. HandlersOK'
    BY DEF PC
  <1>2. \A h \in Goroutines : pc'[h] \in Handling => pc[h] \in Handling
    OBVIOUS
  <1>3. to # "republish"
    BY DEF Handling
  <1>4. Reclaimers \subseteq Goroutines
    BY DEF Goroutines
  <1>5. \A r \in Reclaimers : pc'[r] = "republish" => pc[r] = "republish"
    BY <1>3, <1>4
  <1>6. QED
    BY <1>1, <1>2, <1>5

(* Leaving handleMessage keeps the batch of the loop. *)
LEMMA ReleaseShape ==
  ASSUME Shape, NEW g \in Goroutines, Release(g), UNCHANGED <<job_id, recovered>>
  PROVE  HandlersOK' /\ HandlersKnown'
  BY DEF Shape, HandlersOK, EntriesKnown, HandlersKnown, Release, Goto, Job, PC, Handling,
         Goroutines

(* PublishType, from the invariant of this module. *)
LEMMA PublishShape ==
  ASSUME Shape, NEW j \in Jobs, Publish(j)
  PROVE  /\ QueueOK' /\ QueueKnown' /\ faults' \in Nat
         /\ \A m \in Messages : InUse(m) => job_id'[m] = job_id[m]
  <1>1. TypeOK /\ EntriesKnown
    BY TypeParts DEF Shape
  <1>2. /\ QueueOK' /\ UNCHANGED <<pel, idle>> /\ faults' \in Nat
        /\ \A i \in 1..Len(stream') : job_id'[stream'[i]] \in Jobs
        /\ \A m \in Messages : InUse(m) => job_id'[m] = job_id[m]
    BY <1>1, PublishType
  <1>3. \A m \in pel : m \in Messages /\ InUse(m) /\ job_id[m] \in Jobs
    BY <1>1 DEF Shape, QueueOK, EntriesKnown, QueueKnown, InUse
  <1>4. QED
    BY <1>1, <1>2, <1>3 DEF EntriesKnown, QueueKnown

(* A publication of another process leaves what the handlers hold as it is. *)
LEMMA PublishFrame ==
  ASSUME Shape, NEW j \in Jobs, Publish(j), UNCHANGED <<handlers, recovered>>
  PROVE  HandlersOK' /\ HandlersKnown'
  <1>1. \A m \in Messages : InUse(m) => job_id'[m] = job_id[m]
    BY PublishShape
  <1>2. QED
    BY <1>1 DEF EntriesKnown, HandlersKnown, handlers, Job, InUse, Shape, HandlersOK

(* A step that does not call Redis leaves the queue as it is. *)
LEMMA QueueFrame ==
  ASSUME Shape, UNCHANGED streamVars
  PROVE  QueueOK' /\ QueueKnown'
  BY DEF Shape, streamVars, QueueOK, EntriesKnown, QueueKnown

(* Every call of the worker, every failure and every request keeps all state well formed. *)
LEMMA ShapeStep == Shape /\ [Next]_vars => Shape'
  <1>0. SUFFICES ASSUME Shape, [Next]_vars PROVE Shape'
    OBVIOUS
  <1> USE <1>0, ParseWorkerAssumption
      DEF Shape, TablesOK, QueueOK, HandlersOK, LoopsOK, EntriesKnown, QueueKnown,
          HandlersKnown, Contract!TypeOK, Contract!Status, PC, Handling, Job, Goroutines,
          NoFault, Fault, rows, claimVars, streamVars, handlers, sweepVars, reconVars,
          envVars, tables
  <1>1. ASSUME NEW j \in Jobs, NEW d \in Documents, Create(j, d) PROVE Shape'
    BY <1>1 DEF Create, Contract!Create
  <1>2. ASSUME NEW j \in Jobs, Retry(j) PROVE Shape'
    BY <1>2 DEF Retry, Contract!Retry
  <1>3. ASSUME NEW d \in Documents, Delete(d) PROVE Shape'
    BY <1>3 DEF Delete, Contract!Delete
  <1>4. ASSUME NEW j \in Jobs, PublishCommitted(j) PROVE Shape'
    <2>1. QueueOK' /\ QueueKnown' /\ HandlersKnown' /\ faults' \in Nat
      BY <1>4, PublishShape, PublishFrame DEF PublishCommitted, sweepVars
    <2>2. QED
      BY <1>4, <2>1 DEF PublishCommitted
  <1>5. ASSUME NEW g \in Goroutines, AcquireSlot(g) PROVE Shape'
    BY <1>5 DEF AcquireSlot, Goto
  <1>6. ASSUME NEW g \in Goroutines, HandleMessage(g) PROVE Shape'
    <2>1. CASE ClaimJob(g)
      <3>1. Job(g) \in Jobs
        BY <2>1 DEF ClaimJob
      <3>2. TablesOK'
        BY <2>1, <3>1, TablesType DEF ClaimJob, ClaimTx, TablesStep
      <3>3. QED
        BY <2>1, <3>2 DEF ClaimJob, Goto
    <2>2. CASE Reload(g)
      <3>1. Step(g, "reload", "load") \/ Step(g, "reload", "ack") \/ Release(g)
        BY <2>2 DEF Reload
      <3>2. HandlersOK' /\ HandlersKnown'
        BY <2>2, <3>1, StepShape, ReleaseShape DEF Reload
      <3>3. QED
        BY <2>2, <3>2 DEF Reload
    <2>3. CASE LoadDocument(g)
      <3>1. Step(g, "load", "parse") \/ Step(g, "load", "fail")
        BY <2>3 DEF LoadDocument
      <3>2. HandlersOK' /\ HandlersKnown'
        BY <2>3, <3>1, StepShape DEF LoadDocument
      <3>3. QED
        BY <2>3, <3>2 DEF LoadDocument
    <2>4. CASE Parse(g)
      <3>1. HandlersOK' /\ HandlersKnown'
        BY <2>4, StepShape DEF Parse
      <3>2. QED
        BY <2>4, <3>1 DEF Parse
    <2>5. CASE CompleteJob(g)
      <3>1. Job(g) \in Jobs
        BY <2>5 DEF CompleteJob
      <3>2. TablesOK'
        BY <2>5, <3>1, TablesType DEF CompleteJob, CompleteTx, TablesStep
      <3>3. HandlersOK' /\ HandlersKnown'
        BY <2>5, StepShape, ReleaseShape DEF CompleteJob
      <3>4. QED
        BY <2>5, <3>2, <3>3 DEF CompleteJob
    <2>6. CASE FailJob(g)
      <3>1. Job(g) \in Jobs
        BY <2>6 DEF FailJob
      <3>2. TablesOK'
        BY <2>6, <3>1, TablesType DEF FailJob, FailTx, TablesStep
      <3>3. HandlersOK' /\ HandlersKnown'
        BY <2>6, StepShape, ReleaseShape DEF FailJob
      <3>4. QED
        BY <2>6, <3>2, <3>3 DEF FailJob
    <2>7. CASE Ack(g)
      <3>1. HandlersOK' /\ HandlersKnown'
        BY <2>7, ReleaseShape DEF Ack
      <3>2. QED
        BY <2>7, <3>1 DEF Ack
    <2>8. QED
      BY <1>6, <2>1, <2>2, <2>3, <2>4, <2>5, <2>6, <2>7 DEF HandleMessage
  <1>7. ASSUME NEW g \in Goroutines, ClaimReplyLost(g) PROVE Shape'
    <2>1. Job(g) \in Jobs
      BY <1>7 DEF ClaimReplyLost
    <2>2. TablesOK'
      BY <1>7, <2>1, TablesType DEF ClaimReplyLost, ClaimTx, TablesStep
    <2>3. HandlersOK' /\ HandlersKnown'
      BY <1>7, ReleaseShape DEF ClaimReplyLost
    <2>4. QueueOK' /\ QueueKnown'
      BY <1>7, QueueFrame DEF ClaimReplyLost
    <2>5. LoopsOK'
      BY <1>7 DEF ClaimReplyLost
    <2>6. QED
      BY <2>2, <2>3, <2>4, <2>5
  <1>8. ASSUME NEW g \in Goroutines, EndReplyLost(g) PROVE Shape'
    <2>1. Job(g) \in Jobs
      BY <1>8 DEF EndReplyLost
    <2>2. TablesOK'
      BY <1>8, <2>1, TablesType DEF EndReplyLost, CompleteTx, FailTx, TablesStep
    <2>3. HandlersOK' /\ HandlersKnown'
      BY <1>8, ReleaseShape DEF EndReplyLost
    <2>4. QueueOK' /\ QueueKnown'
      BY <1>8, QueueFrame DEF EndReplyLost
    <2>5. LoopsOK'
      BY <1>8 DEF EndReplyLost
    <2>6. QED
      BY <2>2, <2>3, <2>4, <2>5
  <1>9. ASSUME NEW g \in Goroutines, LoadError(g) PROVE Shape'
    <2>1. HandlersOK' /\ HandlersKnown'
      BY <1>9, StepShape DEF LoadError
    <2>2. QED
      BY <1>9, <2>1 DEF LoadError
  <1>10. ASSUME NEW g \in Goroutines, GiveUp(g) PROVE Shape'
    <2>1. HandlersOK' /\ HandlersKnown'
      BY <1>10, ReleaseShape DEF GiveUp
    <2>2. QueueOK' /\ QueueKnown'
      BY <1>10, QueueFrame DEF GiveUp
    <2>3. Sent(g) \subseteq Statement
      BY <1>10 DEF GiveUp, Sent, Statement
    <2>4. LoopsOK'
      BY <1>10, <2>3 DEF GiveUp
    <2>5. TablesOK'
      BY <1>10 DEF GiveUp
    <2>6. QED
      BY <2>1, <2>2, <2>4, <2>5
  <1>11. ASSUME NEW c \in Consumers, Read(c) PROVE Shape'
    <2>1. QueueOK' /\ QueueKnown' /\ Head(stream) \in Messages
          /\ job_id[Head(stream)] \in Jobs
      BY <1>11, HeadTail DEF Read, Deliver
    <2>2. HandlersOK' /\ HandlersKnown'
      BY <1>11, <2>1 DEF Read, Deliver, Goto
    <2>3. QED
      BY <1>11, <2>1, <2>2 DEF Read, Deliver
  <1>12. ASSUME NEW c \in Consumers, ReadReplyLost(c) PROVE Shape'
    <2>1. QueueOK' /\ QueueKnown'
      BY <1>12, HeadTail DEF ReadReplyLost, Deliver
    <2>2. QED
      BY <1>12, <2>1 DEF ReadReplyLost, Deliver
  <1>13. ASSUME NEW r \in Reclaimers, ListStale(r) PROVE Shape'
    BY <1>13 DEF ListStale, Goto, StaleRow
  <1>14. ASSUME NEW r \in Reclaimers, Recover(r) PROVE Shape'
    <2>1. PICK row \in stale[r] : RecoverExhausted(r, row) \/ RecoverStale(r, row)
      BY <1>14 DEF Recover
    <2>2. row \in StaleRow /\ row.job \in Jobs /\ row.retry_count \in Nat /\ r \in Goroutines
      BY DEF StaleRow
    <2>3. CASE RecoverExhausted(r, row)
      <3>1. TablesOK'
        BY <2>2, <2>3, TablesType DEF RecoverExhausted, TablesStep
      <3>2. QED
        BY <2>2, <2>3, <3>1 DEF RecoverExhausted
    <2>4. CASE RecoverStale(r, row)
      <3>1. TablesOK'
        <4>1. CASE Reset(row)
          BY <2>2, <4>1, ResetType
        <4>2. CASE UNCHANGED tables
          BY <4>2
        <4>3. QED
          BY <2>4, <4>1, <4>2 DEF RecoverStale
      <3>2. HandlersOK' /\ recovered' \in [Reclaimers -> Jobs \cup {None}]
        <4>1. CASE recovered' = [recovered EXCEPT ![r] = row.job] /\ Step(r, "recover", "republish")
          BY <2>2, <4>1 DEF Step, Goto
        <4>2. CASE UNCHANGED <<recovered, handlers>>
          BY <4>2
        <4>3. QED
          BY <2>4, <4>1, <4>2 DEF RecoverStale
      <3>3. HandlersKnown'
        <4>1. CASE Step(r, "recover", "republish") /\ recovered' = [recovered EXCEPT ![r] = row.job]
          BY <2>2, <2>4, <4>1 DEF RecoverStale, Step, Goto
        <4>2. CASE UNCHANGED <<recovered, handlers>>
          BY <2>4, <4>2 DEF RecoverStale
        <4>3. QED
          BY <2>4, <4>1, <4>2 DEF RecoverStale
      <3>4. QED
        BY <2>2, <2>4, <3>1, <3>2, <3>3 DEF RecoverStale
    <2>5. QED
      BY <2>1, <2>3, <2>4
  <1>15. ASSUME NEW r \in Reclaimers, Republish(r) PROVE Shape'
    <2>1. recovered[r] \in Jobs /\ Publish(recovered[r]) /\ r \in Goroutines
      BY <1>15 DEF Republish, Step
    <2>2. QueueOK' /\ QueueKnown' /\ faults' \in Nat
      BY <2>1, PublishShape
    <2>3. \A m \in Messages : InUse(m) => job_id'[m] = job_id[m]
      BY <2>1, PublishShape
    <2>4. HandlersOK' /\ HandlersKnown'
      BY <1>15, <2>1, <2>3 DEF Republish, Step, Goto, InUse
    <2>5. QED
      BY <1>15, <2>2, <2>4 DEF Republish, Step
  <1>16. ASSUME NEW r \in Reclaimers, ClaimStale(r) PROVE Shape'
    BY <1>16 DEF ClaimStale, Goto
  <1>17. ASSUME NEW r \in Reclaimers, RecoverError(r) PROVE Shape'
    BY <1>17 DEF RecoverError
  <1>18. ASSUME NEW r \in Reclaimers, ClaimStaleError(r) PROVE Shape'
    BY <1>18 DEF ClaimStaleError, Goto
  <1>19. ASSUME NEW w \in Workers, ListDue(w) PROVE Shape'
    BY <1>19 DEF ListDue
  <1>20. ASSUME NEW w \in Workers, NEW j \in Jobs, ReconcilePublish(w, j) PROVE Shape'
    <2>1. Publish(j)
      BY <1>20 DEF ReconcilePublish, Publish
    <2>2. QueueOK' /\ QueueKnown' /\ HandlersKnown' /\ faults' \in Nat
      BY <1>20, <2>1, PublishShape, PublishFrame DEF ReconcilePublish, sweepVars
    <2>3. LoopsOK'
      <3>1. todo' \in [Workers -> SUBSET Jobs] /\ touching' \in [Workers -> Jobs \cup {None}]
        <4>1. CASE touching' = [touching EXCEPT ![w] = j] /\ UNCHANGED todo
          BY <4>1
        <4>2. CASE todo' = [todo EXCEPT ![w] = {}] /\ UNCHANGED touching
          BY <4>2
        <4>3. QED
          BY <1>20, <4>1, <4>2 DEF ReconcilePublish
      <3>2. QED
        BY <1>20, <2>2, <3>1 DEF ReconcilePublish
    <2>4. TablesOK' /\ HandlersOK'
      BY <1>20 DEF ReconcilePublish
    <2>5. QED
      BY <2>2, <2>3, <2>4 DEF ReconcilePublish
  <1>21. ASSUME NEW w \in Workers, ReconcileTouch(w) PROVE Shape'
    BY <1>21 DEF ReconcileTouch
  <1>22. ASSUME NEW w \in Workers, ReconcileError(w) PROVE Shape'
    BY <1>22 DEF ReconcileError
  <1>23. ASSUME NEW w \in Workers, Crash(w) PROVE Shape'
    BY <1>23 DEF Crash, Sent, Statement
  <1>24. ASSUME NEW s \in late, RunLate(s) PROVE Shape'
    <2>1. s[2] \in Jobs
      BY <1>24 DEF Statement
    <2>2. TablesOK'
      BY <1>24, <2>1, TablesType DEF RunLate, CompleteTx, FailTx, TablesStep
    <2>3. QED
      BY <1>24, <2>2 DEF RunLate
  <1>25. ASSUME NEW j \in Jobs, LeaseExpires(j) PROVE Shape'
    BY <1>25 DEF LeaseExpires
  <1>26. ASSUME NEW j \in Jobs, GraceElapses(j) PROVE Shape'
    BY <1>26 DEF GraceElapses
  <1>27. ASSUME NEW m \in Messages, BecomesIdle(m) PROVE Shape'
    BY <1>27 DEF BecomesIdle
  <1>28. ASSUME ApiCrash PROVE Shape'
    BY <1>28 DEF ApiCrash
  <1>29. ASSUME TrimBefore PROVE Shape'
    <2>1. QueueOK' /\ QueueKnown'
      BY <1>29, HeadTail DEF TrimBefore
    <2>2. QED
      BY <1>29, <2>1 DEF TrimBefore
  <1>30. ASSUME RedisLost PROVE Shape'
    BY <1>30 DEF RedisLost
  <1>31. ASSUME UNCHANGED vars PROVE Shape'
    BY <1>31 DEF vars
  <1>32. QED
    BY <1>0, <1>1, <1>2, <1>3, <1>4, <1>5, <1>6, <1>7, <1>8, <1>9, <1>10, <1>11,
       <1>12, <1>13, <1>14, <1>15, <1>16, <1>17, <1>18, <1>19, <1>20, <1>21, <1>22,
       <1>23, <1>24, <1>25, <1>26, <1>27, <1>28, <1>29, <1>30, <1>31
    DEF Next, Api, Time, Failure, ReclaimLoop, ReconcileLoop

(* Every reachable state has the declared types (TypeOK of the runs).      *)
THEOREM TypeCorrect == Spec => []TypeOK
  <1>1. Init => Shape
    BY InitType, TypeParts DEF Shape
  <1>2. Shape => TypeOK
    BY TypeParts DEF Shape
  <1>3. QED
    BY <1>1, <1>2, ShapeStep, PTL DEF Spec

-----------------------------------------------------------------------------
(* What a step does to the tables and to the rows the reclaim loops hold.  *)

\* No reclaim loop gets new rows.
Shrinks == \A r \in Reclaimers : stale'[r] \subseteq stale[r]

Claims(j)   == status[j] = "pending" /\ MarkProcessing(j) /\ Shrinks
Fails(j)    == CanFail(j) /\ MarkFailed(j) /\ Shrinks
Succeeds(j) == CanComplete(j) /\ MarkSuccess(j) /\ Shrinks
Resets(row) == /\ StillStale(row) /\ row.retry_count < MaxRecoveries
               /\ Reset(row) /\ Shrinks
Keeps       == UNCHANGED <<rows, claimVars, recoveries>> /\ Shrinks

Effect ==
  \/ \E j \in Jobs, d \in Documents : Create(j, d)
  \/ \E j \in Jobs : Retry(j) \/ Claims(j) \/ Fails(j) \/ Succeeds(j) \/ LeaseExpires(j)
  \/ \E d \in Documents : Delete(d)
  \/ \E r \in Reclaimers : ListStale(r) \/ (\E row \in stale[r] : Resets(row))
  \/ Keeps

(* Every step is one of eight kinds of updates of the tables, or leaves them alone. *)
LEMMA StepEffect == Shape /\ [Next]_vars => Effect
  <1>0. SUFFICES ASSUME Shape, [Next]_vars PROVE Effect
    OBVIOUS
  <1>a. /\ stale \in [Reclaimers -> SUBSET StaleRow]
        /\ \A g \in Goroutines : pc[g] \in Handling => Job(g) \in Jobs
        /\ late \subseteq Statement
    BY <1>0 DEF Shape, LoopsOK, EntriesKnown, HandlersKnown
  <1>1. ASSUME NEW j \in Jobs, NEW d \in Documents, Create(j, d) PROVE Effect
    BY <1>1 DEF Effect
  <1>2. ASSUME NEW j \in Jobs, Retry(j) PROVE Effect
    BY <1>2 DEF Effect
  <1>3. ASSUME NEW d \in Documents, Delete(d) PROVE Effect
    BY <1>3 DEF Effect
  <1>4. ASSUME UNCHANGED <<tables, sweepVars>> PROVE Effect
    BY <1>4 DEF tables, sweepVars, Effect, Keeps, Shrinks
  <1>5. ASSUME NEW g \in Goroutines, ClaimJob(g) \/ ClaimReplyLost(g) PROVE Effect
    <2>1. Job(g) \in Jobs /\ Shrinks /\ ClaimTx(Job(g)) /\ UNCHANGED sweepVars
      BY <1>5, <1>a DEF ClaimJob, ClaimReplyLost, sweepVars, Shrinks, Handling
    <2>2. QED
      BY <1>4, <2>1 DEF ClaimTx, Claims, Effect
  <1>6. ASSUME NEW j \in Jobs, CompleteTx(j) \/ FailTx(j), UNCHANGED sweepVars PROVE Effect
    <2>1. Shrinks
      BY <1>6 DEF sweepVars, Shrinks
    <2>2. QED
      BY <1>4, <1>6, <2>1 DEF CompleteTx, FailTx, Succeeds, Fails, Effect
  <1>7. ASSUME NEW g \in Goroutines, CompleteJob(g) \/ FailJob(g) \/ EndReplyLost(g)
        PROVE  Effect
    <2>1. Job(g) \in Jobs
      BY <1>7, <1>a DEF CompleteJob, FailJob, EndReplyLost, Handling
    <2>2. QED
      BY <1>6, <1>7, <2>1 DEF CompleteJob, FailJob, EndReplyLost
  <1>8. ASSUME NEW s \in late, RunLate(s) PROVE Effect
    <2>1. s[2] \in Jobs
      BY <1>a DEF Statement
    <2>2. QED
      BY <1>6, <1>8, <2>1 DEF RunLate
  <1>9. ASSUME NEW r \in Reclaimers, NEW row \in stale[r], RecoverExhausted(r, row)
        PROVE  Effect
    <2>1. Shrinks
      BY <1>9, <1>a DEF RecoverExhausted, Shrinks
    <2>2. row.job \in Jobs
      BY <1>a DEF StaleRow
    <2>3. CASE StillStale(row)
      BY <1>9, <2>1, <2>2, <2>3 DEF RecoverExhausted, StillStale, CanFail, Fails, Effect
    <2>4. CASE ~StillStale(row)
      BY <1>9, <2>1, <2>4 DEF RecoverExhausted, Effect, Keeps, tables
    <2>5. QED
      BY <2>3, <2>4
  <1>10. ASSUME NEW r \in Reclaimers, NEW row \in stale[r], RecoverStale(r, row)
         PROVE  Effect
    <2>1. Shrinks
      BY <1>10, <1>a DEF RecoverStale, Shrinks
    <2>2. (StillStale(row) /\ Reset(row)) \/ UNCHANGED tables
      BY <1>10 DEF RecoverStale
    <2>3. QED
      BY <1>10, <2>1, <2>2 DEF RecoverStale, Resets, Effect, Keeps, tables
  <1>11. ASSUME NEW r \in Reclaimers, ListStale(r) PROVE Effect
    BY <1>11 DEF Effect
  <1>12. ASSUME NEW r \in Reclaimers, Republish(r) \/ RecoverError(r) PROVE Effect
    <2>1. Shrinks
      BY <1>12, <1>a DEF Republish, RecoverError, Shrinks
    <2>2. QED
      BY <1>12, <2>1 DEF Republish, RecoverError, Effect, Keeps, tables
  <1>13. ASSUME NEW w \in Workers, Crash(w) PROVE Effect
    <2>1. Shrinks
      BY <1>13, <1>a DEF Crash, Shrinks
    <2>2. QED
      BY <1>13, <2>1 DEF Crash, Effect, Keeps, tables
  <1>14. ASSUME NEW w \in Workers, ReconcileTouch(w) PROVE Effect
    BY <1>14 DEF ReconcileTouch, Effect, Keeps, Shrinks, sweepVars
  <1>15. ASSUME NEW j \in Jobs, LeaseExpires(j) \/ GraceElapses(j) PROVE Effect
    BY <1>15 DEF GraceElapses, Effect, Keeps, Shrinks, sweepVars
  <1>16. ASSUME NEW j \in Jobs, PublishCommitted(j) PROVE Effect
    BY <1>16, <1>4 DEF PublishCommitted
  <1>17. ASSUME NEW g \in Goroutines,
                \/ AcquireSlot(g) \/ Reload(g) \/ LoadDocument(g) \/ LoadError(g)
                \/ Parse(g) \/ Ack(g) \/ GiveUp(g)
         PROVE  Effect
    BY <1>17, <1>4 DEF AcquireSlot, Reload, LoadDocument, LoadError, Parse, Ack, GiveUp
  <1>18. ASSUME NEW c \in Consumers, Read(c) \/ ReadReplyLost(c) PROVE Effect
    BY <1>18, <1>4 DEF Read, ReadReplyLost, handlers
  <1>19. ASSUME NEW r \in Reclaimers, ClaimStale(r) \/ ClaimStaleError(r) PROVE Effect
    BY <1>19, <1>4 DEF ClaimStale, ClaimStaleError
  <1>20. ASSUME NEW w \in Workers,
                ListDue(w) \/ ReconcileError(w) \/ (\E j \in todo[w] : ReconcilePublish(w, j))
         PROVE  Effect
    BY <1>20, <1>4 DEF ListDue, ReconcileError, ReconcilePublish
  <1>21. ASSUME NEW m \in Messages, BecomesIdle(m) PROVE Effect
    BY <1>21, <1>4 DEF BecomesIdle
  <1>22. ASSUME ApiCrash \/ TrimBefore \/ RedisLost PROVE Effect
    BY <1>22, <1>4 DEF ApiCrash, TrimBefore, RedisLost
  <1>23. ASSUME UNCHANGED vars PROVE Effect
    BY <1>23, <1>4 DEF vars, tables
  <1>24. QED
    BY <1>0, <1>1, <1>2, <1>3, <1>5, <1>7, <1>8, <1>9, <1>10, <1>11, <1>12, <1>13,
       <1>14, <1>15, <1>16, <1>17, <1>18, <1>19, <1>20, <1>21, <1>22, <1>23
    DEF Next, Api, HandleMessage, ReclaimLoop, Recover, ReconcileLoop, Time, Failure

-----------------------------------------------------------------------------
(* Why the count that recoverStaleJobs writes is current: the rows its list *)
(* query returned carry a start not later than the last claim, and a row    *)
(* whose job was not claimed since still tells the retry count of that job. *)

Stamps ==
  /\ \A j \in Jobs : started_at[j] <= claims[j]
  /\ \A r \in Reclaimers : \A row \in stale[r] :
       /\ row.started_at <= claims[row.job]
       /\ StillStale(row) => /\ row.retry_count = retry_count[row.job]
                             /\ row.job \in leaseExpired

IInv == Shape /\ Stamps /\ RecoveryBudget

(* The inductive invariant holds when the tables are empty. *)
LEMMA InitIInv == Init => IInv
  BY InitType, TypeParts, ParseWorkerAssumption
  DEF IInv, Shape, Init, Contract!Init, Stamps, RecoveryBudget

(* Rows of an earlier list query stay right when a row can only stop being stale. *)
LEMMA ShrinksStamps ==
  ASSUME Shape, Stamps, Shrinks,
         \A j \in Jobs : /\ started_at'[j] <= claims'[j]
                         /\ claims[j] <= claims'[j] /\ claims'[j] \in Nat,
         \A r \in Reclaimers : \A row \in stale[r] : StillStale(row)' =>
           /\ StillStale(row)
           /\ retry_count'[row.job] = retry_count[row.job]
           /\ row.job \in leaseExpired => row.job \in leaseExpired'
  PROVE  Stamps'
  <1>1. SUFFICES ASSUME NEW r \in Reclaimers, NEW row \in stale'[r]
                 PROVE  /\ row.started_at <= claims'[row.job]
                        /\ StillStale(row)' => /\ row.retry_count = retry_count'[row.job]
                                               /\ row.job \in leaseExpired'
    BY DEF Stamps
  <1>2. row \in stale[r] /\ row \in StaleRow
    BY DEF Shrinks, Shape, LoopsOK
  <1>3. row.job \in Jobs /\ row.started_at \in Nat /\ claims[row.job] \in Nat
    BY <1>2 DEF StaleRow, Shape, TablesOK
  <1>4. row.started_at <= claims[row.job] /\ claims[row.job] <= claims'[row.job]
    BY <1>2, <1>3 DEF Stamps
  <1>5. QED
    BY <1>2, <1>3, <1>4 DEF Stamps

(* A claim takes a new stamp, so an older list query no longer matches the row. *)
LEMMA StampsStep == Shape /\ Stamps /\ Effect => Stamps' 
  <1>0. SUFFICES ASSUME Shape, Stamps, Effect PROVE Stamps'
    OBVIOUS
  <1>a. /\ status \in [Jobs -> Contract!Status] /\ started_at \in [Jobs -> Nat]
        /\ claims \in [Jobs -> Nat] /\ retry_count \in [Jobs -> Nat]
        /\ leaseExpired \subseteq Jobs
        /\ \A r \in Reclaimers : \A row \in stale[r] :
             row.job \in Jobs /\ row.started_at \in Nat /\ row.started_at <= claims[row.job]
        /\ \A j \in Jobs : started_at[j] <= claims[j]
    BY <1>0 DEF Shape, TablesOK, Contract!TypeOK, LoopsOK, StaleRow, Stamps
  <1> USE DEF StillStale
  <1>1. ASSUME NEW j \in Jobs, NEW d \in Documents, Create(j, d) PROVE Stamps'
    <2>1. Shrinks
      BY <1>1 DEF Create, sweepVars, Shrinks
    <2>2. QED
      BY <1>0, <1>a, <1>1, <2>1, ShrinksStamps DEF Create, Contract!Create, claimVars
  <1>2. ASSUME NEW j \in Jobs, Retry(j) PROVE Stamps'
    <2>1. Shrinks
      BY <1>2 DEF Retry, sweepVars, Shrinks
    <2>2. QED
      BY <1>0, <1>a, <1>2, <2>1, ShrinksStamps DEF Retry, Contract!Retry
  <1>3. ASSUME NEW j \in Jobs, Claims(j) PROVE Stamps'
    BY <1>0, <1>a, <1>3, ShrinksStamps DEF Claims, MarkProcessing
  <1>4. ASSUME NEW j \in Jobs, Fails(j) PROVE Stamps'
    BY <1>0, <1>a, <1>4, ShrinksStamps DEF Fails, MarkFailed
  <1>5. ASSUME NEW j \in Jobs, Succeeds(j) PROVE Stamps'
    BY <1>0, <1>a, <1>5, ShrinksStamps DEF Succeeds, MarkSuccess
  <1>6. ASSUME NEW j \in Jobs, LeaseExpires(j) PROVE Stamps'
    <2>1. Shrinks
      BY <1>6 DEF LeaseExpires, sweepVars, Shrinks
    <2>2. QED
      BY <1>0, <1>a, <1>6, <2>1, ShrinksStamps DEF LeaseExpires, rows
  <1>7. ASSUME NEW d \in Documents, Delete(d) PROVE Stamps'
    <2>1. Shrinks
      BY <1>7 DEF Delete, sweepVars, Shrinks
    <2>2. QED
      BY <1>0, <1>a, <1>7, <2>1, ShrinksStamps DEF Delete, Contract!Delete, claimVars
  <1>8. ASSUME NEW r \in Reclaimers, ListStale(r) PROVE Stamps'
    <2>1. UNCHANGED <<status, started_at, claims, retry_count, leaseExpired>>
      BY <1>8 DEF ListStale, tables, rows, claimVars
    <2>2. \A q \in Reclaimers : \A row \in stale'[q] : row \in stale[q] \/
            /\ row.job \in leaseExpired /\ row.retry_count = retry_count[row.job]
            /\ row.started_at = started_at[row.job]
      BY <1>0, <1>8 DEF ListStale, Shape, LoopsOK
    <2>3. QED
      BY <1>0, <1>a, <2>1, <2>2 DEF Stamps
  <1>9. ASSUME NEW r \in Reclaimers, NEW row \in stale[r], Resets(row) PROVE Stamps'
    <2>1. row.job \in Jobs
      BY <1>a
    <2>2. QED
      BY <1>0, <1>a, <1>9, <2>1, ShrinksStamps DEF Resets, Reset
  <1>10. ASSUME Keeps PROVE Stamps'
    BY <1>0, <1>a, <1>10, ShrinksStamps DEF Keeps, rows, claimVars
  <1>11. QED
    BY <1>0, <1>1, <1>2, <1>3, <1>4, <1>5, <1>6, <1>7, <1>8, <1>9, <1>10 DEF Effect

(* Only recoverStaleJobs and Retry raise retry_count, and the first below the limit. *)
LEMMA BudgetStep == IInv /\ Effect => RecoveryBudget'
  <1>0. SUFFICES ASSUME IInv, Effect PROVE RecoveryBudget'
    OBVIOUS
  <1>a. /\ recoveries \in [Jobs -> Nat] /\ retry_count \in [Jobs -> Nat]
        /\ \A j \in Jobs : recoveries[j] <= MaxRecoveries /\ recoveries[j] <= retry_count[j]
    BY <1>0 DEF IInv, Shape, TablesOK, Contract!TypeOK, RecoveryBudget
  <1>1. ASSUME NEW j \in Jobs, Retry(j) PROVE RecoveryBudget'
    BY <1>a, <1>1 DEF Retry, Contract!Retry, RecoveryBudget
  <1>2. ASSUME NEW r \in Reclaimers, NEW row \in stale[r], Resets(row) PROVE RecoveryBudget'
    <2>1. row.job \in Jobs /\ row.retry_count \in Nat /\ row.retry_count = retry_count[row.job]
      BY <1>0, <1>2 DEF IInv, Shape, LoopsOK, StaleRow, Stamps, Resets
    <2>2. row.retry_count < MaxRecoveries /\ MaxRecoveries \in Nat
      BY <1>2, ParseWorkerAssumption DEF Resets
    <2>3. QED
      BY <1>a, <1>2, <2>1, <2>2 DEF Resets, Reset, RecoveryBudget
  <1>3. ASSUME UNCHANGED <<recoveries, retry_count>> PROVE RecoveryBudget'
    BY <1>a, <1>3 DEF RecoveryBudget
  <1>4. QED
    BY <1>0, <1>1, <1>2, <1>3
    DEF Effect, Create, Contract!Create, Claims, MarkProcessing, Fails, MarkFailed, Succeeds,
        MarkSuccess, LeaseExpires, Delete, Contract!Delete, ListStale, Keeps, rows, tables

(* The inductive invariant is preserved. *)
LEMMA IInvStep == IInv /\ [Next]_vars => IInv'
  BY ShapeStep, StepEffect, StampsStep, BudgetStep DEF IInv

(* The inductive invariant, for every behaviour of the worker. *)
LEMMA IInvHolds == Spec => []IInv
  BY InitIInv, IInvStep, PTL DEF Spec

(* Automatic recovery of a job is bounded: the comparison of the count read *)
(* by the list query with MaxRecoveries is enough, although two reclaim     *)
(* loops may treat the same row, and user retries raise the same counter.   *)
THEOREM RecoveryBounded == Spec => []RecoveryBudget
  BY IInvHolds, PTL DEF IInv

-----------------------------------------------------------------------------
(* The worker implements the lifecycle contract.                           *)

(* The worker starts where the contract starts. *)
LEMMA InitContract == Init => Contract!Init
  BY DEF Init

(* Every update of the tables is an action of the contract or leaves its rows alone. *)
LEMMA StepContract == IInv /\ Effect => [Contract!Next]_(Contract!vars)
  <1>0. SUFFICES ASSUME IInv, Effect PROVE [Contract!Next]_(Contract!vars)
    OBVIOUS
  <1> USE DEF Contract!Next, Contract!vars
  <1>1. ASSUME NEW j \in Jobs, NEW d \in Documents, Create(j, d) PROVE Contract!Next
    BY <1>1 DEF Create
  <1>2. ASSUME NEW j \in Jobs, Retry(j) PROVE Contract!Next
    BY <1>2 DEF Retry
  <1>3. ASSUME NEW d \in Documents, Delete(d) PROVE Contract!Next
    BY <1>3 DEF Delete
  <1>4. ASSUME NEW j \in Jobs, Claims(j) PROVE Contract!Next
    BY <1>4 DEF Claims, MarkProcessing, Contract!Claim
  <1>5. ASSUME NEW j \in Jobs, Fails(j) PROVE Contract!Next
    BY <1>5 DEF Fails, CanFail, MarkFailed, Contract!Fail
  <1>6. ASSUME NEW j \in Jobs, Succeeds(j) PROVE Contract!Next
    BY <1>6 DEF Succeeds, CanComplete, MarkSuccess, Contract!Complete
  <1>7. ASSUME NEW r \in Reclaimers, NEW row \in stale[r], Resets(row) PROVE Contract!Next
    <2>1. row.job \in Jobs /\ row.retry_count = retry_count[row.job]
      BY <1>0, <1>7 DEF IInv, Shape, LoopsOK, StaleRow, Stamps, Resets
    <2>2. retry_count \in [Jobs -> Nat]
      BY <1>0 DEF IInv, Shape, TablesOK, Contract!TypeOK
    <2>3. Contract!Recover(row.job)
      BY <1>7, <2>1, <2>2 DEF Resets, Reset, StillStale, Contract!Recover
    <2>4. QED
      BY <2>1, <2>3
  <1>8. ASSUME UNCHANGED rows PROVE UNCHANGED Contract!vars
    BY <1>8 DEF rows
  <1>9. QED
    BY <1>0, <1>1, <1>2, <1>3, <1>4, <1>5, <1>6, <1>7, <1>8
    DEF Effect, LeaseExpires, ListStale, Keeps, tables

(* Every behaviour of the worker processes, whatever crashes, is lost or    *)
(* comes late, is one the contract of the tables allows.                    *)
THEOREM Refinement == Spec => Lifecycle
  <1>1. IInv /\ [Next]_vars => [Contract!Next]_(Contract!vars)
    BY StepEffect, StepContract DEF IInv
  <1>2. QED
    BY InitContract, IInvHolds, <1>1, PTL DEF Spec, Lifecycle, Contract!Spec

(* Hence the workers keep what the contract keeps.                          *)
THEOREM WorkerKeepsTables ==
  Spec => [](Contract!OneActiveJob /\ Contract!ActiveJobHasDocument /\ Contract!ResultIffSuccess)
  BY Refinement, Contract!TablesCorrect, PTL DEF Lifecycle

(* A job that succeeded stays so: no late claim, completion, failure or    *)
(* recovery of any process touches its row.                                *)
THEOREM WorkerKeepsSuccess == Spec => Contract!SuccessIsFinal
  BY Refinement, Contract!SuccessStays, PTL DEF Lifecycle

(* Recovery never takes a job whose lease is not over.                      *)
THEOREM RecoveryWaitsForLease == Spec => RecoverOnlyExpired
  <1>1. ASSUME IInv, Effect
        PROVE  \A j \in Jobs : recoveries'[j] # recoveries[j] => j \in leaseExpired
    <2>1. recoveries \in [Jobs -> Nat]
      BY <1>1 DEF IInv, Shape, TablesOK
    <2>2. ASSUME NEW r \in Reclaimers, NEW row \in stale[r], Resets(row)
          PROVE  \A j \in Jobs : recoveries'[j] # recoveries[j] => j \in leaseExpired
      BY <1>1, <2>1, <2>2 DEF IInv, Stamps, Resets, Reset
    <2>3. QED
      BY <1>1, <2>2
      DEF Effect, Create, Retry, Claims, MarkProcessing, Fails, MarkFailed, Succeeds,
          MarkSuccess, LeaseExpires, Delete, ListStale, Keeps, tables
  <1>2. IInv /\ [Next]_vars =>
          [\A j \in Jobs : recoveries'[j] # recoveries[j] => j \in leaseExpired]_vars
    BY <1>1, StepEffect DEF IInv
  <1>3. QED
    BY IInvHolds, <1>2, PTL DEF Spec, RecoverOnlyExpired

-----------------------------------------------------------------------------
(* One live run per job, when no statement outlives its handler.           *)

Beyond == {"load", "parse", "complete", "fail"}

Owner ==
  /\ late = {}
  /\ \A g \in Goroutines : pc[g] \in Beyond => claimed[g]
  /\ RunOwnsJob /\ OneRun

(* Ownership survives a step that starts no run and takes no running job away. *)
LEMMA OwnerKeeps ==
  ASSUME Owner, late' = {},
         \A g \in Goroutines : pc'[g] \in Beyond => claimed'[g],
         \A g \in Goroutines, j \in Jobs : Working(g, j)' =>
           /\ Working(g, j)
           /\ status'[j] = status[j]
           /\ j \in leaseExpired' => j \in leaseExpired
  PROVE  Owner'
  BY DEF Owner, RunOwnsJob, OneRun

(* The handlers stand still: only the tables, the queue or the loops move. *)
LEMMA OwnerIdle ==
  ASSUME Shape, Owner, UNCHANGED <<pc, msg, claimed, late>>,
         \A m \in Messages : InUse(m) => job_id'[m] = job_id[m],
         \A j \in Jobs : status[j] = "processing" /\ j \notin leaseExpired =>
           status'[j] = status[j] /\ j \notin leaseExpired'
  PROVE  Owner'
  <1>1. \A g \in Goroutines, j \in Jobs : Working(g, j)' => Working(g, j)
    <2>1. SUFFICES ASSUME NEW g \in Goroutines, NEW j \in Jobs, Working(g, j)'
                   PROVE  Working(g, j)
      OBVIOUS
    <2>2. pc[g] \in Handling
      BY <2>1 DEF Working, Handling
    <2>3. msg[g] \in Messages /\ InUse(msg[g])
      BY <2>2 DEF Shape, EntriesKnown, HandlersKnown, InUse
    <2>4. QED
      BY <2>1, <2>3 DEF Working, Job
  <1>2. QED
    BY <1>1, OwnerKeeps DEF Owner, RunOwnsJob

(* One handler leaves its message, or goes on with the same one. *)
LEMMA OwnerGoes ==
  ASSUME Shape, Owner, NEW g \in Goroutines, UNCHANGED <<job_id, status, leaseExpired, late>>,
         \/ Release(g)
         \/ \E from, to \in Handling : /\ Step(g, from, to)
                                       /\ to \in Beyond => claimed[g]
                                       /\ to # "reload" /\ from \in Beyond \cup {"reload"}
  PROVE  Owner'
  <1> USE DEF Shape, HandlersOK
  <1>1. CASE Release(g)
    BY <1>1, OwnerKeeps DEF Release, Goto, Owner, Working, Job, Beyond
  <1>2. ASSUME NEW from \in Handling, NEW to \in Handling, Step(g, from, to),
               to \in Beyond => claimed[g], to # "reload", from \in Beyond \cup {"reload"}
        PROVE  Owner'
    <2>1. \A h \in Goroutines : pc'[h] \in Beyond => claimed'[h]
      BY <1>2 DEF Step, Goto, Owner
    <2>2. \A h \in Goroutines, j \in Jobs : Working(h, j)' => Working(h, j)
      BY <1>2 DEF Step, Goto, Working, Job, Beyond
    <2>3. QED
      BY <2>1, <2>2, OwnerKeeps DEF Owner
  <1>3. QED
    BY <1>1, <1>2

(* The conditional UPDATE of claimJob wins only a job that nobody runs. *)
LEMMA OwnerClaim ==
  ASSUME Shape, Owner, NEW g \in Goroutines, ClaimJob(g)
  PROVE  Owner'
  <1> USE DEF Shape, HandlersOK
  <1>1. /\ pc' = [pc EXCEPT ![g] = "reload"] /\ pc[g] = "claim"
        /\ claimed' = [claimed EXCEPT ![g] = status[Job(g)] = "pending"]
        /\ UNCHANGED <<job_id, msg, late>>
    BY DEF ClaimJob, Goto, streamVars, envVars
  <1>2. Job(g) \in Jobs
    BY <1>1 DEF EntriesKnown, HandlersKnown, Handling
  <1>3. status \in [Jobs -> Contract!Status]
    BY DEF TablesOK, Contract!TypeOK
  <1>4. \A h \in Goroutines : pc'[h] \in Beyond => claimed'[h]
    BY <1>1 DEF Owner, Beyond
  <1>5. CASE status[Job(g)] = "pending"
    <2>1. status' = [status EXCEPT ![Job(g)] = "processing"]
          /\ leaseExpired' = leaseExpired \ {Job(g)}
      BY <1>5 DEF ClaimJob, ClaimTx, MarkProcessing
    <2>2. \A h \in Goroutines, j \in Jobs :
            Working(h, j)' => (h = g /\ j = Job(g)) \/ (h # g /\ Working(h, j))
      BY <1>1 DEF Working, Job
    <2>3. \A h \in Goroutines, j \in Jobs : Working(h, j) =>
            status[j] = "processing" /\ j # Job(g) /\ j \notin leaseExpired
      BY <1>5 DEF Owner, RunOwnsJob
    <2>4. RunOwnsJob'
      BY <1>2, <1>3, <2>1, <2>2, <2>3 DEF RunOwnsJob
    <2>5. OneRun'
      BY <2>2, <2>3 DEF Owner, OneRun
    <2>6. QED
      BY <1>1, <1>4, <2>4, <2>5 DEF Owner
  <1>6. CASE status[Job(g)] # "pending"
    <2>1. UNCHANGED <<status, leaseExpired>>
      BY <1>6 DEF ClaimJob, ClaimTx, tables, rows, claimVars
    <2>2. \A h \in Goroutines, j \in Jobs : Working(h, j)' => Working(h, j)
      BY <1>1, <1>6 DEF Working, Job
    <2>3. QED
      BY <1>1, <1>4, <2>1, <2>2, OwnerKeeps DEF Owner
  <1>7. QED
    BY <1>5, <1>6

(* The write that ends a run: afterwards its handler no longer works on the job. *)
LEMMA OwnerEnds ==
  ASSUME Shape, Owner, NEW g \in Goroutines, CompleteJob(g) \/ FailJob(g) \/ EndReplyLost(g)
  PROVE  Owner'
  <1> USE DEF Shape, HandlersOK
  <1>1. pc[g] \in {"complete", "fail"} /\ UNCHANGED <<job_id, late>>
    BY DEF CompleteJob, FailJob, EndReplyLost, streamVars, envVars
  <1>2. Job(g) \in Jobs /\ Working(g, Job(g))
    BY <1>1 DEF EntriesKnown, HandlersKnown, Handling, Owner, Beyond, Working
  <1>3. Release(g) \/ Step(g, "complete", "ack") \/ Step(g, "fail", "ack")
    BY DEF CompleteJob, FailJob, EndReplyLost
  <1>4. /\ \A h \in Goroutines : pc'[h] \in Beyond => claimed'[h]
        /\ \A h \in Goroutines, j \in Jobs : Working(h, j)' => h # g /\ Working(h, j)
    BY <1>1, <1>3 DEF Release, Step, Goto, Owner, Working, Job, Beyond
  <1>5. \A h \in Goroutines, j \in Jobs : Working(h, j)' => Working(h, j) /\ j # Job(g)
    BY <1>2, <1>4 DEF Owner, OneRun
  <1>6. /\ status \in [Jobs -> Contract!Status]
        /\ CompleteTx(Job(g)) \/ FailTx(Job(g))
    BY DEF TablesOK, Contract!TypeOK, CompleteJob, FailJob, EndReplyLost
  <1>7. \A j \in Jobs : j # Job(g) => status'[j] = status[j] /\ (j \in leaseExpired' => j \in leaseExpired)
    BY <1>6 DEF CompleteTx, FailTx, MarkSuccess, MarkFailed, tables, rows, claimVars
  <1>8. QED
    BY <1>1, <1>4, <1>5, <1>7, OwnerKeeps DEF Owner

(* A process has finitely many loops, hence finitely many statements in flight. *)
LEMMA SentFinite ==
  ASSUME NEW G \in SUBSET Goroutines
  PROVE  IsFiniteSet(UNION {Sent(g) : g \in G})
  <1> DEFINE send == [g \in G |-> <<pc[g], Job(g)>>]
             all  == {<<pc[g], Job(g)>> : g \in G}
  <1>1. IsFiniteSet(G)
    BY FS_Subset, ParseWorkerAssumption
  <1>2. send \in Surjection(G, all)
    BY DEF Surjection
  <1>3. IsFiniteSet(all)
    BY <1>1, <1>2, FS_Surjection
  <1>4. UNION {Sent(g) : g \in G} \subseteq all
    BY DEF Sent
  <1>5. QED
    BY <1>3, <1>4, FS_Subset

(* When no statement may outlive its handler none is ever left behind. *)
LEMMA NothingLate ==
  ASSUME MaxLate = 0, late = {}, NEW S, IsFiniteSet(S),
         UNCHANGED late \/ (late' = late \cup S /\ Cardinality(late') <= MaxLate)
  PROVE  late' = {}
  <1>1. CASE UNCHANGED late
    BY <1>1
  <1>2. CASE late' = S /\ Cardinality(late') <= MaxLate
    <2>1. Cardinality(late') \in Nat /\ Cardinality(late') = 0
      BY <1>2, FS_CardinalityType
    <2>2. QED
      BY <1>2, <2>1, FS_EmptySet
  <1>3. QED
    BY <1>1, <1>2

(* Every step preserves ownership: the claim, lease and recovery conditions suffice. *)
LEMMA OwnerStep ==
  ASSUME MaxLate = 0, IInv, Owner, [Next]_vars
  PROVE  Owner'
  <1>0. /\ Shape /\ late = {} /\ Reclaimers \subseteq Goroutines
        /\ \A g \in Goroutines : pc[g] \in Handling => Job(g) \in Jobs
        /\ status \in [Jobs -> Contract!Status]
    BY DEF IInv, Owner, Goroutines, Shape, EntriesKnown, HandlersKnown, TablesOK, Contract!TypeOK
  <1> USE DEF tables, rows, claimVars, streamVars, handlers, envVars
  (* Only the queue and the other loops move. *)
  <1>1. ASSUME UNCHANGED <<pc, msg, claimed, late, status, leaseExpired>>,
               (\E j \in Jobs : Publish(j)) \/ UNCHANGED job_id
        PROVE  Owner'
    <2>1. \A m \in Messages : InUse(m) => job_id'[m] = job_id[m]
      BY <1>0, <1>1, PublishShape
    <2>2. QED
      BY <1>0, <1>1, <2>1, OwnerIdle
  <1>2. ASSUME NEW j \in Jobs, PublishCommitted(j) PROVE Owner'
    BY <1>1, <1>2 DEF PublishCommitted
  <1>3. ASSUME NEW w \in Workers, NEW j \in todo[w], ReconcilePublish(w, j) PROVE Owner'
    BY <1>0, <1>1, <1>3 DEF ReconcilePublish, Publish, Shape, LoopsOK
  <1>4. ASSUME NEW w \in Workers, ListDue(w) \/ ReconcileTouch(w) \/ ReconcileError(w) PROVE Owner'
    BY <1>1, <1>4 DEF ListDue, ReconcileTouch, ReconcileError
  <1>5. ASSUME ApiCrash \/ TrimBefore \/ RedisLost PROVE Owner'
    BY <1>1, <1>5 DEF ApiCrash, TrimBefore, RedisLost
  <1>6. ASSUME NEW c \in Consumers, ReadReplyLost(c) PROVE Owner'
    BY <1>1, <1>6 DEF ReadReplyLost, Deliver
  <1>7. ASSUME NEW r \in Reclaimers, RecoverError(r) PROVE Owner'
    BY <1>1, <1>7 DEF RecoverError
  <1>8. ASSUME \/ \E j \in Jobs : GraceElapses(j)
               \/ \E m \in Messages : BecomesIdle(m)
               \/ \E d \in Documents : Delete(d)
        PROVE  Owner'
    BY <1>1, <1>8 DEF GraceElapses, BecomesIdle, Delete, Contract!Delete
  <1>9. ASSUME UNCHANGED vars PROVE Owner'
    BY <1>1, <1>9 DEF vars
  (* The tables move, for a job that no handler works on. *)
  <1>10. ASSUME NEW j \in Jobs, NEW d \in Documents, Create(j, d) PROVE Owner'
    BY <1>0, <1>10, OwnerIdle DEF Create, Contract!Create
  <1>11. ASSUME NEW j \in Jobs, Retry(j) PROVE Owner'
    BY <1>0, <1>11, OwnerIdle DEF Retry, Contract!Retry
  <1>12. ASSUME NEW j \in Jobs, LeaseExpires(j) PROVE Owner'
    <2>1. \A g \in Goroutines : ~Working(g, j)
      BY <1>12 DEF LeaseExpires, Running, Working, Handling
    <2>2. \A g \in Goroutines, i \in Jobs : Working(g, i)' => Working(g, i)
      BY <1>12 DEF LeaseExpires, Working, Job
    <2>3. QED
      BY <1>0, <1>12, <2>1, <2>2, OwnerKeeps DEF LeaseExpires, Owner
  <1>13. ASSUME NEW r \in Reclaimers, NEW row \in stale[r],
                RecoverExhausted(r, row) \/ RecoverStale(r, row)
         PROVE  Owner'
    <2>1. row.job \in Jobs /\ (StillStale(row) => row.job \in leaseExpired)
      BY <1>0 DEF IInv, Stamps, Shape, LoopsOK, StaleRow
    <2>2. UNCHANGED <<job_id, late>>
      BY <1>13 DEF RecoverExhausted, RecoverStale
    <2>3. \A j \in Jobs : status[j] = "processing" /\ j \notin leaseExpired =>
            status'[j] = status[j] /\ j \notin leaseExpired'
      BY <1>0, <1>13, <2>1 DEF RecoverExhausted, RecoverStale, Reset, MarkFailed
    <2>4. /\ \A g \in Goroutines : pc'[g] \in Beyond => claimed'[g]
          /\ \A g \in Goroutines, j \in Jobs : Working(g, j)' => Working(g, j)
      <3>1. CASE UNCHANGED handlers
        BY <2>2, <3>1 DEF Owner, Working, Job
      <3>2. CASE Step(r, "recover", "republish")
        BY <1>0, <2>2, <3>2 DEF Owner, Working, Job, Step, Goto, Beyond, Shape, HandlersOK
      <3>3. QED
        BY <1>13, <3>1, <3>2 DEF RecoverExhausted, RecoverStale
    <2>5. QED
      BY <1>0, <2>2, <2>3, <2>4, OwnerKeeps DEF Owner, RunOwnsJob
  (* The handlers move. *)
  <1>14. ASSUME NEW g \in Goroutines, ClaimJob(g) PROVE Owner'
    BY <1>0, <1>14, OwnerClaim
  <1>15. ASSUME NEW g \in Goroutines, CompleteJob(g) \/ FailJob(g) \/ EndReplyLost(g)
         PROVE  Owner'
    BY <1>0, <1>15, OwnerEnds
  <1>16. ASSUME NEW g \in Goroutines, Reload(g) PROVE Owner'
    BY <1>0, <1>16, OwnerGoes DEF Reload, Handling, Beyond
  <1>17. ASSUME NEW g \in Goroutines, LoadDocument(g) PROVE Owner'
    <2>1. claimed[g]
      BY <1>17 DEF LoadDocument, Owner, Beyond
    <2>2. QED
      BY <1>0, <1>17, <2>1, OwnerGoes DEF LoadDocument, Handling, Beyond
  <1>18. ASSUME NEW g \in Goroutines, LoadError(g) PROVE Owner'
    <2>1. claimed[g]
      BY <1>18 DEF LoadError, Step, Owner, Beyond
    <2>2. QED
      BY <1>0, <1>18, <2>1, OwnerGoes DEF LoadError, Handling, Beyond
  <1>19. ASSUME NEW g \in Goroutines, Parse(g) PROVE Owner'
    <2>1. claimed[g]
      BY <1>19 DEF Parse, Step, Owner, Beyond
    <2>2. QED
      BY <1>0, <1>19, <2>1, OwnerGoes DEF Parse, Handling, Beyond
  <1>20. ASSUME NEW g \in Goroutines, Ack(g) PROVE Owner'
    BY <1>0, <1>20, OwnerGoes DEF Ack
  <1>21. ASSUME NEW g \in Goroutines, GiveUp(g) PROVE Owner'
    <2>1. late' = {}
      <3>1. IsFiniteSet(Sent(g))
        BY FS_Singleton, FS_EmptySet DEF Sent
      <3>2. QED
        BY <1>0, <1>21, <3>1, NothingLate DEF GiveUp
    <2>2. QED
      BY <1>0, <1>21, <2>1, OwnerGoes DEF GiveUp
  <1>22. ASSUME NEW g \in Goroutines, ClaimReplyLost(g) PROVE Owner'
    <2>1. /\ Job(g) \in Jobs /\ UNCHANGED <<job_id, late>>
          /\ ClaimTx(Job(g)) /\ Release(g)
      BY <1>0, <1>22 DEF ClaimReplyLost, Handling
    <2>2. /\ \A h \in Goroutines : pc'[h] \in Beyond => claimed'[h]
          /\ \A h \in Goroutines, j \in Jobs : Working(h, j)' => Working(h, j)
      BY <1>0, <2>1 DEF Release, Goto, Owner, Working, Job, Beyond, Shape, HandlersOK
    <2>3. \A j \in Jobs : status[j] = "processing" /\ j \notin leaseExpired =>
            status'[j] = status[j] /\ j \notin leaseExpired'
      BY <1>0, <2>1 DEF ClaimTx, MarkProcessing
    <2>4. QED
      BY <1>0, <2>1, <2>2, <2>3, OwnerKeeps DEF Owner, RunOwnsJob
  <1>23. ASSUME NEW g \in Goroutines, AcquireSlot(g) PROVE Owner'
    <2>1. /\ \A h \in Goroutines : pc'[h] \in Beyond => claimed'[h]
          /\ \A h \in Goroutines, j \in Jobs : Working(h, j)' => Working(h, j)
      BY <1>0, <1>23 DEF AcquireSlot, Goto, Owner, Working, Job, Beyond, Shape, HandlersOK
    <2>2. QED
      BY <1>0, <1>23, <2>1, OwnerKeeps DEF AcquireSlot
  <1>24. ASSUME NEW g \in Goroutines, NEW l \in {"idle", "slot", "recover"}, Goto(g, l),
                UNCHANGED <<job_id, msg, claimed, late, status, leaseExpired>>
         PROVE  Owner'
    <2>1. /\ \A h \in Goroutines : pc'[h] \in Beyond => claimed'[h]
          /\ \A h \in Goroutines, j \in Jobs : Working(h, j)' => Working(h, j)
      BY <1>0, <1>24 DEF Goto, Owner, Working, Job, Beyond, Shape, HandlersOK
    <2>2. QED
      BY <1>0, <1>24, <2>1, OwnerKeeps
  <1>25. ASSUME NEW c \in Consumers, Read(c) PROVE Owner'
    BY <1>24, <1>25 DEF Read, Deliver, Goroutines
  <1>26. ASSUME NEW r \in Reclaimers, ListStale(r) \/ ClaimStale(r) \/ ClaimStaleError(r)
         PROVE  Owner'
    BY <1>0, <1>24, <1>26 DEF ListStale, ClaimStale, ClaimStaleError
  <1>27. ASSUME NEW r \in Reclaimers, Republish(r) PROVE Owner'
    <2>1. recovered[r] \in Jobs /\ Publish(recovered[r]) /\ Step(r, "republish", "recover")
          /\ UNCHANGED <<late, status, leaseExpired>>
      BY <1>0, <1>27 DEF Republish, Step, Shape, EntriesKnown, HandlersKnown
    <2>2. \A m \in Messages : InUse(m) => job_id'[m] = job_id[m]
      BY <1>0, <2>1, PublishShape
    <2>3. \A h \in Goroutines : pc[h] \in Handling => msg[h] \in Messages /\ InUse(msg[h])
      BY <1>0 DEF Shape, EntriesKnown, HandlersKnown, InUse
    <2>4. /\ \A h \in Goroutines : pc'[h] \in Beyond => claimed'[h]
          /\ \A h \in Goroutines, j \in Jobs : Working(h, j)' => Working(h, j)
      BY <1>0, <2>1, <2>2, <2>3
      DEF Step, Goto, Owner, Working, Job, Beyond, Handling, Shape, HandlersOK
    <2>5. QED
      BY <1>0, <2>1, <2>4, OwnerKeeps
  <1>28. ASSUME NEW w \in Workers, Crash(w) PROVE Owner'
    <2>1. late' = {}
      BY <1>0, <1>28, SentFinite, NothingLate DEF Crash
    <2>2. /\ \A h \in Goroutines : pc'[h] \in Beyond => claimed'[h]
          /\ \A h \in Goroutines, j \in Jobs : Working(h, j)' => Working(h, j)
      BY <1>0, <1>28 DEF Crash, Owner, Working, Job, Beyond
    <2>3. QED
      BY <1>0, <1>28, <2>1, <2>2, OwnerKeeps DEF Crash
  <1>29. ASSUME NEW s \in late, RunLate(s) PROVE Owner'
    BY <1>0
  <1>30. QED
    BY <1>2, <1>3, <1>4, <1>5, <1>6, <1>7, <1>8, <1>9, <1>10, <1>11, <1>12, <1>13,
       <1>14, <1>15, <1>16, <1>17, <1>18, <1>19, <1>20, <1>21, <1>22, <1>23, <1>25,
       <1>26, <1>27, <1>28, <1>29
    DEF Next, Api, HandleMessage, ReclaimLoop, Recover, ReconcileLoop, Time, Failure

(* While a handler works on a job the row is its own: processing, and with  *)
(* a lease that is not over.                                                *)
THEOREM RunOwnsItsJob ==
  ASSUME MaxLate = 0 PROVE Spec => []RunOwnsJob
  <1>1. Init => Owner
    BY DEF Init, Owner, RunOwnsJob, OneRun, Working, Beyond
  <1>2. IInv /\ Owner /\ [Next]_vars => Owner'
    BY OwnerStep
  <1>3. QED
    BY IInvHolds, <1>1, <1>2, PTL DEF Spec, Owner

(* No job is run by two handlers at a time.                                 *)
THEOREM SingleRun ==
  ASSUME MaxLate = 0 PROVE Spec => []OneRun
  <1>1. Init => Owner
    BY DEF Init, Owner, RunOwnsJob, OneRun, Working, Beyond
  <1>2. IInv /\ Owner /\ [Next]_vars => Owner'
    BY OwnerStep
  <1>3. QED
    BY IInvHolds, <1>1, <1>2, PTL DEF Spec, Owner
=============================================================================
