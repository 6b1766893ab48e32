---------------------------- MODULE ProjectBoard ----------------------------
(***************************************************************************)
(* The services behind the review page and the project board: parse        *)
(* results (internal/logic/parseresult), projects (.../project) and tasks  *)
(* (.../task), with the row locks they take in PostgreSQL at READ          *)
(* COMMITTED.                                                              *)
(*                                                                         *)
(* A handler runs one request as one transaction, statement by statement.  *)
(* What it writes shows at its commit, so its last write and the COMMIT    *)
(* are one step.  SELECT ... FOR UPDATE returns the row as it is when the  *)
(* lock is granted; other reads take no lock.  A request that edits a row  *)
(* carries the version its client read some time before; what the client   *)
(* wants written is chosen at the write, since nothing else looks at it.   *)
(* All rows belong to one user.                                            *)
(***************************************************************************)
EXTENDS Integers, FiniteSets, Functions

CONSTANTS
  Results, Projects, Tasks, Contents, Generated, None,   \* as in BoardContract
  Handlers,       \* concurrent requests
  Operations,     \* bound: the kinds of requests clients make
  MaxVersion      \* bound: rows at this version get no further request

ResultOps  == {"editResult", "confirmResult", "createProject"}
ProjectOps == {"editProject", "archive", "unarchive", "deleteProject",
               "createTask", "reorder"}
TaskOps    == {"editTask", "moveTask", "deleteTask"}
Edits      == {"editResult", "editProject", "editTask"}

ASSUME ProjectBoardAssumption ==
  /\ Generated \in [Contents -> Nat]
  /\ None \notin Results \cup Projects \cup Tasks \cup Contents \cup Handlers
  /\ Operations \subseteq ResultOps \cup ProjectOps \cup TaskOps
  /\ MaxVersion \in Nat

VARIABLES
  result, project, task,   \* committed rows
  pc,             \* pc[h]: where the transaction of h stands
  op,             \* op[h]: the request h serves
  row,            \* row[h]: the row the request names
  base,           \* base[h]: the row as the client of an edit read it
  on,             \* on[h]: the project h has to lock
  last,           \* last[h]: the position Create computed
  listed,         \* listed[h]: the tasks Reorder read
  resultLock, projectLock, taskLock   \* the handler that holds a row FOR UPDATE

rows  == <<result, project, task>>
local == <<op, row, base, on, last, listed>>
locks == <<resultLock, projectLock, taskLock>>
vars  == <<rows, pc, local, locks>>

\* The committed rows are those of the contract; transactions and locks are hidden.
Contract == INSTANCE BoardContract WITH
  Results <- Results, Projects <- Projects, Tasks <- Tasks, Contents <- Contents,
  Generated <- Generated, None <- None,
  result <- result, project <- project, task <- task

TypeOK ==
  /\ Contract!TypeOK
  /\ pc \in [Handlers -> {"idle", "find", "lock", "lockTask", "read", "write"}]
  /\ op \in [Handlers -> ResultOps \cup ProjectOps \cup TaskOps]
  /\ row \in [Handlers -> Results \cup Projects \cup Tasks \cup {None}]
  /\ base \in [Handlers -> Contract!ResultRow \cup Contract!ProjectRow
                             \cup Contract!TaskRow \cup {None}]
  /\ on \in [Handlers -> Projects \cup {None}]
  /\ last \in [Handlers -> Nat]
  /\ listed \in [Handlers -> SUBSET Tasks]
  /\ resultLock \in [Results -> Handlers \cup {None}]
  /\ projectLock \in [Projects -> Handlers \cup {None}]
  /\ taskLock \in [Tasks -> Handlers \cup {None}]

Init ==
  /\ Contract!Init
  /\ pc = [h \in Handlers |-> "idle"]
  /\ op = [h \in Handlers |-> "confirmResult"]
  /\ row = [h \in Handlers |-> None] /\ base = [h \in Handlers |-> None]
  /\ on = [h \in Handlers |-> None]
  /\ last = [h \in Handlers |-> 0] /\ listed = [h \in Handlers |-> {}]
  /\ resultLock = [r \in Results |-> None]
  /\ projectLock = [p \in Projects |-> None]
  /\ taskLock = [t \in Tasks |-> None]

-----------------------------------------------------------------------------
(* The end of a transaction, committed or rolled back, frees its locks. *)
Freed(lock, h) == [x \in DOMAIN lock |-> IF lock[x] = h THEN None ELSE lock[x]]

End(h) ==
  /\ pc' = [pc EXCEPT ![h] = "idle"]
  /\ row' = [row EXCEPT ![h] = None] /\ base' = [base EXCEPT ![h] = None]
  /\ on' = [on EXCEPT ![h] = None]
  /\ last' = [last EXCEPT ![h] = 0] /\ listed' = [listed EXCEPT ![h] = {}]
  /\ resultLock' = Freed(resultLock, h)
  /\ projectLock' = Freed(projectLock, h)
  /\ taskLock' = Freed(taskLock, h)
  /\ UNCHANGED op

Rollback(h) == End(h) /\ UNCHANGED rows

Goto(h, label) == pc' = [pc EXCEPT ![h] = label] /\ UNCHANGED rows

\* A lost connection, or an error of the database, at any statement.
Lost(h) == pc[h] # "idle" /\ Rollback(h)

-----------------------------------------------------------------------------
(* A request arrives; it names a row its client has seen. *)

Begin(h, kind, x, p, seen) ==
  /\ pc[h] = "idle" /\ kind \in Operations
  /\ seen.version < MaxVersion
  /\ pc' = [pc EXCEPT ![h] = IF kind \in TaskOps THEN "find" ELSE "lock"]
  /\ op' = [op EXCEPT ![h] = kind]
  /\ row' = [row EXCEPT ![h] = x]
  /\ base' = [base EXCEPT ![h] = IF kind \in Edits THEN seen ELSE None]
  /\ on' = [on EXCEPT ![h] = p]
  /\ UNCHANGED <<rows, last, listed, locks>>

BeginResult(h, r) == \E kind \in ResultOps : Begin(h, kind, r, None, result[r])

BeginProject(h, p) ==
  Contract!Exists(p) /\ \E kind \in ProjectOps : Begin(h, kind, p, p, project[p])

BeginTask(h, t) ==
  Contract!Live(t) /\ \E kind \in TaskOps : Begin(h, kind, t, None, task[t])

-----------------------------------------------------------------------------
(* Parse results, and the creation of a project from one. *)

\* What the services demand of the row they locked, and once more of the row
\* they update.
ResultAllows(h) ==
  /\ op[h] \in {"editResult", "confirmResult"} => ~result[row[h]].confirmed
  /\ op[h] = "editResult" => result[row[h]].version = base[h].version

LockResult(h) ==
  /\ pc[h] = "lock" /\ op[h] \in ResultOps /\ resultLock[row[h]] = None
  /\ IF ResultAllows(h)
       THEN /\ resultLock' = [resultLock EXCEPT ![row[h]] = h]
            /\ Goto(h, IF op[h] = "createProject" THEN "read" ELSE "write")
            /\ UNCHANGED <<local, projectLock, taskLock>>
       ELSE Rollback(h)

WriteResult(h) ==
  /\ pc[h] = "write" /\ op[h] = "editResult" /\ ResultAllows(h)
  /\ \E c \in Contents :
       result' = [result EXCEPT ![row[h]].content = c, ![row[h]].version = @ + 1]
  /\ End(h)
  /\ UNCHANGED <<project, task>>

WriteConfirmed(h) ==
  /\ pc[h] = "write" /\ op[h] = "confirmResult" /\ ResultAllows(h)
  /\ result' = [result EXCEPT ![row[h]].confirmed = TRUE]
  /\ End(h)
  /\ UNCHANGED <<project, task>>

\* Mutant: soft-deleted projects do not count.
ProjectsForUndeleted(r) ==
  {p \in Projects : project[p].status \in {"active", "archived"} /\ project[p].result = r}

\* The rows with this parse_result_id, of whatever status: what the query of
\* Create finds, and what the unique index compares.
ProjectsFor(r) == {p \in Projects : Contract!Exists(p) /\ project[p].result = r}

\* A project of the result that exists already is the answer (or a conflict,
\* once deleted); without one the result has to be confirmed.
FindExisting(h) ==
  /\ pc[h] = "read" /\ op[h] = "createProject"
  /\ IF ProjectsFor(row[h]) = {} /\ result[row[h]].confirmed
       THEN Goto(h, "write") /\ UNCHANGED <<local, locks>>
       ELSE Rollback(h)

FreshProjects == {p \in Projects : ~Contract!Exists(p)}
FreshTasks    == {t \in Tasks : task[t].status = "absent"}

\* Identifiers of the tasks that the content of a result lists, in their order.
FreshLists(c) == {ids \in Contract!Identifiers(Generated[c]) : Range(ids) \subseteq FreshTasks}

\* The project with its generated tasks.  A second row for the result would
\* break uq_projects_parse_result_id, and the request would answer with the
\* first.  Bound: the request fails when identifiers run out.
InsertProject(h) ==
  /\ pc[h] = "write" /\ op[h] = "createProject"
  /\ LET c == result[row[h]].content
     IN
     IF ProjectsFor(row[h]) = {} /\ FreshProjects # {} /\ FreshLists(c) # {}
       THEN \E p \in FreshProjects, ids \in FreshLists(c) :
              /\ project' = [project EXCEPT ![p] = Contract!NewProject(row[h])]
              /\ task' = [t \in Tasks |->
                            IF t \in Range(ids)
                              THEN Contract!NewTask(p, c, CHOOSE i \in DOMAIN ids : ids[i] = t)
                              ELSE task[t]]
              /\ End(h)
              /\ UNCHANGED result
       ELSE Rollback(h)

-----------------------------------------------------------------------------
(* Projects, and the project as the lock of its tasks. *)

\* Mutant: task requests do not look at the status of the project.
ProjectAllowsAnyTask(h) ==
  LET p == project[on[h]]
  IN
  /\ op[h] \in {"archive", "editProject", "createTask", "reorder"} => p.status = "active"
  /\ op[h] \in {"unarchive", "deleteProject"} => p.status = "archived"
  /\ op[h] = "editProject" => p.version = base[h].version

\* Rows with status "deleted" are not found.
ProjectAllows(h) ==
  LET p == project[on[h]]
  IN
  /\ op[h] \in {"archive", "editProject", "createTask", "reorder"} \cup TaskOps =>
       p.status = "active"
  /\ op[h] \in {"unarchive", "deleteProject"} => p.status = "archived"
  /\ op[h] = "editProject" => p.version = base[h].version

\* Mutant: the project is read without FOR UPDATE.
LockProjectPlainRead(h) ==
  /\ pc[h] = "lock" /\ op[h] \notin ResultOps
  /\ IF ProjectAllows(h)
       THEN /\ Goto(h, IF op[h] \in TaskOps THEN "lockTask"
                       ELSE IF op[h] \in {"createTask", "reorder"} THEN "read"
                       ELSE "write")
            /\ UNCHANGED <<local, locks>>
       ELSE Rollback(h)

LockProject(h) ==
  /\ pc[h] = "lock" /\ op[h] \notin ResultOps /\ projectLock[on[h]] = None
  /\ IF ProjectAllows(h)
       THEN /\ projectLock' = [projectLock EXCEPT ![on[h]] = h]
            /\ Goto(h, IF op[h] \in TaskOps THEN "lockTask"
                       ELSE IF op[h] \in {"createTask", "reorder"} THEN "read"
                       ELSE "write")
            /\ UNCHANGED <<local, resultLock, taskLock>>
       ELSE Rollback(h)

WriteProject(h) ==
  /\ pc[h] = "write" /\ op[h] = "editProject" /\ ProjectAllows(h)
  /\ \E c \in Contents :
       project' = [project EXCEPT ![on[h]].content = c, ![on[h]].version = @ + 1]
  /\ End(h)
  /\ UNCHANGED <<result, task>>

Target(h) ==
  CASE op[h] = "archive" -> "archived"
    [] op[h] = "unarchive" -> "active"
    [] op[h] = "deleteProject" -> "deleted"

Transition(h) ==
  /\ pc[h] = "write" /\ op[h] \in {"archive", "unarchive", "deleteProject"}
  /\ ProjectAllows(h)
  /\ project' = [project EXCEPT ![on[h]].status = Target(h), ![on[h]].version = @ + 1]
  /\ End(h)
  /\ UNCHANGED <<result, task>>

-----------------------------------------------------------------------------
(* Tasks. *)

\* Mutant: the number of tasks instead of the maximum plus one.
MaxOrderCount(h) ==
  /\ pc[h] = "read" /\ op[h] = "createTask"
  /\ last' = [last EXCEPT ![h] = Cardinality(Contract!TasksOf(on[h]))]
  /\ Goto(h, "write")
  /\ UNCHANGED <<op, row, base, on, listed, locks>>

MaxOrder(h) ==
  /\ pc[h] = "read" /\ op[h] = "createTask"
  /\ \E n \in Contract!NextOrder(on[h]) : last' = [last EXCEPT ![h] = n]
  /\ Goto(h, "write")
  /\ UNCHANGED <<op, row, base, on, listed, locks>>

\* Bound: the request fails when identifiers run out.
InsertTask(h) ==
  /\ pc[h] = "write" /\ op[h] = "createTask"
  /\ IF FreshTasks = {}
       THEN Rollback(h)
       ELSE /\ \E t \in FreshTasks, c \in Contents :
                 task' = [task EXCEPT ![t] = Contract!NewTask(on[h], c, last[h])]
            /\ End(h)
            /\ UNCHANGED <<result, project>>

\* Mutant: the task is locked before its project.
FindTaskLocking(h) ==
  /\ pc[h] = "find" /\ taskLock[row[h]] = None
  /\ IF Contract!Live(row[h])
       THEN /\ on' = [on EXCEPT ![h] = task[row[h]].project]
            /\ taskLock' = [taskLock EXCEPT ![row[h]] = h]
            /\ Goto(h, "lock")
            /\ UNCHANGED <<op, row, base, last, listed, resultLock, projectLock>>
       ELSE Rollback(h)

\* The task is read without a lock, for its project.
FindTask(h) ==
  /\ pc[h] = "find"
  /\ IF Contract!Live(row[h])
       THEN /\ on' = [on EXCEPT ![h] = task[row[h]].project]
            /\ Goto(h, "lock")
            /\ UNCHANGED <<op, row, base, last, listed, locks>>
       ELSE Rollback(h)

TaskAllows(h) == op[h] = "editTask" => task[row[h]].version = base[h].version

\* Mutant: the unlocked read of the task is trusted.
LockTaskUnchecked(h) ==
  /\ pc[h] = "lockTask" /\ taskLock[row[h]] \in {None, h}
  /\ IF TaskAllows(h)
       THEN /\ taskLock' = [taskLock EXCEPT ![row[h]] = h]
            /\ Goto(h, "write")
            /\ UNCHANGED <<local, resultLock, projectLock>>
       ELSE Rollback(h)

LockTask(h) ==
  /\ pc[h] = "lockTask" /\ taskLock[row[h]] \in {None, h}
  /\ IF Contract!Live(row[h]) /\ TaskAllows(h)
       THEN /\ taskLock' = [taskLock EXCEPT ![row[h]] = h]
            /\ Goto(h, "write")
            /\ UNCHANGED <<local, resultLock, projectLock>>
       ELSE Rollback(h)

WriteTask(h) ==
  /\ pc[h] = "write" /\ op[h] = "editTask" /\ TaskAllows(h)
  /\ \E c \in Contents :
       task' = [task EXCEPT ![row[h]].content = c, ![row[h]].version = @ + 1]
  /\ End(h)
  /\ UNCHANGED <<result, project>>

\* Mutant: a new status is no new version.
WriteStatusSameVersion(h) ==
  /\ pc[h] = "write" /\ op[h] = "moveTask"
  /\ \E s \in Contract!TaskStatus : task' = [task EXCEPT ![row[h]].status = s]
  /\ End(h)
  /\ UNCHANGED <<result, project>>

\* A task that has the status already is left as it is.
WriteStatus(h) ==
  /\ pc[h] = "write" /\ op[h] = "moveTask"
  /\ \E s \in Contract!TaskStatus :
       IF task[row[h]].status = s
         THEN UNCHANGED task
         ELSE task' = [task EXCEPT ![row[h]].status = s, ![row[h]].version = @ + 1]
  /\ End(h)
  /\ UNCHANGED <<result, project>>

RemoveTask(h) ==
  /\ pc[h] = "write" /\ op[h] = "deleteTask"
  /\ task' = [task EXCEPT ![row[h]].status = "gone"]
  /\ End(h)
  /\ UNCHANGED <<result, project>>

\* The request has to name exactly the tasks of the list, each once.
ListTasks(h) ==
  /\ pc[h] = "read" /\ op[h] = "reorder"
  /\ \/ /\ listed' = [listed EXCEPT ![h] = Contract!TasksOf(on[h])]
        /\ Goto(h, "write")
        /\ UNCHANGED <<op, row, base, on, last, locks>>
     \/ Rollback(h)     \* it names others: a conflict

\* One UPDATE per task, in the order of the request.
WriteOrder(h) ==
  /\ pc[h] = "write" /\ op[h] = "reorder"
  /\ \A t \in listed[h] : taskLock[t] = None
  /\ \E place \in Contract!Places(listed[h]) :
       task' = [t \in Tasks |->
                  IF t \in listed[h] THEN [task[t] EXCEPT !.order = place[t]] ELSE task[t]]
  /\ End(h)
  /\ UNCHANGED <<result, project>>

-----------------------------------------------------------------------------
Statement(h) ==
  \/ LockResult(h) \/ WriteResult(h) \/ WriteConfirmed(h)
  \/ FindExisting(h) \/ InsertProject(h)
  \/ LockProject(h) \/ WriteProject(h) \/ Transition(h)
  \/ MaxOrder(h) \/ InsertTask(h)
  \/ FindTask(h) \/ LockTask(h) \/ WriteTask(h) \/ WriteStatus(h) \/ RemoveTask(h)
  \/ ListTasks(h) \/ WriteOrder(h)

Next == \E h \in Handlers :
  \/ \E r \in Results : BeginResult(h, r)
  \/ \E p \in Projects : BeginProject(h, p)
  \/ \E t \in Tasks : BeginTask(h, t)
  \/ Statement(h) \/ Lost(h)

Spec == Init /\ [][Next]_vars

-----------------------------------------------------------------------------
(* Every commit is one atomic step of the contract, although requests      *)
(* decide on what they read in earlier statements: the project a task      *)
(* belongs to, the last position, the list of tasks, an existing project.  *)
Serialized == Contract!Spec

(* An edit that is about to be written was made by a client that has seen  *)
(* the row as it is now: nobody's change is overwritten unseen, although   *)
(* the client read the row in another request, any time before.            *)
EditsAreCurrent ==
  \A h \in Handlers :
    pc[h] = "write" =>
      /\ op[h] = "editResult" => base[h].content = result[row[h]].content
      /\ op[h] = "editProject" =>
           /\ base[h].content = project[row[h]].content
           /\ base[h].status = project[row[h]].status
      /\ op[h] = "editTask" =>
           /\ base[h].content = task[row[h]].content
           /\ base[h].status = task[row[h]].status

(* One project per confirmed result, under concurrent and repeated Create. *)
OneProjectPerResult == Contract!OneProjectPerResult

(* Positions stay distinct, under concurrent Create, Delete and Reorder.   *)
PositionsDistinct == Contract!PositionsDistinct

(* Tasks of an archived project do not change, also not by a request that  *)
(* read the task before the project was archived.                          *)
ArchivedReadOnly == Contract!ArchivedReadOnly

(* Rows are locked in one order (result, project, task, and the positions  *)
(* only under the project), so requests never wait for each other in a     *)
(* circle: while any is under way, one of them can run its next statement. *)
NeverStuck ==
  (\E h \in Handlers : pc[h] # "idle") => \E h \in Handlers : ENABLED Statement(h)
=============================================================================
