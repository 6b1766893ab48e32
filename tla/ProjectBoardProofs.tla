-------------------------- MODULE ProjectBoardProofs --------------------------
(***************************************************************************)
(* Theorems about the review of parse results and the project board.       *)
(*                                                                         *)
(* First the contract: its invariants, and what its actions never do.      *)
(* Then ProjectBoard: what a handler knows under the locks it holds        *)
(* (Knows), from which every commit is a step of the contract, what the    *)
(* version of an edit says about the row it names (Seen), and that the     *)
(* checks of a request still hold at its write (Allowed), from which no    *)
(* UPDATE misses its row and some request can always go on (CanRun).       *)
(***************************************************************************)
EXTENDS ProjectBoard, FiniteSetTheorems, FunctionTheorems, WellFoundedInduction, TLAPS

-----------------------------------------------------------------------------
(* The contract. *)

\* Every inserted task belongs to an inserted project.
TasksHaveProjects ==
  \A t \in Tasks :
    task[t].status # "absent" =>
      task[t].project \in Projects /\ Contract!Exists(task[t].project)

TablesInv ==
  /\ Contract!TypeOK /\ TasksHaveProjects
  /\ Contract!OneProjectPerResult /\ Contract!ProjectsConfirmed /\ Contract!PositionsDistinct

(* The tables begin with unconfirmed results, and nothing else. *)
LEMMA TablesInit == Contract!Init => TablesInv
  <1> SUFFICES ASSUME Contract!Init PROVE TablesInv
    OBVIOUS
  <1>1. Contract!TypeOK
    <2>1. result \in [Results -> Contract!ResultRow]
      <3>1. {1} \subseteq Nat /\ {FALSE} \subseteq BOOLEAN
        OBVIOUS
      <3>2. [content : Contents, version : {1}, confirmed : {FALSE}] \subseteq Contract!ResultRow
        BY <3>1, Zenon DEF Contract!ResultRow
      <3> QED
        BY <3>2 DEF Contract!Init
    <2>2. Contract!NoProject \in Contract!ProjectRow /\ Contract!NoTask \in Contract!TaskRow
      BY DEF Contract!ProjectRow, Contract!TaskRow, Contract!NoProject, Contract!NoTask
    <2> QED
      BY <2>1, <2>2 DEF Contract!Init, Contract!TypeOK
  <1>2. /\ \A p \in Projects : ~Contract!Exists(p)
        /\ \A t \in Tasks : task[t].status = "absent" /\ ~Contract!Live(t)
    BY DEF Contract!Init, Contract!Exists, Contract!Live, Contract!TaskStatus,
           Contract!NoProject, Contract!NoTask
  <1> QED
    BY <1>1, <1>2
    DEF TablesInv, TasksHaveProjects, Contract!OneProjectPerResult,
        Contract!ProjectsConfirmed, Contract!PositionsDistinct

(* The types of the rows are the same in every state. *)
LEMMA RowTypes ==
  ASSUME result' \in [Results -> Contract!ResultRow],
         project' \in [Projects -> Contract!ProjectRow],
         task' \in [Tasks -> Contract!TaskRow]
  PROVE  Contract!TypeOK'
  BY DEF Contract!TypeOK, Contract!ResultRow, Contract!ProjectRow, Contract!TaskRow,
         Contract!TaskStatus

(* Positions that Reorder gives are numbers, each to one task. *)
LEMMA PlacesFacts ==
  ASSUME NEW S, NEW place \in Contract!Places(S)
  PROVE  /\ \A t \in S : place[t] \in Nat
         /\ \A t, u \in S : place[t] = place[u] => t = u
  BY DEF Contract!Places, Contract!Bijection, Contract!Injection, Contract!IsInjective

(* The identifiers of generated tasks are distinct. *)
LEMMA IdentifiersFacts ==
  ASSUME NEW n \in Nat, NEW ids \in Contract!Identifiers(n)
  PROVE  /\ DOMAIN ids = 0..(n - 1)
         /\ \A i \in DOMAIN ids : ids[i] \in Tasks
         /\ \A i, j \in DOMAIN ids : ids[i] = ids[j] => i = j
  BY DEF Contract!Identifiers, Contract!Injection, Contract!IsInjective

(* An edit replaces the content of a row and counts its version.           *)
LEMMA EditResultRow ==
  ASSUME Contract!TypeOK, NEW r \in Results, NEW c \in Contents, Contract!EditResult(r, c)
  PROVE  /\ result' \in [Results -> Contract!ResultRow]
         /\ \A q \in Results : q # r => result'[q] = result[q]
         /\ result'[r].confirmed = result[r].confirmed
         /\ result'[r].version = result[r].version + 1
  BY DEF Contract!TypeOK, Contract!ResultRow, Contract!EditResult

(* The same for the name of a project. *)
LEMMA EditProjectRow ==
  ASSUME Contract!TypeOK, NEW p \in Projects, NEW c \in Contents, Contract!EditProject(p, c)
  PROVE  /\ project' \in [Projects -> Contract!ProjectRow]
         /\ \A q \in Projects : q # p => project'[q] = project[q]
         /\ project'[p].status = project[p].status /\ project'[p].result = project[p].result
         /\ project'[p].version = project[p].version + 1
  BY DEF Contract!TypeOK, Contract!ProjectRow, Contract!EditProject

(* The same for a task, which keeps its status and its place. *)
LEMMA EditTaskRow ==
  ASSUME Contract!TypeOK, NEW t \in Tasks, NEW c \in Contents, Contract!EditTask(t, c)
  PROVE  /\ task' \in [Tasks -> Contract!TaskRow]
         /\ \A u \in Tasks : u # t => task'[u] = task[u]
         /\ task'[t].status = task[t].status /\ task'[t].project = task[t].project
         /\ task'[t].order = task[t].order /\ task'[t].version = task[t].version + 1
  BY DEF Contract!TypeOK, Contract!TaskRow, Contract!EditTask

(* Requests about results keep the invariants of the tables. *)
LEMMA ResultSteps ==
  ASSUME TablesInv, NEW r \in Results,
         Contract!ConfirmResult(r) \/ \E c \in Contents : Contract!EditResult(r, c)
  PROVE  TablesInv'
  <1>1. Contract!TypeOK'
    <2>1. Contract!TypeOK
      BY DEF TablesInv
    <2>2. CASE Contract!ConfirmResult(r)
      <3>1. result' \in [Results -> Contract!ResultRow]
        BY <2>1, <2>2 DEF Contract!TypeOK, Contract!ResultRow, Contract!ConfirmResult
      <3> QED
        BY <2>1, <2>2, <3>1, RowTypes DEF Contract!TypeOK, Contract!ConfirmResult
    <2>3. CASE \E c \in Contents : Contract!EditResult(r, c)
      <3>1. PICK c \in Contents : Contract!EditResult(r, c)
        BY <2>3
      <3>2. result' \in [Results -> Contract!ResultRow]
        BY <2>1, <3>1, EditResultRow
      <3> QED
        BY <2>1, <3>1, <3>2, RowTypes DEF Contract!TypeOK, Contract!EditResult
    <2> QED
      BY <2>2, <2>3
  <1>2. /\ project' = project /\ task' = task
        /\ \A q \in Results : result[q].confirmed => result'[q].confirmed
    <2>1. Contract!TypeOK
      BY DEF TablesInv
    <2>2. CASE Contract!ConfirmResult(r)
      BY <2>1, <2>2 DEF Contract!TypeOK, Contract!ResultRow, Contract!ConfirmResult
    <2>3. CASE \E c \in Contents : Contract!EditResult(r, c)
      <3>1. PICK c \in Contents : Contract!EditResult(r, c)
        BY <2>3
      <3> QED
        BY <2>1, <3>1, EditResultRow DEF Contract!EditResult
    <2> QED
      BY <2>2, <2>3
  <1> QED
    BY <1>1, <1>2
    DEF TablesInv, TasksHaveProjects, Contract!OneProjectPerResult,
        Contract!ProjectsConfirmed, Contract!PositionsDistinct, Contract!Exists, Contract!Live

(* A project is made of a confirmed result that has none, with tasks that  *)
(* were not there.                                                         *)
LEMMA CreateProjectStep ==
  ASSUME TablesInv, NEW r \in Results, NEW p \in Projects,
         NEW ids \in Contract!Identifiers(Generated[result[r].content]),
         Contract!CreateProject(p, r, ids)
  PROVE  TablesInv'
  <1> DEFINE c == result[r].content
             Listed(t) == \E i \in DOMAIN ids : ids[i] = t
             place(t) == CHOOSE i \in DOMAIN ids : ids[i] = t
  <1>1. c \in Contents /\ Generated[c] \in Nat
    BY ProjectBoardAssumption DEF TablesInv, Contract!TypeOK, Contract!ResultRow
  <1>2. /\ DOMAIN ids = 0..(Generated[c] - 1)
        /\ \A i, j \in DOMAIN ids : ids[i] = ids[j] => i = j
    BY <1>1, IdentifiersFacts
  <1>3. ASSUME NEW t, Listed(t) PROVE place(t) \in DOMAIN ids /\ ids[place(t)] = t /\ place(t) \in Nat
    BY <1>1, <1>2, <1>3
  <1> HIDE DEF place
  <1>4. /\ \A t \in Tasks : Listed(t) =>
             task[t].status = "absent" /\ task'[t] = Contract!NewTask(p, c, place(t))
        /\ \A t \in Tasks : ~Listed(t) => task'[t] = task[t]
        /\ task' = [t \in Tasks |-> task'[t]]
    BY DEF Contract!CreateProject, place
  <1>5. /\ project[p].status = "absent" /\ result[r].confirmed /\ result' = result
        /\ project' = [project EXCEPT ![p] = Contract!NewProject(r)]
        /\ \A q \in Projects : ~(Contract!Exists(q) /\ project[q].result = r)
    BY DEF Contract!CreateProject, Contract!Exists, Contract!ProjectsOf
  <1>6. /\ project'[p].status = "active" /\ project'[p].result = r
        /\ \A q \in Projects : q # p => project'[q] = project[q]
    BY <1>5 DEF TablesInv, Contract!TypeOK, Contract!NewProject
  <1>7. Contract!TypeOK'
    <2>1. Contract!NewProject(r) \in Contract!ProjectRow
      BY <1>1 DEF Contract!NewProject, Contract!ProjectRow
    <2>2. \A t \in Tasks : Listed(t) => Contract!NewTask(p, c, place(t)) \in Contract!TaskRow
      BY <1>1, <1>3 DEF Contract!NewTask, Contract!TaskRow, Contract!TaskStatus
    <2> QED
      BY <1>4, <1>5, <2>1, <2>2, RowTypes DEF TablesInv, Contract!TypeOK
  <1>8. TasksHaveProjects'
    BY <1>4, <1>6 DEF TablesInv, TasksHaveProjects, Contract!Exists, Contract!NewTask
  <1>9. Contract!OneProjectPerResult'
    BY <1>5, <1>6 DEF TablesInv, Contract!OneProjectPerResult, Contract!Exists
  <1>10. Contract!ProjectsConfirmed'
    BY <1>5, <1>6 DEF TablesInv, Contract!ProjectsConfirmed, Contract!Exists
  <1>11. Contract!PositionsDistinct'
    <2>1. SUFFICES ASSUME NEW t \in Tasks, NEW u \in Tasks, Contract!Live(t)', Contract!Live(u)',
                          task'[t].project = task'[u].project, task'[t].order = task'[u].order
                   PROVE  t = u
      BY DEF Contract!PositionsDistinct
    <2>2. CASE Listed(t) /\ Listed(u)
      BY <1>3, <1>4, <2>1, <2>2 DEF Contract!NewTask
    <2>3. CASE ~Listed(t) /\ ~Listed(u)
      BY <1>4, <2>1, <2>3 DEF TablesInv, Contract!PositionsDistinct, Contract!Live
    <2>4. \A x \in Tasks : Listed(x) => task'[x].project = p
      BY <1>4 DEF Contract!NewTask
    <2>5. \A x \in Tasks : ~Listed(x) /\ Contract!Live(x)' => task'[x].project # p
      BY <1>4, <1>5
      DEF TablesInv, TasksHaveProjects, Contract!Exists, Contract!Live, Contract!TaskStatus
    <2> QED
      BY <2>1, <2>2, <2>3, <2>4, <2>5
  <1> QED
    BY <1>7, <1>8, <1>9, <1>10, <1>11 DEF TablesInv

(* Requests about projects keep them. *)
LEMMA ProjectSteps ==
  ASSUME TablesInv, NEW p \in Projects,
         \/ \E c \in Contents : Contract!EditProject(p, c)
         \/ \E from, to \in {"active", "archived", "deleted"} : Contract!SetStatus(p, from, to)
  PROVE  TablesInv'
  <1>1. /\ project' \in [Projects -> Contract!ProjectRow] /\ result' = result /\ task' = task
        /\ \A q \in Projects : (Contract!Exists(q) <=> Contract!Exists(q)')
                               /\ project'[q].result = project[q].result
    <2>1. Contract!TypeOK
      BY DEF TablesInv
    <2>2. CASE \E c \in Contents : Contract!EditProject(p, c)
      <3>1. PICK c \in Contents : Contract!EditProject(p, c)
        BY <2>2
      <3> QED
        BY <2>1, <3>1, EditProjectRow DEF Contract!EditProject, Contract!Exists
    <2>3. CASE \E from, to \in {"active", "archived", "deleted"} : Contract!SetStatus(p, from, to)
      BY <2>1, <2>3
      DEF Contract!TypeOK, Contract!ProjectRow, Contract!SetStatus, Contract!Exists
    <2> QED
      BY <2>2, <2>3
  <1>2. Contract!TypeOK'
    BY <1>1, RowTypes DEF TablesInv, Contract!TypeOK
  <1> QED
    BY <1>1, <1>2
    DEF TablesInv, TasksHaveProjects, Contract!OneProjectPerResult,
        Contract!ProjectsConfirmed, Contract!PositionsDistinct, Contract!Live

(* A task that is added, changed or deleted leaves the others in place.    *)
LEMMA TaskSteps ==
  ASSUME TablesInv, NEW t \in Tasks,
         \/ \E p \in Projects, c \in Contents : \E n \in Contract!NextOrder(p) :
              Contract!CreateTask(t, p, c, n)
         \/ \E c \in Contents : Contract!EditTask(t, c)
         \/ \E s \in Contract!TaskStatus : Contract!MoveTask(t, s)
         \/ Contract!DeleteTask(t)
  PROVE  TablesInv'
  <1>0. Contract!TypeOK /\ result' = result /\ project' = project
    BY DEF TablesInv, Contract!CreateTask, Contract!EditTask, Contract!MoveTask,
           Contract!DeleteTask
  <1>1. CASE \E p \in Projects, c \in Contents : \E n \in Contract!NextOrder(p) :
               Contract!CreateTask(t, p, c, n)
    <2>a. PICK p \in Projects, c \in Contents :
            \E n \in Contract!NextOrder(p) : Contract!CreateTask(t, p, c, n)
      BY <1>1
    <2>b. PICK n \in Contract!NextOrder(p) : Contract!CreateTask(t, p, c, n)
      BY <2>a
    <2>1. n \in Nat /\ \A u \in Contract!TasksOf(p) : task[u].order < n
      BY <1>0 DEF Contract!NextOrder, Contract!TasksOf, Contract!TypeOK, Contract!TaskRow
    <2>2. task' = [task EXCEPT ![t] = Contract!NewTask(p, c, n)] /\ Contract!Active(p)
      BY <2>b DEF Contract!CreateTask
    <2>3. Contract!NewTask(p, c, n) \in Contract!TaskRow
      BY <2>1 DEF Contract!NewTask, Contract!TaskRow, Contract!TaskStatus
    <2>4. Contract!TypeOK'
      BY <1>0, <2>2, <2>3, RowTypes DEF Contract!TypeOK
    <2>5. task'[t].project = p /\ task'[t].order = n /\ \A u \in Tasks : u # t => task'[u] = task[u]
      BY <1>0, <2>2 DEF Contract!TypeOK, Contract!NewTask
    <2>6. TasksHaveProjects'
      BY <1>0, <2>2, <2>5 DEF TablesInv, TasksHaveProjects, Contract!Exists, Contract!Active
    <2>7. Contract!PositionsDistinct'
      <3>1. SUFFICES ASSUME NEW u \in Tasks, NEW v \in Tasks, u # v, Contract!Live(u)', Contract!Live(v)',
                            task'[u].project = task'[v].project, task'[u].order = task'[v].order
                     PROVE  FALSE
        BY DEF Contract!PositionsDistinct
      <3>2. CASE u # t /\ v # t
        BY <2>5, <3>1, <3>2 DEF TablesInv, Contract!PositionsDistinct, Contract!Live
      <3>3. \A x \in Tasks : x # t /\ Contract!Live(x)' /\ task'[x].project = p =>
              task'[x].order < n /\ task'[x].order \in Nat
        BY <1>0, <2>1, <2>5
        DEF Contract!TypeOK, Contract!TaskRow, Contract!Live, Contract!TasksOf
      <3> QED
        BY <2>1, <2>5, <3>1, <3>2, <3>3
    <2> QED
      BY <1>0, <2>4, <2>6, <2>7
      DEF TablesInv, Contract!OneProjectPerResult, Contract!ProjectsConfirmed, Contract!Exists
  <1>2. CASE \/ \E c \in Contents : Contract!EditTask(t, c)
             \/ \E s \in Contract!TaskStatus : Contract!MoveTask(t, s)
             \/ Contract!DeleteTask(t)
    <2>1. /\ task' \in [Tasks -> Contract!TaskRow]
          /\ \A u \in Tasks : /\ task'[u].project = task[u].project
                              /\ task'[u].order = task[u].order
                              /\ task'[u].status # "absent" => task[u].status # "absent"
                              /\ Contract!Live(u)' => Contract!Live(u)
      <3>1. CASE \E c \in Contents : Contract!EditTask(t, c)
        <4>1. PICK c \in Contents : Contract!EditTask(t, c)
          BY <3>1
        <4> QED
          BY <1>0, <4>1, EditTaskRow DEF Contract!Live
      <3>2. CASE \E s \in Contract!TaskStatus : Contract!MoveTask(t, s)
        BY <1>0, <3>2
        DEF Contract!TypeOK, Contract!TaskRow, Contract!MoveTask, Contract!Live, Contract!TaskStatus
      <3>3. CASE Contract!DeleteTask(t)
        BY <1>0, <3>3
        DEF Contract!TypeOK, Contract!TaskRow, Contract!DeleteTask, Contract!Live, Contract!TaskStatus
      <3> QED
        BY <1>2, <3>1, <3>2, <3>3
    <2>2. Contract!TypeOK'
      BY <1>0, <2>1, RowTypes DEF Contract!TypeOK
    <2> QED
      BY <1>0, <2>1, <2>2
      DEF TablesInv, TasksHaveProjects, Contract!OneProjectPerResult,
          Contract!ProjectsConfirmed, Contract!PositionsDistinct, Contract!Exists
  <1> QED
    BY <1>1, <1>2

(* All tasks of the project get new positions, and no others.              *)
LEMMA ReorderStep ==
  ASSUME TablesInv, NEW p \in Projects, NEW place \in Contract!Places(Contract!TasksOf(p)),
         Contract!Reorder(p, place)
  PROVE  TablesInv'
  <1>1. /\ \A t \in Contract!TasksOf(p) : task'[t] = [task[t] EXCEPT !.order = place[t]]
        /\ \A t \in Tasks \ Contract!TasksOf(p) : task'[t] = task[t]
        /\ task' = [t \in Tasks |-> task'[t]]
        /\ result' = result /\ project' = project
    BY DEF Contract!Reorder, Contract!TasksOf
  <1>2. /\ task' \in [Tasks -> Contract!TaskRow]
        /\ \A t \in Tasks : /\ task'[t].project = task[t].project
                            /\ task'[t].status = task[t].status
                            /\ t \in Contract!TasksOf(p) => task'[t].order = place[t]
    <2>1. \A t \in Tasks : task[t] \in Contract!TaskRow
      BY DEF TablesInv, Contract!TypeOK
    <2>2. \A t \in Contract!TasksOf(p) : place[t] \in Nat
      BY PlacesFacts
    <2>3. ASSUME NEW t \in Tasks
          PROVE  /\ task'[t] \in Contract!TaskRow
                 /\ task'[t].project = task[t].project /\ task'[t].status = task[t].status
                 /\ t \in Contract!TasksOf(p) => task'[t].order = place[t]
      <3>1. CASE t \in Contract!TasksOf(p)
        <4>1. task'[t] = [task[t] EXCEPT !.order = place[t]]
          BY <1>1, <3>1
        <4> QED
          BY <2>1, <2>2, <3>1, <4>1 DEF Contract!TaskRow
      <3>2. CASE t \notin Contract!TasksOf(p)
        BY <1>1, <2>1, <3>2
      <3> QED
        BY <3>1, <3>2
    <2> QED
      BY <1>1, <2>3
  <1>3. Contract!PositionsDistinct'
    <2>1. SUFFICES ASSUME NEW t \in Tasks, NEW u \in Tasks, Contract!Live(t)', Contract!Live(u)',
                          task'[t].project = task'[u].project, task'[t].order = task'[u].order
                   PROVE  t = u
      BY DEF Contract!PositionsDistinct
    <2>2. Contract!Live(t) /\ Contract!Live(u) /\ task[t].project = task[u].project
      BY <1>2, <2>1 DEF Contract!Live
    <2>3. CASE task[t].project = p
      BY <1>2, <2>1, <2>2, <2>3, PlacesFacts DEF Contract!TasksOf
    <2>4. CASE task[t].project # p
      BY <1>1, <2>1, <2>2, <2>4 DEF Contract!TasksOf, TablesInv, Contract!PositionsDistinct
    <2> QED
      BY <2>3, <2>4
  <1>4. Contract!TypeOK'
    BY <1>1, <1>2, RowTypes DEF TablesInv, Contract!TypeOK
  <1> QED
    BY <1>1, <1>2, <1>3, <1>4
    DEF TablesInv, TasksHaveProjects, Contract!OneProjectPerResult,
        Contract!ProjectsConfirmed, Contract!Exists

(* No action of the contract breaks the invariants of the tables.          *)
LEMMA TablesNext == TablesInv /\ [Contract!Next]_(Contract!vars) => TablesInv'
  <1> SUFFICES ASSUME TablesInv, [Contract!Next]_(Contract!vars) PROVE TablesInv'
    OBVIOUS
  <1>1. CASE UNCHANGED Contract!vars
    BY <1>1
    DEF Contract!vars, TablesInv, Contract!TypeOK, TasksHaveProjects, Contract!Exists,
        Contract!Live, Contract!OneProjectPerResult, Contract!ProjectsConfirmed,
        Contract!PositionsDistinct
  <1> QED
    BY <1>1, ResultSteps, CreateProjectStep, ProjectSteps, TaskSteps, ReorderStep
    DEF Contract!Next

-----------------------------------------------------------------------------
\* How rows may change: what is confirmed, archived or gone stays, and whatever a
\* client can have read of a row changes with its version.
ResultGrows(r) ==
  /\ result[r].confirmed => result'[r] = result[r]
  /\ result'[r].version >= result[r].version
  /\ result'[r].version = result[r].version => result'[r].content = result[r].content

ProjectGrows(p) ==
  Contract!Exists(p) =>
    /\ Contract!Exists(p)' /\ project'[p].result = project[p].result
    /\ project'[p].version >= project[p].version
    /\ project'[p].version = project[p].version => project'[p] = project[p]

TaskGrows(t) ==
  task[t].status # "absent" =>
    /\ task'[t].status # "absent" /\ task'[t].project = task[t].project
    /\ task'[t].version >= task[t].version
    /\ Contract!Live(t)' =>
         /\ Contract!Live(t)
         /\ task'[t].version = task[t].version =>
              task'[t].content = task[t].content /\ task'[t].status = task[t].status
    /\ Contract!Live(t) /\ ~Contract!Active(task[t].project) => task'[t] = task[t]

RowsGrow ==
  /\ \A r \in Results : ResultGrows(r)
  /\ \A p \in Projects : ProjectGrows(p)
  /\ \A t \in Tasks : TaskGrows(t)

(* A table that a step leaves alone.                                       *)
LEMMA RowsStay ==
  ASSUME Contract!TypeOK
  PROVE  /\ result' = result => \A r \in Results : ResultGrows(r)
         /\ project' = project => \A p \in Projects : ProjectGrows(p)
         /\ task' = task => \A t \in Tasks : TaskGrows(t)
  <1>1. /\ \A r \in Results : result[r].version \in Nat
        /\ \A p \in Projects : project[p].version \in Nat
        /\ \A t \in Tasks : task[t].version \in Nat
    BY DEF Contract!TypeOK, Contract!ResultRow, Contract!ProjectRow, Contract!TaskRow
  <1> QED
    BY <1>1 DEF ResultGrows, ProjectGrows, TaskGrows, Contract!Exists, Contract!Live

(* Results grow. *)
LEMMA ResultsGrow ==
  ASSUME Contract!TypeOK, NEW r \in Results,
         Contract!ConfirmResult(r) \/ \E c \in Contents : Contract!EditResult(r, c)
  PROVE  RowsGrow
  <1>1. result[r].version \in Nat /\ project' = project /\ task' = task
    BY DEF Contract!TypeOK, Contract!ResultRow, Contract!ConfirmResult, Contract!EditResult
  <1>2. \A q \in Results : result[q].version \in Nat
    BY DEF Contract!TypeOK, Contract!ResultRow
  <1>3. \A q \in Results : ResultGrows(q)
    <2>1. CASE Contract!ConfirmResult(r)
      BY <1>2, <2>1 DEF Contract!TypeOK, Contract!ResultRow, Contract!ConfirmResult, ResultGrows
    <2>2. CASE \E c \in Contents : Contract!EditResult(r, c)
      <3>1. PICK c \in Contents : Contract!EditResult(r, c)
        BY <2>2
      <3>2. ~result[r].confirmed
        BY <3>1 DEF Contract!EditResult
      <3> QED
        BY <1>2, <3>1, <3>2, EditResultRow DEF ResultGrows
    <2> QED
      BY <2>1, <2>2
  <1> QED
    BY <1>1, <1>3, RowsStay DEF RowsGrow

(* Projects grow. *)
LEMMA ProjectsGrow ==
  ASSUME Contract!TypeOK, NEW p \in Projects,
         \/ \E c \in Contents : Contract!EditProject(p, c)
         \/ \E from, to \in {"active", "archived", "deleted"} : Contract!SetStatus(p, from, to)
  PROVE  RowsGrow
  <1>1. result' = result /\ task' = task
    BY DEF Contract!EditProject, Contract!SetStatus
  <1>2. \A q \in Projects : project[q].version \in Nat
    BY DEF Contract!TypeOK, Contract!ProjectRow
  <1>3. \A q \in Projects : ProjectGrows(q)
    <2>1. CASE \E c \in Contents : Contract!EditProject(p, c)
      <3>1. PICK c \in Contents : Contract!EditProject(p, c)
        BY <2>1
      <3> QED
        BY <1>2, <3>1, EditProjectRow DEF ProjectGrows, Contract!Exists
    <2>2. CASE \E from, to \in {"active", "archived", "deleted"} : Contract!SetStatus(p, from, to)
      BY <1>2, <2>2
      DEF Contract!TypeOK, Contract!ProjectRow, Contract!SetStatus, Contract!Exists, ProjectGrows
    <2> QED
      BY <2>1, <2>2
  <1> QED
    BY <1>1, <1>3, RowsStay DEF RowsGrow

(* Tasks grow. *)
LEMMA TasksGrow ==
  ASSUME Contract!TypeOK, NEW t \in Tasks,
         \/ \E p \in Projects, c \in Contents : \E n \in Contract!NextOrder(p) :
              Contract!CreateTask(t, p, c, n)
         \/ \E c \in Contents : Contract!EditTask(t, c)
         \/ \E s \in Contract!TaskStatus : Contract!MoveTask(t, s)
         \/ Contract!DeleteTask(t)
  PROVE  RowsGrow
  <1>1. result' = result /\ project' = project
    BY DEF Contract!CreateTask, Contract!EditTask, Contract!MoveTask, Contract!DeleteTask
  <1>2. \A u \in Tasks : task[u].version \in Nat
    BY DEF Contract!TypeOK, Contract!TaskRow
  <1> USE DEF TaskGrows, Contract!Live
  <1>3. \A u \in Tasks : TaskGrows(u)
    <2>1. CASE \E p \in Projects, c \in Contents : \E n \in Contract!NextOrder(p) :
                 Contract!CreateTask(t, p, c, n)
      <3>1. /\ task[t].status = "absent"
            /\ \A u \in Tasks : u # t => task'[u] = task[u]
        BY <2>1 DEF Contract!TypeOK, Contract!CreateTask
      <3> QED
        BY <1>2, <3>1
    <2>2. CASE \E c \in Contents : Contract!EditTask(t, c)
      <3>1. PICK c \in Contents : Contract!EditTask(t, c)
        BY <2>2
      <3>2. Contract!Live(t) /\ Contract!Active(task[t].project)
        BY <3>1 DEF Contract!EditTask
      <3> QED
        BY <1>2, <3>1, <3>2, EditTaskRow
    <2>3. CASE \E s \in Contract!TaskStatus : Contract!MoveTask(t, s)
      BY <1>2, <2>3 DEF Contract!TypeOK, Contract!TaskRow, Contract!MoveTask, Contract!TaskStatus
    <2>4. CASE Contract!DeleteTask(t)
      BY <1>2, <2>4 DEF Contract!TypeOK, Contract!TaskRow, Contract!DeleteTask, Contract!TaskStatus
    <2> QED
      BY <2>1, <2>2, <2>3, <2>4
  <1> QED
    BY <1>1, <1>3, RowsStay DEF RowsGrow

(* What is created or reordered leaves everything else as it was.          *)
LEMMA OthersGrow ==
  ASSUME TablesInv, NEW p \in Projects,
         \/ \E r \in Results : \E ids \in Contract!Identifiers(Generated[result[r].content]) :
              Contract!CreateProject(p, r, ids)
         \/ \E place \in Contract!Places(Contract!TasksOf(p)) : Contract!Reorder(p, place)
  PROVE  RowsGrow
  <1>0. Contract!TypeOK
    BY DEF TablesInv
  <1>1. CASE \E r \in Results : \E ids \in Contract!Identifiers(Generated[result[r].content]) :
               Contract!CreateProject(p, r, ids)
    <2>1. PICK r \in Results : \E ids \in Contract!Identifiers(Generated[result[r].content]) :
            Contract!CreateProject(p, r, ids)
      BY <1>1
    <2>2. PICK ids \in Contract!Identifiers(Generated[result[r].content]) :
            Contract!CreateProject(p, r, ids)
      BY <2>1
    <2>3. result' = result /\ \A t \in Tasks : task[t].status # "absent" => task'[t] = task[t]
      BY <2>2 DEF Contract!CreateProject
    <2>4. \A q \in Projects : Contract!Exists(q) => project'[q] = project[q]
      BY <1>0, <2>2 DEF Contract!CreateProject, Contract!Exists, Contract!TypeOK
    <2>5. /\ \A q \in Projects : project[q].version \in Nat
          /\ \A t \in Tasks : task[t].version \in Nat
      BY <1>0 DEF Contract!TypeOK, Contract!ProjectRow, Contract!TaskRow
    <2> QED
      BY <1>0, <2>3, <2>4, <2>5, RowsStay
      DEF RowsGrow, ProjectGrows, TaskGrows, Contract!Exists, Contract!Live
  <1>2. CASE \E place \in Contract!Places(Contract!TasksOf(p)) : Contract!Reorder(p, place)
    <2>1. PICK place \in Contract!Places(Contract!TasksOf(p)) : Contract!Reorder(p, place)
      BY <1>2
    <2>2. result' = result /\ project' = project /\ Contract!Active(p)
      BY <2>1 DEF Contract!Reorder
    <2>3. ASSUME NEW t \in Tasks
          PROVE  TaskGrows(t)
      <3>1. task[t] \in Contract!TaskRow
        BY <1>0 DEF Contract!TypeOK
      <3>2. CASE t \in Contract!TasksOf(p)
        <4>1. task'[t] = [task[t] EXCEPT !.order = place[t]]
          BY <2>1, <3>2 DEF Contract!Reorder
        <4> QED
          BY <2>2, <3>1, <3>2, <4>1
          DEF TaskGrows, Contract!TaskRow, Contract!Live, Contract!TasksOf
      <3>3. CASE t \notin Contract!TasksOf(p)
        <4>1. task'[t] = task[t]
          BY <2>1, <3>3 DEF Contract!Reorder
        <4> QED
          BY <3>1, <4>1 DEF TaskGrows, Contract!TaskRow, Contract!Live
      <3> QED
        BY <3>2, <3>3
    <2> QED
      BY <1>0, <2>2, <2>3, RowsStay DEF RowsGrow
  <1> QED
    BY <1>1, <1>2

(* Every action of the contract only lets rows grow.                       *)
LEMMA NextGrows == TablesInv /\ [Contract!Next]_(Contract!vars) => RowsGrow
  <1> SUFFICES ASSUME TablesInv, [Contract!Next]_(Contract!vars) PROVE RowsGrow
    OBVIOUS
  <1>1. Contract!TypeOK
    BY DEF TablesInv
  <1>2. CASE UNCHANGED Contract!vars
    BY <1>1, <1>2, RowsStay DEF Contract!vars, RowsGrow
  <1> QED
    BY <1>1, <1>2, ResultsGrow, ProjectsGrow, TasksGrow, OthersGrow DEF Contract!Next

-----------------------------------------------------------------------------
(* What a handler knows. *)

HasResult(h)  == pc[h] \in {"read", "write"} /\ op[h] \in ResultOps
HasProject(h) == pc[h] \in {"lockTask", "read", "write"} /\ op[h] \notin ResultOps
HasTask(h)    == pc[h] = "write" /\ op[h] \in TaskOps

\* A request is about a row that exists, and at a statement it can be at.
WellPlaced(h) ==
  pc[h] # "idle" =>
    \/ /\ op[h] \in ResultOps /\ row[h] \in Results
       /\ pc[h] \in {"lock", "read", "write"}
       /\ pc[h] = "read" => op[h] = "createProject"
    \/ /\ op[h] \in ProjectOps /\ on[h] \in Projects /\ row[h] = on[h]
       /\ Contract!Exists(on[h])
       /\ pc[h] \in {"lock", "read", "write"}
       /\ pc[h] = "read" => op[h] \in {"createTask", "reorder"}
    \/ /\ op[h] \in TaskOps /\ row[h] \in Tasks /\ task[row[h]].status # "absent"
       /\ pc[h] \in {"find", "lock", "lockTask", "write"}
       /\ pc[h] # "find" => on[h] = task[row[h]].project

\* Locks are held from the statement that takes them to the end, and only then.
HoldsLocks(h) ==
  /\ \A r \in Results : resultLock[r] = h <=> HasResult(h) /\ row[h] = r
  /\ \A p \in Projects : projectLock[p] = h <=> HasProject(h) /\ on[h] = p
  /\ \A t \in Tasks : taskLock[t] = h <=> HasTask(h) /\ row[h] = t

\* What earlier statements have found still holds.
Knows(h) ==
  /\ pc[h] = "write" /\ op[h] = "createProject" => result[row[h]].confirmed
  /\ HasProject(h) /\ op[h] \in {"createTask", "reorder"} \cup TaskOps =>
       Contract!Active(on[h])
  /\ HasTask(h) => Contract!Live(row[h])
  /\ pc[h] = "write" /\ op[h] = "createTask" => last[h] \in Contract!NextOrder(on[h])
  /\ pc[h] = "write" /\ op[h] = "reorder" => listed[h] = Contract!TasksOf(on[h])

\* The row that the client of an edit has read is an earlier one, or still is what
\* the client knows.
Seen(h) ==
  pc[h] # "idle" =>
    /\ op[h] = "editResult" =>
         /\ base[h].version \in Nat /\ base[h].version <= result[row[h]].version
         /\ base[h].version = result[row[h]].version => base[h].content = result[row[h]].content
         /\ pc[h] = "write" => base[h].version = result[row[h]].version
    /\ op[h] = "editProject" =>
         /\ base[h].version \in Nat /\ base[h].version <= project[row[h]].version
         /\ base[h].version = project[row[h]].version =>
              base[h].content = project[row[h]].content /\ base[h].status = project[row[h]].status
         /\ pc[h] = "write" => base[h].version = project[row[h]].version
    /\ op[h] = "editTask" =>
         /\ base[h].version \in Nat /\ base[h].version <= task[row[h]].version
         /\ base[h].version = task[row[h]].version /\ Contract!Live(row[h]) =>
              base[h].content = task[row[h]].content /\ base[h].status = task[row[h]].status
         /\ pc[h] = "write" => base[h].version = task[row[h]].version

HandlerInv(h) == WellPlaced(h) /\ HoldsLocks(h) /\ Knows(h) /\ Seen(h)

Inv == TypeOK /\ TablesInv /\ \A h \in Handlers : HandlerInv(h)

(* No request has begun. *)
LEMMA InitInv == Init => Inv
  <1> SUFFICES ASSUME Init PROVE Inv
    OBVIOUS
  <1>1. TablesInv
    BY TablesInit DEF Init
  <1>2. TypeOK
    BY <1>1 DEF TablesInv, Init, TypeOK, ResultOps, ProjectOps, TaskOps
  <1>3. ASSUME NEW h \in Handlers PROVE HandlerInv(h)
    BY ProjectBoardAssumption
    DEF Init, HandlerInv, WellPlaced, HoldsLocks, Knows, Seen, HasResult, HasProject, HasTask
  <1> QED
    BY <1>1, <1>2, <1>3 DEF Inv

-----------------------------------------------------------------------------
(* Every commit is a step of the contract, and touches nothing but the     *)
(* rows its handler has locked and new ones.                               *)

Touches(h) ==
  /\ \A r \in Results : result'[r] # result[r] => HasResult(h) /\ row[h] = r
  /\ \A p \in Projects :
       project'[p] # project[p] => ~Contract!Exists(p) \/ (HasProject(h) /\ on[h] = p)
  /\ \A t \in Tasks :
       task'[t] # task[t] =>
         \/ /\ HasProject(h) /\ task'[t].project = on[h]
            /\ Contract!Live(t) => task[t].project = on[h]
         \/ ~Contract!Live(t) /\ ~Contract!Exists(task'[t].project)

Commits(h) == [Contract!Next]_(Contract!vars) /\ Touches(h)

(* A statement that writes nothing commits nothing. *)
LEMMA NothingWritten == ASSUME UNCHANGED rows, NEW h PROVE Commits(h)
  BY DEF rows, Commits, Touches, Contract!vars

(* Update and Confirm of a result commit what the contract allows. *)
LEMMA WriteResultCommits ==
  ASSUME Inv, NEW h \in Handlers, WriteResult(h) \/ WriteConfirmed(h)
  PROVE  Commits(h)
  <1>1. /\ pc[h] = "write" /\ op[h] \in {"editResult", "confirmResult"}
        /\ ~result[row[h]].confirmed /\ project' = project /\ task' = task
    BY DEF WriteResult, WriteConfirmed, ResultAllows
  <1>2. row[h] \in Results /\ HasResult(h)
    BY <1>1 DEF Inv, HandlerInv, WellPlaced, HasResult, ResultOps, ProjectOps, TaskOps
  <1>3. result \in [Results -> Contract!ResultRow]
    BY DEF Inv, TablesInv, Contract!TypeOK
  <1>4. CASE WriteResult(h)
    <2>1. PICK c \in Contents :
            result' = [result EXCEPT ![row[h]].content = c, ![row[h]].version = @ + 1]
      BY <1>4 DEF WriteResult
    <2>2. Contract!EditResult(row[h], c)
      BY <1>1, <2>1 DEF Contract!EditResult
    <2>3. \A r \in Results : r # row[h] => result'[r] = result[r]
      BY <1>2, <1>3, <2>1
    <2> QED
      BY <1>1, <1>2, <2>2, <2>3 DEF Commits, Touches, Contract!Next
  <1>5. CASE WriteConfirmed(h)
    <2>1. Contract!ConfirmResult(row[h])
      BY <1>1, <1>5 DEF WriteConfirmed, Contract!ConfirmResult
    <2>2. \A r \in Results : r # row[h] => result'[r] = result[r]
      BY <1>2, <1>3, <1>5 DEF WriteConfirmed
    <2> QED
      BY <1>1, <1>2, <2>1, <2>2 DEF Commits, Touches, Contract!Next
  <1> QED
    BY <1>4, <1>5

(* Fresh identifiers, each for one generated task, are a choice that the   *)
(* contract allows.                                                        *)
LEMMA FreshListsFacts ==
  ASSUME NEW c, NEW ids \in FreshLists(c)
  PROVE  /\ ids \in Contract!Identifiers(Generated[c])
         /\ \A i \in DOMAIN ids : task[ids[i]].status = "absent"
         /\ \A t : t \in Range(ids) <=> \E i \in DOMAIN ids : ids[i] = t
  BY DEF FreshLists, FreshTasks, Range

(* Create of a project commits it with its tasks, from the confirmed result *)
(* that the handler has locked.                                             *)
LEMMA InsertProjectCommits ==
  ASSUME Inv, NEW h \in Handlers, InsertProject(h)
  PROVE  Commits(h)
  <1> DEFINE c == result[row[h]].content
  <1>1. CASE UNCHANGED rows
    BY <1>1, NothingWritten
  <1>2. ASSUME ~UNCHANGED rows
        PROVE  \E p \in FreshProjects, ids \in FreshLists(c) :
                 /\ project' = [project EXCEPT ![p] = Contract!NewProject(row[h])]
                 /\ task' = [t \in Tasks |->
                               IF t \in Range(ids)
                                 THEN Contract!NewTask(p, c, CHOOSE i \in DOMAIN ids : ids[i] = t)
                                 ELSE task[t]]
                 /\ result' = result /\ ProjectsFor(row[h]) = {}
    BY <1>2 DEF InsertProject, Rollback, rows
  <1>3. CASE ~UNCHANGED rows
    <2>1. PICK p \in FreshProjects, ids \in FreshLists(c) :
            /\ project' = [project EXCEPT ![p] = Contract!NewProject(row[h])]
            /\ task' = [t \in Tasks |->
                          IF t \in Range(ids)
                            THEN Contract!NewTask(p, c, CHOOSE i \in DOMAIN ids : ids[i] = t)
                            ELSE task[t]]
            /\ result' = result /\ ProjectsFor(row[h]) = {}
      BY <1>2, <1>3
    <2>2. p \in Projects /\ ~Contract!Exists(p)
      BY DEF FreshProjects
    <2>3. pc[h] = "write" /\ op[h] = "createProject"
      BY DEF InsertProject
    <2>4. row[h] \in Results /\ result[row[h]].confirmed
      BY <2>3 DEF Inv, HandlerInv, WellPlaced, Knows, ResultOps, ProjectOps, TaskOps
    <2>5. /\ ids \in Contract!Identifiers(Generated[c])
          /\ \A i \in DOMAIN ids : task[ids[i]].status = "absent"
          /\ \A t : t \in Range(ids) <=> \E i \in DOMAIN ids : ids[i] = t
      BY FreshListsFacts
    <2>6. Contract!CreateProject(p, row[h], ids)
      <3>1. Contract!ProjectsOf(row[h]) = {}
        BY <2>1 DEF ProjectsFor, Contract!ProjectsOf
      <3>2. task' = [t \in Tasks |->
                      IF \E i \in DOMAIN ids : ids[i] = t
                        THEN Contract!NewTask(p, c, CHOOSE i \in DOMAIN ids : ids[i] = t)
                        ELSE task[t]]
        BY <2>1, <2>5
      <3> QED
        BY <2>1, <2>2, <2>4, <2>5, <3>1, <3>2 DEF Contract!CreateProject
    <2>7. [Contract!Next]_(Contract!vars)
      BY <2>2, <2>4, <2>5, <2>6 DEF Contract!Next
    <2>8. Touches(h)
      <3>1. \A q \in Projects : q # p => project'[q] = project[q]
        BY <2>1 DEF Inv, TablesInv, Contract!TypeOK
      <3>2. ASSUME NEW t \in Tasks, task'[t] # task[t]
            PROVE  ~Contract!Live(t) /\ task'[t].project = p
        <4>1. t \in Range(ids)
          BY <2>1, <3>2
        <4>2. task[t].status = "absent"
          BY <2>5, <4>1
        <4>3. task'[t] = Contract!NewTask(p, c, CHOOSE i \in DOMAIN ids : ids[i] = t)
          BY <2>1, <4>1
        <4> QED
          BY <4>2, <4>3 DEF Contract!Live, Contract!TaskStatus, Contract!NewTask
      <3> QED
        BY <2>1, <2>2, <3>1, <3>2 DEF Touches
    <2> QED
      BY <2>7, <2>8 DEF Commits
  <1> QED
    BY <1>1, <1>3

(* Update, Archive, Unarchive and Delete of a project commit one action     *)
(* each.                                                                    *)
LEMMA WriteProjectCommits ==
  ASSUME Inv, NEW h \in Handlers, WriteProject(h) \/ Transition(h)
  PROVE  Commits(h)
  <1>1. /\ pc[h] = "write" /\ op[h] \in {"editProject", "archive", "unarchive", "deleteProject"}
        /\ ProjectAllows(h) /\ result' = result /\ task' = task
    BY DEF WriteProject, Transition
  <1>2. on[h] \in Projects /\ HasProject(h)
    BY <1>1 DEF Inv, HandlerInv, WellPlaced, HasProject, ResultOps, ProjectOps, TaskOps
  <1>3. project \in [Projects -> Contract!ProjectRow]
    BY DEF Inv, TablesInv, Contract!TypeOK
  <1>4. CASE WriteProject(h)
    <2>1. PICK c \in Contents :
            project' = [project EXCEPT ![on[h]].content = c, ![on[h]].version = @ + 1]
      BY <1>4 DEF WriteProject
    <2>2. Contract!EditProject(on[h], c)
      BY <1>1, <1>4, <2>1 DEF WriteProject, ProjectAllows, Contract!EditProject, Contract!Active
    <2>3. \A p \in Projects : p # on[h] => project'[p] = project[p]
      BY <1>2, <1>3, <2>1
    <2> QED
      BY <1>1, <1>2, <2>2, <2>3 DEF Commits, Touches, Contract!Next
  <1>5. CASE Transition(h)
    <2>1. Contract!SetStatus(on[h], project[on[h]].status, Target(h))
      BY <1>1, <1>5 DEF Transition, ProjectAllows, Target, Contract!SetStatus
    <2>2. /\ project[on[h]].status \in {"active", "archived", "deleted"}
          /\ Target(h) \in {"active", "archived", "deleted"}
      BY <1>1, <1>5 DEF Transition, ProjectAllows, Target
    <2>3. \A p \in Projects : p # on[h] => project'[p] = project[p]
      BY <1>2, <1>3, <1>5 DEF Transition
    <2>4. Contract!Next
      BY <1>2, <2>1, <2>2 DEF Contract!Next
    <2> QED
      BY <1>1, <1>2, <2>3, <2>4 DEF Commits, Touches
  <1> QED
    BY <1>4, <1>5

(* Create of a task puts it behind the tasks of its locked project. *)
LEMMA InsertTaskCommits ==
  ASSUME Inv, NEW h \in Handlers, InsertTask(h)
  PROVE  Commits(h)
  <1>1. CASE UNCHANGED rows
    BY <1>1, NothingWritten
  <1>2. CASE ~UNCHANGED rows
    <2>1. \E t \in FreshTasks, c \in Contents :
            task' = [task EXCEPT ![t] = Contract!NewTask(on[h], c, last[h])]
      BY <1>2 DEF InsertTask, Rollback
    <2>2. PICK t \in FreshTasks, c \in Contents :
            task' = [task EXCEPT ![t] = Contract!NewTask(on[h], c, last[h])]
      BY <2>1
    <2>3. /\ pc[h] = "write" /\ op[h] = "createTask"
          /\ result' = result /\ project' = project
      BY <1>2 DEF InsertTask, Rollback
    <2>4. /\ on[h] \in Projects /\ HasProject(h) /\ Contract!Active(on[h])
          /\ last[h] \in Contract!NextOrder(on[h])
      BY <2>3 DEF Inv, HandlerInv, WellPlaced, Knows, HasProject, ResultOps, ProjectOps, TaskOps
    <2>5. t \in Tasks /\ task[t].status = "absent"
      BY DEF FreshTasks
    <2>6. Contract!CreateTask(t, on[h], c, last[h])
      BY <2>2, <2>3, <2>4, <2>5 DEF Contract!CreateTask
    <2>7. [Contract!Next]_(Contract!vars)
      BY <2>4, <2>5, <2>6 DEF Contract!Next
    <2>8. task'[t].project = on[h] /\ \A u \in Tasks : u # t => task'[u] = task[u]
      BY <2>2, <2>5 DEF Inv, TablesInv, Contract!TypeOK, Contract!NewTask
    <2> QED
      BY <2>3, <2>4, <2>5, <2>7, <2>8
      DEF Commits, Touches, Contract!Live, Contract!TaskStatus
  <1> QED
    BY <1>1, <1>2

(* Update, UpdateStatus and Delete of a task commit one action each. *)
LEMMA WriteTaskCommits ==
  ASSUME Inv, NEW h \in Handlers, WriteTask(h) \/ WriteStatus(h) \/ RemoveTask(h)
  PROVE  Commits(h)
  <1>1. /\ pc[h] = "write" /\ op[h] \in TaskOps
        /\ result' = result /\ project' = project
    BY DEF WriteTask, WriteStatus, RemoveTask, TaskOps
  <1>2. /\ row[h] \in Tasks /\ HasProject(h) /\ HasTask(h)
        /\ on[h] = task[row[h]].project
        /\ Contract!Live(row[h]) /\ Contract!Active(on[h])
    BY <1>1
    DEF Inv, HandlerInv, WellPlaced, Knows, HasProject, HasTask, ResultOps, ProjectOps, TaskOps
  <1>3. task \in [Tasks -> Contract!TaskRow]
    BY DEF Inv, TablesInv, Contract!TypeOK
  <1>4. SUFFICES ASSUME ~UNCHANGED rows
                 PROVE  Commits(h)
    BY NothingWritten
  <1>5. /\ \/ \E c \in Contents : Contract!EditTask(row[h], c)
           \/ \E s \in Contract!TaskStatus : Contract!MoveTask(row[h], s)
           \/ Contract!DeleteTask(row[h])
        /\ \A t \in Tasks : t # row[h] => task'[t] = task[t]
        /\ task'[row[h]].project = task[row[h]].project
    <2>1. CASE WriteTask(h)
      <3>1. PICK c \in Contents :
              task' = [task EXCEPT ![row[h]].content = c, ![row[h]].version = @ + 1]
        BY <2>1 DEF WriteTask
      <3>2. Contract!EditTask(row[h], c)
        BY <1>1, <1>2, <3>1 DEF Contract!EditTask
      <3> QED
        BY <1>2, <1>3, <3>1, <3>2 DEF Contract!TaskRow
    <2>2. CASE WriteStatus(h)
      <3>1. PICK s \in Contract!TaskStatus :
              /\ task[row[h]].status # s
              /\ task' = [task EXCEPT ![row[h]].status = s, ![row[h]].version = @ + 1]
        BY <1>1, <1>4, <2>2 DEF WriteStatus, rows
      <3>2. Contract!MoveTask(row[h], s)
        BY <1>1, <1>2, <3>1 DEF Contract!MoveTask
      <3> QED
        BY <1>2, <1>3, <3>1, <3>2 DEF Contract!TaskRow
    <2>3. CASE RemoveTask(h)
      <3>1. Contract!DeleteTask(row[h])
        BY <1>1, <1>2, <2>3 DEF RemoveTask, Contract!DeleteTask
      <3> QED
        BY <1>2, <1>3, <2>3, <3>1 DEF RemoveTask, Contract!TaskRow
    <2> QED
      BY <2>1, <2>2, <2>3
  <1>6. Contract!Next
    BY <1>2, <1>5 DEF Contract!Next
  <1> QED
    BY <1>1, <1>2, <1>5, <1>6 DEF Commits, Touches

(* Reorder places all the tasks of its locked project. *)
LEMMA WriteOrderCommits ==
  ASSUME Inv, NEW h \in Handlers, WriteOrder(h)
  PROVE  Commits(h)
  <1>1. PICK place \in Contract!Places(listed[h]) :
          task' = [t \in Tasks |->
                    IF t \in listed[h] THEN [task[t] EXCEPT !.order = place[t]] ELSE task[t]]
    BY DEF WriteOrder
  <1>2. /\ pc[h] = "write" /\ op[h] = "reorder"
        /\ result' = result /\ project' = project
    BY DEF WriteOrder
  <1>3. /\ on[h] \in Projects /\ HasProject(h) /\ Contract!Active(on[h])
        /\ listed[h] = Contract!TasksOf(on[h])
    BY <1>2 DEF Inv, HandlerInv, WellPlaced, Knows, HasProject, ResultOps, ProjectOps, TaskOps
  <1>4. Contract!Reorder(on[h], place)
    BY <1>1, <1>2, <1>3 DEF Contract!Reorder
  <1>5. Contract!Next
    BY <1>1, <1>3, <1>4 DEF Contract!Next
  <1>6. ASSUME NEW t \in Tasks, task'[t] # task[t]
        PROVE  task'[t].project = on[h] /\ task[t].project = on[h]
    <2>1. t \in Contract!TasksOf(on[h]) /\ task'[t] = [task[t] EXCEPT !.order = place[t]]
      BY <1>1, <1>3, <1>6
    <2>2. task[t] \in Contract!TaskRow
      BY DEF Inv, TablesInv, Contract!TypeOK
    <2> QED
      BY <2>1, <2>2 DEF Contract!TasksOf, Contract!TaskRow
  <1> QED
    BY <1>2, <1>3, <1>5, <1>6 DEF Commits, Touches

(* Whatever a handler does is a step of the contract, or none.             *)
LEMMA StatementCommits ==
  ASSUME Inv, NEW h \in Handlers, Statement(h) \/ Lost(h)
  PROVE  Commits(h)
  <1>1. CASE UNCHANGED rows
    BY <1>1, NothingWritten
  <1>2. CASE ~UNCHANGED rows
    <2>1. ~(LockResult(h) \/ FindExisting(h) \/ LockProject(h) \/ MaxOrder(h) \/ FindTask(h)
              \/ LockTask(h) \/ ListTasks(h) \/ Lost(h))
      BY <1>2
      DEF LockResult, FindExisting, LockProject, MaxOrder, FindTask, LockTask, ListTasks, Lost,
          Goto, Rollback
    <2> QED
      BY <2>1, WriteResultCommits, InsertProjectCommits, WriteProjectCommits, InsertTaskCommits,
         WriteTaskCommits, WriteOrderCommits
      DEF Statement
  <1> QED
    BY <1>1, <1>2

(* Every step of the system is a step of the contract, or none. *)
LEMMA NextCommits ==
  ASSUME Inv, [Next]_vars
  PROVE  [Contract!Next]_(Contract!vars)
  <1>1. CASE UNCHANGED rows
    BY <1>1, NothingWritten DEF Commits
  <1>2. CASE ~UNCHANGED rows
    <2>1. PICK h \in Handlers : Statement(h) \/ Lost(h)
      BY <1>2 DEF Next, vars, BeginResult, BeginProject, BeginTask, Begin
    <2> QED
      BY <2>1, StatementCommits DEF Commits
  <1> QED
    BY <1>1, <1>2

-----------------------------------------------------------------------------
(* Handlers do not disturb each other.                                     *)

\* What a step of another handler leaves to g.
Untouched(g) ==
  /\ pc'[g] = pc[g] /\ op'[g] = op[g] /\ row'[g] = row[g] /\ base'[g] = base[g]
  /\ on'[g] = on[g] /\ last'[g] = last[g] /\ listed'[g] = listed[g]
  /\ \A r \in Results : resultLock'[r] = g <=> resultLock[r] = g
  /\ \A p \in Projects : projectLock'[p] = g <=> projectLock[p] = g
  /\ \A t \in Tasks : taskLock'[t] = g <=> taskLock[t] = g

\* The rows that a handler has locked, and the tasks of its project.
Held(g) ==
  /\ HasResult(g) => result'[row[g]] = result[row[g]]
  /\ HasProject(g) =>
       /\ project'[on[g]] = project[on[g]]
       /\ Contract!TasksOf(on[g])' = Contract!TasksOf(on[g])
       /\ \A t \in Contract!TasksOf(on[g]) : task'[t] = task[t]
  /\ HasTask(g) => task'[row[g]] = task[row[g]]

(* A handler that has locked something is at a row that exists.            *)
LEMMA LockedRows ==
  ASSUME Inv, NEW h \in Handlers
  PROVE  /\ HasResult(h) => row[h] \in Results
         /\ HasProject(h) => on[h] \in Projects /\ Contract!Exists(on[h])
         /\ HasTask(h) => row[h] \in Contract!TasksOf(on[h])
  <1>1. HandlerInv(h) /\ TasksHaveProjects
    BY DEF Inv, TablesInv
  <1> QED
    BY <1>1
    DEF HandlerInv, WellPlaced, Knows, HasResult, HasProject, HasTask, TasksHaveProjects,
        Contract!TasksOf, ResultOps, ProjectOps, TaskOps

(* While a handler has a row locked, nobody else changes it.               *)
LEMMA RowsHeld ==
  ASSUME Inv, NEW g \in Handlers, NEW h \in Handlers, g # h, Touches(h),
         on'[g] = on[g]
  PROVE  Held(g)
  <1>1. HoldsLocks(g) /\ HoldsLocks(h)
    BY DEF Inv, HandlerInv
  <1>2. HasResult(g) => result'[row[g]] = result[row[g]]
    BY <1>1, LockedRows DEF Touches, HoldsLocks
  <1>3. ASSUME HasProject(g)
        PROVE  /\ project'[on[g]] = project[on[g]]
               /\ Contract!TasksOf(on[g])' = Contract!TasksOf(on[g])
               /\ \A t \in Contract!TasksOf(on[g]) : task'[t] = task[t]
    <2>1. on[g] \in Projects /\ Contract!Exists(on[g])
      BY <1>3, LockedRows
    <2>2. ~(HasProject(h) /\ on[h] = on[g])
      BY <1>1, <1>3, <2>1 DEF HoldsLocks
    <2>3. project'[on[g]] = project[on[g]]
      BY <2>1, <2>2 DEF Touches
    <2>4. ASSUME NEW t \in Tasks, task'[t] # task[t]
          PROVE  task'[t].project # on[g] /\ t \notin Contract!TasksOf(on[g])
      BY <2>1, <2>2, <2>4 DEF Touches, Contract!TasksOf
    <2>5. Contract!TasksOf(on[g])' = {t \in Tasks : Contract!Live(t)' /\ task'[t].project = on[g]}
      BY DEF Contract!TasksOf
    <2>6. \A t \in Tasks : t \in Contract!TasksOf(on[g])' <=> t \in Contract!TasksOf(on[g])
      BY <2>4, <2>5 DEF Contract!TasksOf, Contract!Live
    <2> QED
      BY <2>3, <2>4, <2>5, <2>6 DEF Contract!TasksOf
  <1>4. HasTask(g) => task'[row[g]] = task[row[g]]
    <2>1. HasTask(g) => HasProject(g)
      BY DEF HasTask, HasProject, ResultOps, TaskOps
    <2> QED
      BY <1>3, <2>1, LockedRows
  <1> QED
    BY <1>2, <1>3, <1>4 DEF Held

(* The versions of rows are numbers, before a step of the contract and after. *)
LEMMA Versions ==
  ASSUME TablesInv, TablesInv'
  PROVE  /\ \A r \in Results : result[r].version \in Nat /\ result'[r].version \in Nat
         /\ \A p \in Projects : project[p].version \in Nat /\ project'[p].version \in Nat
         /\ \A t \in Tasks : task[t].version \in Nat /\ task'[t].version \in Nat
  BY DEF TablesInv, Contract!TypeOK, Contract!ResultRow, Contract!ProjectRow, Contract!TaskRow

(* What a handler knows stays true while others commit, whatever they do.  *)
LEMMA Bystander ==
  ASSUME Inv, NEW g \in Handlers, NEW h \in Handlers, g # h, Commits(h), Untouched(g)
  PROVE  HandlerInv(g)'
  <1>1. HandlerInv(g) /\ TablesInv
    BY DEF Inv
  <1>2. RowsGrow /\ TablesInv'
    BY <1>1, NextGrows, TablesNext DEF Commits
  <1>3. Held(g)
    BY RowsHeld DEF Commits, Untouched
  <1>4. /\ HasResult(g)' <=> HasResult(g)
        /\ HasProject(g)' <=> HasProject(g)
        /\ HasTask(g)' <=> HasTask(g)
    BY DEF Untouched, HasResult, HasProject, HasTask
  <1>5. WellPlaced(g)'
    <2>1. \A p \in Projects : Contract!Exists(p) => Contract!Exists(p)'
      BY <1>2 DEF RowsGrow, ProjectGrows
    <2>2. \A t \in Tasks : task[t].status # "absent" =>
            task'[t].status # "absent" /\ task'[t].project = task[t].project
      BY <1>2 DEF RowsGrow, TaskGrows
    <2>3. on[g] \in Projects /\ Contract!Exists(on[g]) => Contract!Exists(on[g])'
      BY <2>1 DEF Untouched, Contract!Exists
    <2> QED
      BY <1>1, <2>2, <2>3 DEF HandlerInv, WellPlaced, Untouched
  <1>6. HoldsLocks(g)'
    BY <1>1, <1>4 DEF HandlerInv, HoldsLocks, Untouched
  <1>7. Knows(g)'
    <2>1. pc[g] = "write" /\ op[g] = "createProject" => result'[row[g]].confirmed
      BY <1>1, <1>3 DEF HandlerInv, Knows, Held, HasResult, ResultOps
    <2>2. HasProject(g) /\ op[g] \in {"createTask", "reorder"} \cup TaskOps =>
            Contract!Active(on[g])'
      BY <1>1, <1>3 DEF HandlerInv, Knows, Held, Contract!Active, Untouched
    <2>3. HasTask(g) => Contract!Live(row[g])'
      BY <1>1, <1>3 DEF HandlerInv, Knows, Held, Contract!Live, Untouched
    <2>4. pc[g] = "write" /\ op[g] \in {"createTask", "reorder"} => HasProject(g)
      BY DEF HasProject, ResultOps
    <2>5. HasProject(g) => Contract!NextOrder(on[g])' = Contract!NextOrder(on[g])
      BY <1>3 DEF Held, Contract!NextOrder, Untouched
    <2> QED
      BY <1>1, <1>3, <1>4, <2>1, <2>2, <2>3, <2>4, <2>5 DEF HandlerInv, Knows, Held, Untouched
  <1>8. Seen(g)'
    <2>1. SUFFICES ASSUME pc[g] # "idle"
                   PROVE  Seen(g)'
      BY DEF Seen, Untouched
    <2>2. Seen(g)
      BY <1>1 DEF HandlerInv
    <2>3. CASE op[g] = "editResult"
      <3>1. row[g] \in Results /\ (pc[g] = "write" => HasResult(g))
        BY <1>1, <2>1, <2>3
        DEF HandlerInv, WellPlaced, HasResult, ResultOps, ProjectOps, TaskOps
      <3>2. ResultGrows(row[g])
        BY <1>2, <3>1 DEF RowsGrow
      <3> QED
        BY <1>1, <1>2, <1>3, <2>1, <2>2, <2>3, <3>1, <3>2, Versions
        DEF Seen, Untouched, Held, ResultGrows
    <2>4. CASE op[g] = "editProject"
      <3>1. /\ row[g] \in Projects /\ row[g] = on[g] /\ Contract!Exists(row[g])
            /\ pc[g] = "write" => HasProject(g)
        BY <1>1, <2>1, <2>4
        DEF HandlerInv, WellPlaced, HasProject, ResultOps, ProjectOps, TaskOps
      <3>2. ProjectGrows(row[g])
        BY <1>2, <3>1 DEF RowsGrow
      <3> QED
        BY <1>1, <1>2, <1>3, <2>1, <2>2, <2>4, <3>1, <3>2, Versions
        DEF Seen, Untouched, Held, ProjectGrows
    <2>5. CASE op[g] = "editTask"
      <3>1. /\ row[g] \in Tasks /\ task[row[g]].status # "absent"
            /\ pc[g] = "write" => HasTask(g)
        BY <1>1, <2>1, <2>5
        DEF HandlerInv, WellPlaced, HasTask, ResultOps, ProjectOps, TaskOps
      <3>2. TaskGrows(row[g])
        BY <1>2, <3>1 DEF RowsGrow
      <3>3. Contract!Live(row[g])' <=> task'[row[g]].status \in Contract!TaskStatus
        BY DEF Contract!Live, Contract!TaskStatus, Untouched
      <3> QED
        BY <1>1, <1>2, <1>3, <2>1, <2>2, <2>5, <3>1, <3>2, <3>3, Versions
        DEF Seen, Untouched, Held, TaskGrows, Contract!Live
    <2> QED
      BY <2>3, <2>4, <2>5 DEF Seen, Untouched
  <1> QED
    BY <1>5, <1>6, <1>7, <1>8 DEF HandlerInv

(* The other handlers need no look, whatever a handler does.               *)
LEMMA OthersKept ==
  ASSUME Inv, NEW h \in Handlers, Commits(h), TypeOK', HandlerInv(h)',
         \A g \in Handlers : g # h => Untouched(g)
  PROVE  Inv'
  <1>1. TablesInv'
    BY TablesNext DEF Inv, Commits
  <1>2. ASSUME NEW g \in Handlers PROVE HandlerInv(g)'
    BY Bystander
  <1> QED
    BY <1>1, <1>2 DEF Inv

(* At the end of a transaction its handler holds nothing.                  *)
LEMMA EndKeeps ==
  ASSUME Inv, NEW h \in Handlers, Commits(h), End(h)
  PROVE  Inv'
  <1>0. TypeOK /\ h # None
    BY ProjectBoardAssumption DEF Inv
  <1>1. TypeOK'
    <2>1. Contract!TypeOK'
      BY TablesNext DEF Inv, Commits, TablesInv
    <2>2. /\ Contract!ResultRow' = Contract!ResultRow /\ Contract!ProjectRow' = Contract!ProjectRow
          /\ Contract!TaskRow' = Contract!TaskRow
      BY DEF Contract!ResultRow, Contract!ProjectRow, Contract!TaskRow, Contract!TaskStatus
    <2>3. /\ resultLock' \in [Results -> Handlers \cup {None}]
          /\ projectLock' \in [Projects -> Handlers \cup {None}]
          /\ taskLock' \in [Tasks -> Handlers \cup {None}]
      BY <1>0 DEF TypeOK, End, Freed
    <2> QED
      BY <1>0, <2>1, <2>2, <2>3 DEF TypeOK, End
  <1>2. /\ pc'[h] = "idle" /\ \A r \in Results : resultLock'[r] # h
        /\ \A p \in Projects : projectLock'[p] # h
        /\ \A t \in Tasks : taskLock'[t] # h
    BY <1>0 DEF TypeOK, End, Freed
  <1>3. HandlerInv(h)'
    BY <1>2
    DEF HandlerInv, WellPlaced, HoldsLocks, Knows, Seen, HasResult, HasProject, HasTask
  <1>4. ASSUME NEW g \in Handlers, g # h PROVE Untouched(g)
    BY <1>0, <1>4, ProjectBoardAssumption DEF TypeOK, End, Freed, Untouched
  <1> QED
    BY <1>1, <1>3, <1>4, OthersKept

(* The types of what a statement does not write. *)
LEMMA RowsTyped ==
  ASSUME Inv, UNCHANGED rows
  PROVE  /\ Contract!TypeOK'
         /\ Contract!ResultRow' = Contract!ResultRow /\ Contract!ProjectRow' = Contract!ProjectRow
         /\ Contract!TaskRow' = Contract!TaskRow
  BY DEF Inv, TypeOK, rows, Contract!TypeOK, Contract!ResultRow, Contract!ProjectRow,
         Contract!TaskRow, Contract!TaskStatus

(* A request that ends leaves nothing behind but its answer. *)
LEMMA RollbackKeeps ==
  ASSUME Inv, NEW h \in Handlers, Rollback(h)
  PROVE  Inv'
  BY EndKeeps, NothingWritten DEF Rollback

(* A client names a row it has read, and its version. *)
LEMMA BeginKeeps ==
  ASSUME Inv, NEW h \in Handlers, NEW kind, NEW x, NEW p, NEW seen, Begin(h, kind, x, p, seen),
         \/ kind \in ResultOps /\ x \in Results /\ p = None /\ seen = result[x]
         \/ kind \in ProjectOps /\ x \in Projects /\ p = x /\ seen = project[x]
              /\ Contract!Exists(x)
         \/ kind \in TaskOps /\ x \in Tasks /\ p = None /\ seen = task[x] /\ Contract!Live(x)
  PROVE  Inv'
  <1>1. Commits(h)
    BY NothingWritten DEF Begin
  <1>2. TypeOK
    BY DEF Inv
  <1>3. seen \in Contract!ResultRow \cup Contract!ProjectRow \cup Contract!TaskRow
    BY <1>2 DEF TypeOK, Contract!TypeOK
  <1>4. TypeOK'
    BY <1>2, <1>3, RowsTyped DEF TypeOK, Begin, locks, rows
  <1>5. /\ pc[h] = "idle" /\ pc'[h] = (IF kind \in TaskOps THEN "find" ELSE "lock")
        /\ op'[h] = kind /\ row'[h] = x /\ on'[h] = p
        /\ kind \in Edits => base'[h] = seen
        /\ UNCHANGED <<rows, locks>>
    BY <1>2 DEF Begin, TypeOK
  <1>6. HandlerInv(h)
    BY DEF Inv
  <1>7. HandlerInv(h)'
    <2>1. WellPlaced(h)'
      BY <1>5 DEF WellPlaced, rows, Contract!Exists, Contract!Live, Contract!TaskStatus,
                  ResultOps, ProjectOps, TaskOps
    <2>2. HoldsLocks(h)'
      BY <1>5, <1>6 DEF HandlerInv, HoldsLocks, HasResult, HasProject, HasTask, locks
    <2>3. Knows(h)'
      BY <1>5 DEF Knows, HasProject, HasTask
    <2>4. Seen(h)'
      <3>1. TablesInv /\ TablesInv'
        BY <1>1, TablesNext DEF Inv, Commits
      <3>2. /\ \A r \in Results : result[r].version \in Nat
            /\ \A q \in Projects : project[q].version \in Nat
            /\ \A t \in Tasks : task[t].version \in Nat
        BY <3>1, Versions
      <3> QED
        BY <1>5, <3>2 DEF Seen, Edits, ResultOps, ProjectOps, TaskOps, rows
    <2> QED
      BY <2>1, <2>2, <2>3, <2>4 DEF HandlerInv
  <1>8. ASSUME NEW g \in Handlers, g # h PROVE Untouched(g)
    BY <1>2, <1>8 DEF TypeOK, Begin, Untouched, locks
  <1> QED
    BY <1>1, <1>4, <1>7, <1>8, OthersKept

(* What a handler knows once it has locked a result. *)
LEMMA LockResultKeeps ==
  ASSUME Inv, NEW h \in Handlers, LockResult(h)
  PROVE  Inv'
  <1>1. CASE ~ResultAllows(h)
    BY <1>1, RollbackKeeps DEF LockResult
  <1>2. CASE ResultAllows(h)
    <2>1. /\ pc[h] = "lock" /\ op[h] \in ResultOps /\ resultLock[row[h]] = None
          /\ resultLock' = [resultLock EXCEPT ![row[h]] = h]
          /\ pc' = [pc EXCEPT ![h] = IF op[h] = "createProject" THEN "read" ELSE "write"]
          /\ UNCHANGED <<rows, local, projectLock, taskLock>>
      BY <1>2 DEF LockResult, Goto
    <2>2. TypeOK /\ HandlerInv(h) /\ h # None
      BY ProjectBoardAssumption DEF Inv
    <2>3. row[h] \in Results
      BY <2>1, <2>2 DEF HandlerInv, WellPlaced, ResultOps, ProjectOps, TaskOps
    <2>4. TypeOK'
      BY <2>1, <2>2, <2>3, RowsTyped DEF TypeOK, rows, local
    <2>5. pc'[h] = IF op[h] = "createProject" THEN "read" ELSE "write"
      BY <2>1, <2>2 DEF TypeOK
    <2>6. HandlerInv(h)'
      <3>1. WellPlaced(h)'
        BY <2>1, <2>2, <2>3, <2>5 DEF HandlerInv, WellPlaced, local
      <3>2. HoldsLocks(h)'
        BY <2>1, <2>2, <2>3, <2>5
        DEF TypeOK, HandlerInv, HoldsLocks, HasResult, HasProject, HasTask, local,
            ResultOps, TaskOps
      <3>3. Knows(h)'
        BY <2>1, <2>5 DEF Knows, HasProject, HasTask, local, ResultOps, TaskOps
      <3>4. Seen(h)'
        BY <1>2, <2>1, <2>2 DEF HandlerInv, Seen, ResultAllows, rows, local, ResultOps
      <3> QED
        BY <3>1, <3>2, <3>3, <3>4 DEF HandlerInv
    <2>7. ASSUME NEW g \in Handlers, g # h PROVE Untouched(g)
      BY <2>1, <2>2, <2>3, <2>7, ProjectBoardAssumption DEF TypeOK, Untouched, local
    <2> QED
      BY <2>1, <2>4, <2>6, <2>7, NothingWritten, OthersKept
  <1> QED
    BY <1>1, <1>2

(* Create has found no project and a confirmed result, which it holds.     *)
LEMMA FindExistingKeeps ==
  ASSUME Inv, NEW h \in Handlers, FindExisting(h)
  PROVE  Inv'
  <1>1. CASE Rollback(h)
    BY <1>1, RollbackKeeps
  <1>2. CASE ~Rollback(h)
    <2>1. /\ pc[h] = "read" /\ op[h] = "createProject" /\ result[row[h]].confirmed
          /\ pc' = [pc EXCEPT ![h] = "write"]
          /\ UNCHANGED <<rows, local, locks>>
      BY <1>2 DEF FindExisting, Goto
    <2>2. TypeOK /\ HandlerInv(h)
      BY DEF Inv
    <2>3. TypeOK'
      BY <2>1, <2>2, RowsTyped DEF TypeOK, rows, local, locks
    <2>4. pc'[h] = "write"
      BY <2>1, <2>2 DEF TypeOK
    <2>5. HandlerInv(h)'
      BY <2>1, <2>2, <2>4
      DEF HandlerInv, WellPlaced, HoldsLocks, Knows, Seen, HasResult, HasProject, HasTask,
          rows, local, locks, ResultOps, ProjectOps, TaskOps
    <2>6. ASSUME NEW g \in Handlers, g # h PROVE Untouched(g)
      BY <2>1, <2>2, <2>6 DEF TypeOK, Untouched, local, locks
    <2> QED
      BY <2>1, <2>3, <2>5, <2>6, NothingWritten, OthersKept
  <1> QED
    BY <1>1, <1>2

(* A project is locked as the request needs it: active for its tasks.      *)
LEMMA LockProjectKeeps ==
  ASSUME Inv, NEW h \in Handlers, LockProject(h)
  PROVE  Inv'
  <1>1. CASE ~ProjectAllows(h)
    BY <1>1, RollbackKeeps DEF LockProject
  <1>2. CASE ProjectAllows(h)
    <2>1. /\ pc[h] = "lock" /\ op[h] \notin ResultOps /\ projectLock[on[h]] = None
          /\ projectLock' = [projectLock EXCEPT ![on[h]] = h]
          /\ pc' = [pc EXCEPT ![h] = IF op[h] \in TaskOps THEN "lockTask"
                                     ELSE IF op[h] \in {"createTask", "reorder"} THEN "read"
                                     ELSE "write"]
          /\ UNCHANGED <<rows, local, resultLock, taskLock>>
      BY <1>2 DEF LockProject, Goto
    <2>2. TypeOK /\ HandlerInv(h) /\ h # None /\ TasksHaveProjects
      BY ProjectBoardAssumption DEF Inv, TablesInv
    <2>3. on[h] \in Projects
      BY <2>1, <2>2
      DEF HandlerInv, WellPlaced, TasksHaveProjects, ResultOps, ProjectOps, TaskOps
    <2>4. pc'[h] = IF op[h] \in TaskOps THEN "lockTask"
                   ELSE IF op[h] \in {"createTask", "reorder"} THEN "read"
                   ELSE "write"
      BY <2>1, <2>2 DEF TypeOK
    <2>5. TypeOK'
      BY <2>1, <2>2, <2>3, RowsTyped DEF TypeOK, rows, local
    <2>6. HandlerInv(h)'
      <3>1. WellPlaced(h)'
        BY <2>1, <2>2, <2>4
        DEF HandlerInv, WellPlaced, rows, local, ResultOps, ProjectOps, TaskOps, Contract!Exists
      <3>2. HoldsLocks(h)'
        <4>1. /\ ~HasResult(h) /\ ~HasResult(h)' /\ ~HasProject(h) /\ HasProject(h)'
              /\ ~HasTask(h) /\ ~HasTask(h)'
          BY <2>1, <2>4 DEF HasResult, HasProject, HasTask, local
        <4> QED
          BY <2>1, <2>2, <2>3, <4>1 DEF TypeOK, HandlerInv, HoldsLocks, local
      <3>3. Knows(h)'
        <4>1. op[h] \in {"createTask", "reorder"} \cup TaskOps => Contract!Active(on[h])'
          BY <1>2, <2>1 DEF ProjectAllows, Contract!Active, rows, local
        <4>2. op'[h] = op[h]
          BY <2>1 DEF local
        <4>3. pc'[h] = "write" =>
                op[h] \notin TaskOps \cup {"createTask", "reorder", "createProject"}
          BY <2>1, <2>4 DEF ResultOps
        <4> QED
          BY <4>1, <4>2, <4>3 DEF Knows, HasProject, HasTask
      <3>4. Seen(h)'
        <4>1. op[h] = "editProject" => row[h] = on[h]
          BY <2>1, <2>2 DEF HandlerInv, WellPlaced, ResultOps, ProjectOps, TaskOps
        <4>2. Contract!Live(row[h])' <=> Contract!Live(row[h])
          BY <2>1 DEF Contract!Live, Contract!TaskStatus, rows, local
        <4> QED
          BY <1>2, <2>1, <2>2, <2>4, <4>1, <4>2
          DEF HandlerInv, Seen, ProjectAllows, rows, local, ResultOps, TaskOps
      <3> QED
        BY <3>1, <3>2, <3>3, <3>4 DEF HandlerInv
    <2>7. ASSUME NEW g \in Handlers, g # h PROVE Untouched(g)
      BY <2>1, <2>2, <2>3, <2>7, ProjectBoardAssumption DEF TypeOK, Untouched, local
    <2> QED
      BY <2>1, <2>5, <2>6, <2>7, NothingWritten, OthersKept
  <1> QED
    BY <1>1, <1>2

(* Under the lock of the project nobody else adds, moves or removes tasks. *)
LEMMA ReadsKeep ==
  ASSUME Inv, NEW h \in Handlers, MaxOrder(h) \/ ListTasks(h)
  PROVE  Inv'
  <1>1. CASE Rollback(h)
    BY <1>1, RollbackKeeps
  <1>2. CASE ~Rollback(h)
    <2>1. /\ pc[h] = "read" /\ op[h] \in {"createTask", "reorder"}
          /\ pc' = [pc EXCEPT ![h] = "write"]
          /\ \A g \in Handlers : g # h => last'[g] = last[g] /\ listed'[g] = listed[g]
          /\ op[h] = "createTask" => last'[h] \in Contract!NextOrder(on[h])
          /\ op[h] = "reorder" => listed'[h] = Contract!TasksOf(on[h])
          /\ last' \in [Handlers -> Nat] /\ listed' \in [Handlers -> SUBSET Tasks]
          /\ UNCHANGED <<rows, op, row, base, on, locks>>
      <3>1. TypeOK
        BY DEF Inv
      <3>2. CASE MaxOrder(h)
        <4>1. PICK n \in Contract!NextOrder(on[h]) : last' = [last EXCEPT ![h] = n]
          BY <3>2 DEF MaxOrder
        <4>2. n \in Nat
          BY <3>1 DEF TypeOK, Contract!TypeOK, Contract!TaskRow, Contract!NextOrder, Contract!TasksOf
        <4> QED
          BY <3>1, <3>2, <4>1, <4>2 DEF MaxOrder, Goto, TypeOK
      <3>3. CASE ListTasks(h)
        BY <1>2, <3>1, <3>3 DEF ListTasks, Goto, TypeOK, Contract!TasksOf
      <3> QED
        BY <3>2, <3>3
    <2>2. TypeOK /\ HandlerInv(h)
      BY DEF Inv
    <2>3. TypeOK'
      BY <2>1, <2>2, RowsTyped DEF TypeOK, rows, locks
    <2>4. pc'[h] = "write"
      BY <2>1, <2>2 DEF TypeOK
    <2>5. /\ Contract!NextOrder(on[h])' = Contract!NextOrder(on[h])
          /\ Contract!TasksOf(on[h])' = Contract!TasksOf(on[h])
          /\ Contract!Active(on[h])' <=> Contract!Active(on[h])
          /\ Contract!Exists(on[h])' <=> Contract!Exists(on[h])
      BY <2>1 DEF Contract!NextOrder, Contract!TasksOf, Contract!Active, Contract!Exists,
                  Contract!Live, Contract!TaskStatus, rows
    <2>6. HandlerInv(h)'
      <3>1. WellPlaced(h)'
        BY <2>1, <2>2, <2>4, <2>5 DEF HandlerInv, WellPlaced, ResultOps, ProjectOps, TaskOps
      <3>2. HoldsLocks(h)'
        BY <2>1, <2>2, <2>4
        DEF HandlerInv, HoldsLocks, HasResult, HasProject, HasTask, locks, TaskOps, ResultOps
      <3>3. Knows(h)'
        BY <2>1, <2>2, <2>4, <2>5
        DEF HandlerInv, Knows, HasProject, HasTask, TaskOps, ResultOps
      <3>4. Seen(h)'
        BY <2>1 DEF Seen
      <3> QED
        BY <3>1, <3>2, <3>3, <3>4 DEF HandlerInv
    <2>7. ASSUME NEW g \in Handlers, g # h PROVE Untouched(g)
      BY <2>1, <2>2, <2>7 DEF TypeOK, Untouched, locks
    <2> QED
      BY <2>1, <2>3, <2>6, <2>7, NothingWritten, OthersKept
  <1> QED
    BY <1>1, <1>2

(* The project of a task never changes, so the unlocked read is as good.   *)
LEMMA FindTaskKeeps ==
  ASSUME Inv, NEW h \in Handlers, FindTask(h)
  PROVE  Inv'
  <1>1. CASE ~Contract!Live(row[h])
    BY <1>1, RollbackKeeps DEF FindTask
  <1>2. CASE Contract!Live(row[h])
    <2>1. /\ pc[h] = "find" /\ on' = [on EXCEPT ![h] = task[row[h]].project]
          /\ pc' = [pc EXCEPT ![h] = "lock"]
          /\ UNCHANGED <<rows, op, row, base, last, listed, locks>>
      BY <1>2 DEF FindTask, Goto
    <2>2. TypeOK /\ HandlerInv(h) /\ TasksHaveProjects
      BY DEF Inv, TablesInv
    <2>3. /\ op[h] \in TaskOps /\ row[h] \in Tasks /\ task[row[h]].status # "absent"
          /\ task[row[h]].project \in Projects
      BY <2>1, <2>2
      DEF HandlerInv, WellPlaced, TasksHaveProjects, ResultOps, ProjectOps, TaskOps
    <2>4. TypeOK'
      BY <2>1, <2>2, <2>3, RowsTyped DEF TypeOK, rows, locks
    <2>5. pc'[h] = "lock" /\ on'[h] = task[row[h]].project
      BY <2>1, <2>2 DEF TypeOK
    <2>6. HandlerInv(h)'
      <3>1. WellPlaced(h)'
        BY <2>1, <2>3, <2>5 DEF WellPlaced, rows
      <3>2. HoldsLocks(h)'
        BY <2>1, <2>2, <2>5 DEF HandlerInv, HoldsLocks, HasResult, HasProject, HasTask, locks
      <3>3. Knows(h)'
        BY <2>5 DEF Knows, HasProject, HasTask
      <3>4. Seen(h)'
        <4>1. Contract!Live(row[h])' <=> Contract!Live(row[h])
          BY <2>1 DEF Contract!Live, Contract!TaskStatus, rows
        <4> QED
          BY <2>1, <2>2, <2>5, <4>1 DEF HandlerInv, Seen, rows
      <3> QED
        BY <3>1, <3>2, <3>3, <3>4 DEF HandlerInv
    <2>7. ASSUME NEW g \in Handlers, g # h PROVE Untouched(g)
      BY <2>1, <2>2, <2>7 DEF TypeOK, Untouched, locks
    <2> QED
      BY <2>1, <2>4, <2>6, <2>7, NothingWritten, OthersKept
  <1> QED
    BY <1>1, <1>2

(* A task is looked at once more when it is locked.                        *)
LEMMA LockTaskKeeps ==
  ASSUME Inv, NEW h \in Handlers, LockTask(h)
  PROVE  Inv'
  <1>1. CASE ~(Contract!Live(row[h]) /\ TaskAllows(h))
    BY <1>1, RollbackKeeps DEF LockTask
  <1>2. CASE Contract!Live(row[h]) /\ TaskAllows(h)
    <2>1. /\ pc[h] = "lockTask" /\ taskLock[row[h]] \in {None, h}
          /\ taskLock' = [taskLock EXCEPT ![row[h]] = h]
          /\ pc' = [pc EXCEPT ![h] = "write"]
          /\ UNCHANGED <<rows, local, resultLock, projectLock>>
      BY <1>2 DEF LockTask, Goto
    <2>2. TypeOK /\ HandlerInv(h) /\ h # None
      BY ProjectBoardAssumption DEF Inv
    <2>3. op[h] \in TaskOps /\ row[h] \in Tasks /\ op[h] \notin ResultOps
      BY <2>1, <2>2 DEF HandlerInv, WellPlaced, ResultOps, ProjectOps, TaskOps
    <2>4. TypeOK'
      BY <2>1, <2>2, <2>3, RowsTyped DEF TypeOK, rows, local
    <2>5. pc'[h] = "write"
      BY <2>1, <2>2 DEF TypeOK
    <2>6. HandlerInv(h)'
      <3>1. WellPlaced(h)'
        BY <2>1, <2>2, <2>3, <2>5
        DEF HandlerInv, WellPlaced, rows, local, ResultOps, ProjectOps, TaskOps
      <3>2. HoldsLocks(h)'
        <4>1. /\ ~HasResult(h) /\ ~HasResult(h)' /\ HasProject(h) /\ HasProject(h)'
              /\ ~HasTask(h) /\ HasTask(h)'
          BY <2>1, <2>3, <2>5 DEF HasResult, HasProject, HasTask, local
        <4> QED
          BY <2>1, <2>2, <2>3, <4>1 DEF TypeOK, HandlerInv, HoldsLocks, local
      <3>3. Knows(h)'
        <4>1. /\ Contract!Live(row[h])' <=> Contract!Live(row[h])
              /\ Contract!Active(on[h])' <=> Contract!Active(on[h])
          BY <2>1 DEF Contract!Live, Contract!Active, Contract!TaskStatus, rows, local
        <4> QED
          BY <1>2, <2>1, <2>2, <2>3, <2>5, <4>1
          DEF HandlerInv, Knows, HasProject, HasTask, local, TaskOps, ResultOps
      <3>4. Seen(h)'
        <4>1. Contract!Live(row[h])' <=> Contract!Live(row[h])
          BY <2>1 DEF Contract!Live, Contract!TaskStatus, rows, local
        <4> QED
          BY <1>2, <2>1, <2>2, <2>3, <4>1
          DEF HandlerInv, Seen, TaskAllows, rows, local, TaskOps
      <3> QED
        BY <3>1, <3>2, <3>3, <3>4 DEF HandlerInv
    <2>7. ASSUME NEW g \in Handlers, g # h PROVE Untouched(g)
      BY <2>1, <2>2, <2>3, <2>7, ProjectBoardAssumption DEF TypeOK, Untouched, local
    <2> QED
      BY <2>1, <2>4, <2>6, <2>7, NothingWritten, OthersKept
  <1> QED
    BY <1>1, <1>2

-----------------------------------------------------------------------------
(* Every step keeps the invariant. *)
LEMMA NextInv == Inv /\ [Next]_vars => Inv'
  <1> SUFFICES ASSUME Inv, [Next]_vars PROVE Inv'
    OBVIOUS
  <1>1. CASE UNCHANGED vars
    <2>1. UNCHANGED <<rows, pc, op, row, base, on, last, listed>> /\ UNCHANGED locks
      BY <1>1 DEF vars, local
    <2>2. TablesInv'
      BY <2>1, TablesNext DEF Inv, rows, Contract!vars
    <2>3. TypeOK'
      BY <2>1, RowsTyped DEF Inv, TypeOK, locks
    <2>4. ASSUME NEW h \in Handlers PROVE HandlerInv(h)'
      <3>1. HandlerInv(h) /\ UNCHANGED <<result, project, task>>
        BY <2>1 DEF Inv, rows
      <3> QED
        BY <2>1, <3>1
        DEF HandlerInv, WellPlaced, HoldsLocks, Knows, Seen, HasResult, HasProject, HasTask, locks,
            Contract!Exists, Contract!Active, Contract!Live, Contract!TaskStatus,
            Contract!NextOrder, Contract!TasksOf
    <2> QED
      BY <2>2, <2>3, <2>4 DEF Inv
  <1>2. ASSUME NEW h \in Handlers, NEW r \in Results, BeginResult(h, r)
        PROVE  Inv'
    <2>1. PICK kind \in ResultOps : Begin(h, kind, r, None, result[r])
      BY <1>2 DEF BeginResult
    <2> QED
      BY <2>1, BeginKeeps
  <1>3. ASSUME NEW h \in Handlers, NEW p \in Projects, BeginProject(h, p)
        PROVE  Inv'
    <2>1. PICK kind \in ProjectOps : Begin(h, kind, p, p, project[p])
      BY <1>3 DEF BeginProject
    <2> QED
      BY <1>3, <2>1, BeginKeeps DEF BeginProject
  <1>4. ASSUME NEW h \in Handlers, NEW t \in Tasks, BeginTask(h, t)
        PROVE  Inv'
    <2>1. PICK kind \in TaskOps : Begin(h, kind, t, None, task[t])
      BY <1>4 DEF BeginTask
    <2> QED
      BY <1>4, <2>1, BeginKeeps DEF BeginTask
  <1>5. ASSUME NEW h \in Handlers, Statement(h) \/ Lost(h)
        PROVE  Inv'
    <2>1. CASE End(h)
      BY <1>5, <2>1, StatementCommits, EndKeeps
    <2>2. CASE ~End(h)
      <3>1. \/ LockResult(h) \/ FindExisting(h) \/ LockProject(h) \/ MaxOrder(h)
            \/ FindTask(h) \/ LockTask(h) \/ ListTasks(h)
        BY <1>5, <2>2
        DEF Statement, Lost, Rollback, WriteResult, WriteConfirmed, InsertProject, WriteProject,
            Transition, InsertTask, WriteTask, WriteStatus, RemoveTask, WriteOrder
      <3> QED
        BY <3>1, LockResultKeeps, FindExistingKeeps, LockProjectKeeps, ReadsKeep, FindTaskKeeps,
           LockTaskKeeps
    <2> QED
      BY <2>1, <2>2
  <1> QED
    BY <1>1, <1>2, <1>3, <1>4, <1>5 DEF Next

-----------------------------------------------------------------------------
(* The theorems. *)

(* The invariant of the tables and of every transaction under way.         *)
THEOREM BoardInvariant == Spec => []Inv
  BY InitInv, NextInv, PTL DEF Spec

(* Rows, locks and what handlers remember have their types.                *)
THEOREM BoardTyped == Spec => []TypeOK
  <1>1. Inv => TypeOK
    BY DEF Inv
  <1> QED
    BY <1>1, BoardInvariant, PTL

(* The services implement the contract: whatever requests run at the same  *)
(* time, every COMMIT writes what one atomic operation would have written  *)
(* to the rows as they are then, and no statement before it writes.        *)
THEOREM BoardSerialized == Spec => Serialized
  <1>1. Init => Contract!Init
    BY DEF Init
  <1>2. Inv /\ [Next]_vars => [Contract!Next]_(Contract!vars)
    BY NextCommits
  <1> QED
    BY <1>1, <1>2, BoardInvariant, PTL DEF Spec, Serialized, Contract!Spec

(* Create and its retries make at most one project of a parse result: the  *)
(* lock of the result keeps a second Create out until the first has        *)
(* committed.                                                              *)
THEOREM BoardOneProject == Spec => []OneProjectPerResult
  <1>1. Inv => OneProjectPerResult
    BY DEF Inv, TablesInv, OneProjectPerResult
  <1> QED
    BY <1>1, BoardInvariant, PTL

(* Projects exist for confirmed parse results only. *)
THEOREM BoardProjectsConfirmed == Spec => []Contract!ProjectsConfirmed
  <1>1. Inv => Contract!ProjectsConfirmed
    BY DEF Inv, TablesInv
  <1> QED
    BY <1>1, BoardInvariant, PTL

(* No two tasks of a project stand at one position, although MAX + 1 is    *)
(* read in a statement before the INSERT.                                  *)
THEOREM BoardPositions == Spec => []PositionsDistinct
  <1>1. Inv => PositionsDistinct
    BY DEF Inv, TablesInv, PositionsDistinct
  <1> QED
    BY <1>1, BoardInvariant, PTL

(* When an edit is about to be written, its client has seen the row as it  *)
(* is: the version that Update compares under the lock names the content   *)
(* and the status, and nobody changes the row before the write.            *)
THEOREM BoardEditsAreCurrent == Spec => []EditsAreCurrent
  <1>1. ASSUME Inv PROVE EditsAreCurrent
    <2> SUFFICES ASSUME NEW h \in Handlers, pc[h] = "write"
                 PROVE  /\ op[h] = "editResult" => base[h].content = result[row[h]].content
                        /\ op[h] = "editProject" =>
                             /\ base[h].content = project[row[h]].content
                             /\ base[h].status = project[row[h]].status
                        /\ op[h] = "editTask" =>
                             /\ base[h].content = task[row[h]].content
                             /\ base[h].status = task[row[h]].status
      BY DEF EditsAreCurrent
    <2>1. Seen(h) /\ Knows(h)
      BY <1>1 DEF Inv, HandlerInv
    <2> QED
      BY <2>1 DEF Seen, Knows, HasTask, TaskOps
  <1> QED
    BY <1>1, BoardInvariant, PTL

(* Tasks of an archived or deleted project stay as they are, also when a   *)
(* task request began before the project was archived.                     *)
THEOREM BoardArchivedReadOnly == Spec => ArchivedReadOnly
  <1>1. Inv /\ [Next]_vars =>
          [\A t \in Tasks : Contract!Live(t) /\ ~Contract!Active(task[t].project)
                             => task'[t] = task[t]]_(Contract!vars)
    <2> SUFFICES ASSUME Inv, [Next]_vars, NEW t \in Tasks,
                        Contract!Live(t), ~Contract!Active(task[t].project)
                 PROVE  task'[t] = task[t]
      OBVIOUS
    <2>1. TaskGrows(t)
      BY NextCommits, NextGrows DEF Inv, RowsGrow
    <2> QED
      BY <2>1 DEF TaskGrows, Contract!Live, Contract!TaskStatus
  <1> QED
    BY <1>1, BoardInvariant, PTL DEF Spec, ArchivedReadOnly, Contract!ArchivedReadOnly

(* A confirmed result is what it was, so a project that is created later   *)
(* is made of what its user confirmed.                                     *)
THEOREM BoardConfirmedFrozen == Spec => Contract!ConfirmedFrozen
  <1>1. Inv /\ [Next]_vars =>
          [\A r \in Results : result[r].confirmed => result'[r] = result[r]]_(Contract!vars)
    BY NextCommits, NextGrows DEF Inv, RowsGrow, ResultGrows
  <1> QED
    BY <1>1, BoardInvariant, PTL DEF Spec, Contract!ConfirmedFrozen

(* A version names one content and one status of a row, which is what the  *)
(* check of the version that a client sends rests on.                      *)
THEOREM BoardVersions == Spec => Contract!VersionNamesContent
  <1>1. Inv /\ [Next]_vars =>
          [/\ \A r \in Results :
                result'[r].version = result[r].version => result'[r].content = result[r].content
           /\ \A p \in Projects :
                Contract!Exists(p) /\ project'[p].version = project[p].version =>
                  project'[p] = project[p]
           /\ \A t \in Tasks :
                Contract!Live(t) /\ Contract!Live(t)' /\ task'[t].version = task[t].version =>
                  task'[t].content = task[t].content /\ task'[t].status = task[t].status
          ]_(Contract!vars)
    <2> SUFFICES ASSUME Inv, [Next]_vars
                 PROVE  /\ \A r \in Results :
                             result'[r].version = result[r].version =>
                               result'[r].content = result[r].content
                        /\ \A p \in Projects :
                             Contract!Exists(p) /\ project'[p].version = project[p].version =>
                               project'[p] = project[p]
                        /\ \A t \in Tasks :
                             /\ Contract!Live(t) /\ Contract!Live(t)'
                             /\ task'[t].version = task[t].version
                             => /\ task'[t].content = task[t].content
                                /\ task'[t].status = task[t].status
      OBVIOUS
    <2>1. RowsGrow
      BY NextCommits, NextGrows DEF Inv
    <2>2. \A t \in Tasks : Contract!Live(t) => task[t].status # "absent"
      BY DEF Contract!Live, Contract!TaskStatus
    <2> QED
      BY <2>1, <2>2 DEF RowsGrow, ResultGrows, ProjectGrows, TaskGrows
  <1> QED
    BY <1>1, BoardInvariant, PTL DEF Spec, Contract!VersionNamesContent

-----------------------------------------------------------------------------
\* h cannot run its next statement before g ends its transaction.
WaitsFor(h, g) ==
  /\ g # h
  /\ \/ pc[h] = "lock" /\ op[h] \in ResultOps /\ resultLock[row[h]] = g
     \/ pc[h] = "lock" /\ op[h] \notin ResultOps /\ projectLock[on[h]] = g
     \/ pc[h] = "lockTask" /\ taskLock[row[h]] = g
     \/ /\ pc[h] = "write" /\ op[h] = "reorder"
        /\ \E t \in listed[h] : taskLock[t] = g

(* Handlers wait for the first lock of their transaction only, so the one  *)
(* that holds it waits for nobody: transactions cannot wait for each other *)
(* in a circle, and the tasks of a locked project are nobody else's.       *)
NobodyWaitsTwice ==
  \A f, g, h \in Handlers : WaitsFor(h, g) => pc[h] = "lock" /\ ~WaitsFor(g, f)

(* Rows are locked in one order, the result or the project first and its   *)
(* tasks under it, whatever the requests are.                              *)
THEOREM BoardLockOrder == Spec => []NobodyWaitsTwice
  <1>1. ASSUME Inv PROVE NobodyWaitsTwice
    <2>1. ASSUME NEW g \in Handlers, NEW h \in Handlers, WaitsFor(h, g)
          PROVE  pc[h] = "lock"
      <3>1. HandlerInv(h) /\ HandlerInv(g)
        BY <1>1 DEF Inv
      <3>2. ASSUME NEW t \in Contract!TasksOf(on[h]), HasProject(h), taskLock[t] = g
            PROVE  FALSE
        <4>1. HasTask(g) /\ row[g] = t /\ t \in Tasks
          BY <3>1, <3>2 DEF HandlerInv, HoldsLocks, Contract!TasksOf
        <4>2. HasProject(g) /\ on[g] = on[h]
          BY <1>1, <3>2, <4>1, LockedRows
          DEF HasTask, HasProject, ResultOps, TaskOps, Contract!TasksOf
        <4>3. on[h] \in Projects
          BY <1>1, <3>2, LockedRows
        <4> QED
          BY <2>1, <3>1, <3>2, <4>2, <4>3 DEF HandlerInv, HoldsLocks, WaitsFor
      <3>3. CASE pc[h] = "lockTask"
        <4>1. /\ op[h] \in TaskOps /\ row[h] \in Tasks /\ on[h] = task[row[h]].project
              /\ HasProject(h) /\ taskLock[row[h]] = g
          BY <2>1, <3>1, <3>3
          DEF WaitsFor, HandlerInv, WellPlaced, HasProject, ResultOps, ProjectOps, TaskOps
        <4>2. HasTask(g) /\ row[g] = row[h]
          BY <3>1, <4>1 DEF HandlerInv, HoldsLocks
        <4>3. row[h] \in Contract!TasksOf(on[h])
          BY <1>1, <4>1, <4>2, LockedRows DEF Contract!TasksOf
        <4> QED
          BY <3>2, <4>1, <4>3
      <3>4. CASE pc[h] = "write" /\ op[h] = "reorder"
        <4>1. HasProject(h) /\ listed[h] = Contract!TasksOf(on[h])
          BY <3>1, <3>4 DEF HandlerInv, Knows, HasProject, ResultOps
        <4> QED
          BY <2>1, <3>2, <3>4, <4>1 DEF WaitsFor
      <3> QED
        BY <2>1, <3>3, <3>4 DEF WaitsFor
    <2>2. ASSUME NEW g \in Handlers, NEW h \in Handlers, WaitsFor(h, g)
          PROVE  pc[g] # "lock"
      <3>1. HandlerInv(h) /\ HoldsLocks(g) /\ pc[h] = "lock"
        BY <1>1, <2>1, <2>2 DEF Inv, HandlerInv
      <3>2. op[h] \notin ResultOps => on[h] \in Projects
        BY <1>1, <3>1
        DEF Inv, TablesInv, TasksHaveProjects, HandlerInv, WellPlaced, ResultOps, ProjectOps, TaskOps
      <3>3. op[h] \in ResultOps => row[h] \in Results
        BY <3>1 DEF HandlerInv, WellPlaced, ResultOps, ProjectOps, TaskOps
      <3> QED
        BY <2>2, <3>1, <3>2, <3>3 DEF WaitsFor, HoldsLocks, HasResult, HasProject
    <2> QED
      BY <2>1, <2>2 DEF NobodyWaitsTwice
  <1> QED
    BY <1>1, BoardInvariant, PTL

-----------------------------------------------------------------------------
(* What was allowed under the lock still is at the write. *)

Allowed(h) ==
  /\ HasResult(h) => ResultAllows(h)
  /\ HasProject(h) => ProjectAllows(h)
  /\ HasTask(h) => TaskAllows(h)

\* The condition of every UPDATE ... WHERE holds of the row.
WritesFindTheirRow ==
  \A h \in Handlers :
    pc[h] = "write" =>
      /\ op[h] \in ResultOps => ResultAllows(h)
      /\ op[h] \in ProjectOps \cup TaskOps => ProjectAllows(h)
      /\ op[h] \in TaskOps => Contract!Live(row[h]) /\ TaskAllows(h)

(* What statements of h leave alone of another handler.                    *)
LEMMA OthersStand ==
  ASSUME Inv, NEW h \in Handlers, NEW g \in Handlers, g # h,
         \/ Statement(h) \/ Lost(h)
         \/ \E kind, x, p, seen : Begin(h, kind, x, p, seen)
  PROVE  /\ pc'[g] = pc[g] /\ op'[g] = op[g] /\ row'[g] = row[g]
         /\ base'[g] = base[g] /\ on'[g] = on[g]
  <1>1. TypeOK
    BY DEF Inv
  <1>2. CASE End(h)
    BY <1>1, <1>2 DEF TypeOK, End
  <1>3. CASE \E kind, x, p, seen : Begin(h, kind, x, p, seen)
    BY <1>1, <1>3 DEF TypeOK, Begin
  <1>4. CASE (Statement(h) \/ Lost(h)) /\ ~End(h)
    <2>1. \/ LockResult(h) \/ FindExisting(h) \/ LockProject(h) \/ MaxOrder(h)
          \/ FindTask(h) \/ LockTask(h) \/ ListTasks(h)
      BY <1>4
      DEF Statement, Lost, Rollback, WriteResult, WriteConfirmed, InsertProject, WriteProject,
          Transition, InsertTask, WriteTask, WriteStatus, RemoveTask, WriteOrder
    <2>2. /\ \E label : pc' = [pc EXCEPT ![h] = label]
          /\ \E p : on' = on \/ on' = [on EXCEPT ![h] = p]
          /\ UNCHANGED <<op, row, base>>
      BY <1>4, <2>1
      DEF LockResult, FindExisting, LockProject, MaxOrder, FindTask, LockTask, ListTasks, Goto,
          Rollback, local
    <2> QED
      BY <1>1, <2>2 DEF TypeOK
  <1> QED
    BY <1>2, <1>3, <1>4

(* While a handler has its rows locked, what they allow is not taken back. *)
LEMMA OthersAllowed ==
  ASSUME Inv, NEW h \in Handlers, NEW g \in Handlers, g # h, Touches(h), Allowed(g),
         pc'[g] = pc[g], op'[g] = op[g], row'[g] = row[g], base'[g] = base[g], on'[g] = on[g]
  PROVE  Allowed(g)'
  <1>1. Held(g)
    BY RowsHeld
  <1>2. /\ HasResult(g)' <=> HasResult(g)
        /\ HasProject(g)' <=> HasProject(g)
        /\ HasTask(g)' <=> HasTask(g)
    BY DEF HasResult, HasProject, HasTask
  <1>3. HasResult(g) => ResultAllows(g)'
    BY <1>1 DEF Allowed, ResultAllows, Held
  <1>4. HasProject(g) => ProjectAllows(g)'
    BY <1>1 DEF Allowed, ProjectAllows, Held
  <1>5. HasTask(g) => TaskAllows(g)'
    BY <1>1 DEF Allowed, TaskAllows, Held
  <1> QED
    BY <1>2, <1>3, <1>4, <1>5 DEF Allowed

(* A statement that takes a lock has looked at the row under that lock.    *)
LEMMA LocksAllow ==
  ASSUME Inv, NEW h \in Handlers, Allowed(h), Statement(h) \/ Lost(h)
  PROVE  Allowed(h)'
  <1>1. TypeOK /\ WellPlaced(h)
    BY DEF Inv, HandlerInv
  <1>2. CASE End(h)
    <2>1. pc'[h] = "idle"
      BY <1>1, <1>2 DEF TypeOK, End
    <2> QED
      BY <2>1 DEF Allowed, HasResult, HasProject, HasTask
  <1>3. CASE ~End(h) /\ LockResult(h)
    <2>1. /\ ResultAllows(h) /\ op[h] \in ResultOps /\ UNCHANGED <<rows, local>>
      BY <1>3 DEF LockResult, Goto, Rollback
    <2> QED
      BY <2>1
      DEF Allowed, ResultAllows, HasResult, HasProject, HasTask, rows, local, ResultOps, TaskOps
  <1>4. CASE ~End(h) /\ LockProject(h)
    <2>1. /\ ProjectAllows(h) /\ op[h] \notin ResultOps /\ UNCHANGED <<rows, local>>
          /\ op[h] \in TaskOps => pc'[h] = "lockTask"
      BY <1>1, <1>4 DEF LockProject, Goto, Rollback, TypeOK
    <2> QED
      BY <2>1 DEF Allowed, ProjectAllows, HasResult, HasProject, HasTask, rows, local
  <1>5. CASE ~End(h) /\ LockTask(h)
    <2>1. /\ TaskAllows(h) /\ pc[h] = "lockTask" /\ UNCHANGED <<rows, local>>
      BY <1>5 DEF LockTask, Goto, Rollback
    <2>2. HasProject(h) /\ op[h] \notin ResultOps
      BY <1>1, <2>1 DEF WellPlaced, HasProject, ResultOps, ProjectOps, TaskOps
    <2> QED
      BY <2>1, <2>2
      DEF Allowed, ProjectAllows, TaskAllows, HasResult, HasProject, HasTask, rows, local
  <1>6. CASE ~End(h) /\ (FindExisting(h) \/ MaxOrder(h) \/ ListTasks(h))
    <2>1. /\ pc[h] = "read" /\ op[h] \in {"createProject", "createTask", "reorder"}
          /\ UNCHANGED <<rows, op, row, base, on>>
      BY <1>6 DEF FindExisting, MaxOrder, ListTasks, Goto, Rollback, local
    <2>2. HasResult(h)' => HasResult(h)
      BY <2>1 DEF HasResult
    <2>3. HasProject(h)' => HasProject(h)
      BY <2>1 DEF HasProject
    <2>4. ~HasTask(h)'
      BY <2>1 DEF HasTask, TaskOps
    <2> QED
      BY <2>1, <2>2, <2>3, <2>4 DEF Allowed, ResultAllows, ProjectAllows, rows
  <1>7. CASE ~End(h) /\ FindTask(h)
    <2>1. pc'[h] = "lock"
      BY <1>1, <1>7 DEF FindTask, Goto, Rollback, TypeOK
    <2> QED
      BY <2>1 DEF Allowed, HasResult, HasProject, HasTask
  <1> QED
    BY <1>2, <1>3, <1>4, <1>5, <1>6, <1>7
    DEF Statement, Lost, Rollback, WriteResult, WriteConfirmed, InsertProject, WriteProject,
        Transition, InsertTask, WriteTask, WriteStatus, RemoveTask, WriteOrder

LEMMA NextAllowed ==
  Inv /\ (\A h \in Handlers : Allowed(h)) /\ [Next]_vars => (\A h \in Handlers : Allowed(h))'
  <1> SUFFICES ASSUME Inv, \A h \in Handlers : Allowed(h), [Next]_vars, NEW g \in Handlers
               PROVE  Allowed(g)'
    OBVIOUS
  <1>1. CASE UNCHANGED vars
    BY <1>1
    DEF Allowed, HasResult, HasProject, HasTask, ResultAllows, ProjectAllows, TaskAllows,
        vars, rows, local
  <1>2. ASSUME NEW h \in Handlers, Statement(h) \/ Lost(h)
        PROVE  Allowed(g)'
    BY <1>2, StatementCommits, OthersStand, OthersAllowed, LocksAllow DEF Commits
  <1>3. ASSUME NEW h \in Handlers, NEW kind, NEW x, NEW p, NEW seen, Begin(h, kind, x, p, seen)
        PROVE  Allowed(g)'
    <2>1. CASE g = h
      <3>1. pc'[h] \in {"find", "lock"}
        BY <1>3 DEF Begin, Inv, TypeOK
      <3> QED
        BY <2>1, <3>1 DEF Allowed, HasResult, HasProject, HasTask
    <2>2. CASE g # h
      <3>1. Touches(h)
        BY <1>3, NothingWritten DEF Begin, Commits
      <3> QED
        BY <1>3, <2>2, <3>1, OthersStand, OthersAllowed
    <2> QED
      BY <2>1, <2>2
  <1> QED
    BY <1>1, <1>2, <1>3 DEF Next, BeginResult, BeginProject, BeginTask

LEMMA AllowedHolds == Spec => [](\A h \in Handlers : Allowed(h))
  <1>1. Init => \A h \in Handlers : Allowed(h)
    BY DEF Init, Allowed, HasResult, HasProject, HasTask
  <1> QED
    BY <1>1, NextAllowed, BoardInvariant, PTL DEF Spec

(* No UPDATE of the services finds its row changed since it was locked:    *)
(* the conditions on version and status that it repeats hold, and the      *)
(* answer to "no row affected" is never given.                             *)
THEOREM BoardWritesFindTheirRow == Spec => []WritesFindTheirRow
  <1>1. ASSUME Inv, \A h \in Handlers : Allowed(h) PROVE WritesFindTheirRow
    <2> SUFFICES ASSUME NEW h \in Handlers, pc[h] = "write"
                 PROVE  /\ op[h] \in ResultOps => ResultAllows(h)
                        /\ op[h] \in ProjectOps \cup TaskOps => ProjectAllows(h)
                        /\ op[h] \in TaskOps => Contract!Live(row[h]) /\ TaskAllows(h)
      BY DEF WritesFindTheirRow
    <2>1. Allowed(h) /\ Knows(h)
      BY <1>1 DEF Inv, HandlerInv
    <2>2. op[h] \in ProjectOps \cup TaskOps => op[h] \notin ResultOps
      BY DEF ResultOps, ProjectOps, TaskOps
    <2> QED
      BY <2>1, <2>2 DEF Allowed, Knows, HasResult, HasProject, HasTask
  <1> QED
    BY <1>1, AllowedHolds, BoardInvariant, PTL

\* The guards of Statement, of which NeverStuck speaks as ENABLED.
CanRun(h) ==
  \/ /\ pc[h] = "lock"
     /\ IF op[h] \in ResultOps THEN resultLock[row[h]] = None ELSE projectLock[on[h]] = None
  \/ pc[h] = "find"
  \/ pc[h] = "lockTask" /\ taskLock[row[h]] \in {None, h}
  \/ /\ pc[h] = "read" /\ op[h] \in {"createProject", "createTask", "reorder"}
     /\ op[h] = "createTask" => Contract!NextOrder(on[h]) # {}
  \/ /\ pc[h] = "write" /\ Contents # {}
     /\ op[h] \in {"editResult", "confirmResult"} => ResultAllows(h)
     /\ op[h] \in {"editProject", "archive", "unarchive", "deleteProject"} => ProjectAllows(h)
     /\ op[h] = "editTask" => TaskAllows(h)
     /\ op[h] = "reorder" =>
          (\A t \in listed[h] : taskLock[t] = None) /\ Contract!Places(listed[h]) # {}

BoardRuns ==
  (\E h \in Handlers : pc[h] # "idle") => \E h \in Handlers : pc[h] # "idle" /\ CanRun(h)

(* A finite set of numbers that is not empty has a greatest one.           *)
LEMMA GreatestNumber ==
  ASSUME NEW T \in SUBSET Nat, IsFiniteSet(T), T # {}
  PROVE  \E x \in T : \A y \in T : y <= x
  <1> DEFINE Before == {ss \in Nat \X Nat : ss[1] < ss[2]}
             Greatest(S, x) == x \in S /\ \A y \in S : y <= x
             Wrong == {n \in Nat : \E S \in SUBSET T :
                         S # {} /\ Cardinality(S) = n /\ ~\E x \in S : Greatest(S, x)}
  <1>1. IsWellFoundedOn(Before, Nat)
    BY NatLessThanWellFounded, Zenon DEF OpToRel
  <1>2. ASSUME Wrong # {} PROVE FALSE
    <2>1. PICK n \in Wrong : \A m \in Wrong : ~(<<m, n>> \in Before)
      <3>1. Wrong \in SUBSET Nat
        OBVIOUS
      <3> HIDE DEF Wrong, Before
      <3> QED
        BY <1>1, <1>2, <3>1, WFMin
    <2>2. PICK S \in SUBSET T :
            S # {} /\ Cardinality(S) = n /\ ~\E x \in S : Greatest(S, x)
      BY <2>1
    <2>3. PICK x \in S : x \in Nat
      BY <2>2
    <2>4. IsFiniteSet(S)
      BY FS_Subset
    <2>5. Cardinality(S \ {x}) = n - 1 /\ Cardinality(S \ {x}) \in Nat /\ n \in Nat
      BY <2>1, <2>2, <2>3, <2>4, FS_RemoveElement, FS_CardinalityType
    <2>6. <<n - 1, n>> \in Before
      BY <2>5
    <2> HIDE DEF Before
    <2>7. n - 1 \notin Wrong
      BY <2>1, <2>6
    <2>8. CASE S \ {x} = {}
      BY <2>2, <2>3, <2>8
    <2>9. CASE S \ {x} # {}
      <3>1. PICK z \in S \ {x} : Greatest(S \ {x}, z)
        BY <2>5, <2>7, <2>9
      <3>2. z \in Nat /\ \A y \in S : y \in Nat
        OBVIOUS
      <3>3. CASE z <= x
        <4>1. Greatest(S, x)
          BY <2>3, <3>1, <3>2, <3>3
        <4> QED
          BY <2>2, <4>1
      <3>4. CASE ~(z <= x)
        <4>1. Greatest(S, z)
          BY <2>3, <3>1, <3>2, <3>4
        <4> QED
          BY <2>2, <4>1
      <3> QED
        BY <3>3, <3>4
    <2> QED
      BY <2>8, <2>9
  <1>3. Cardinality(T) \in Nat
    BY FS_CardinalityType
  <1>4. \E x \in T : Greatest(T, x)
    BY <1>2, <1>3
  <1> QED
    BY <1>4

(* Every project has a next position for a task.                           *)
LEMMA NextOrderExists ==
  ASSUME TypeOK, IsFiniteSet(Tasks), NEW p
  PROVE  Contract!NextOrder(p) # {}
  <1> DEFINE S == Contract!TasksOf(p)
             Orders == {task[t].order : t \in S}
  <1>1. \A t \in S : task[t].order \in Nat
    BY DEF TypeOK, Contract!TypeOK, Contract!TaskRow, Contract!TasksOf
  <1>2. CASE S = {}
    BY <1>2 DEF Contract!NextOrder
  <1>3. CASE S # {}
    <2>1. IsFiniteSet(S)
      BY FS_Subset DEF Contract!TasksOf
    <2>2. [t \in S |-> task[t].order] \in Surjection(S, Orders)
      BY DEF Surjection
    <2>3. IsFiniteSet(Orders) /\ Orders # {} /\ Orders \in SUBSET Nat
      <3>1. Orders # {} /\ Orders \in SUBSET Nat
        BY <1>1, <1>3
      <3> HIDE DEF S, Orders
      <3> QED
        BY <2>1, <2>2, <3>1, FS_Surjection
    <2>4. PICK x \in Orders : \A y \in Orders : y <= x
      <3> HIDE DEF S, Orders
      <3> QED
        BY <2>3, GreatestNumber
    <2>5. ASSUME NEW t \in S PROVE task[t].order < x + 1
      <3>1. task[t].order \in Orders /\ task[t].order \in Nat
        BY <1>1
      <3> HIDE DEF S, Orders
      <3>2. x \in Nat /\ task[t].order <= x
        BY <2>3, <2>4, <3>1
      <3> QED
        BY <3>1, <3>2
    <2>6. x + 1 \in Contract!NextOrder(p)
      BY <2>5 DEF Contract!NextOrder
    <2> QED
      BY <2>6
  <1> QED
    BY <1>2, <1>3

(* Every list of tasks has an order.                                       *)
LEMMA PlacesExist ==
  ASSUME NEW S, IsFiniteSet(S)
  PROVE  Contract!Places(S) # {}
  <1> DEFINE n == Cardinality(S)
  <1>1. n \in Nat
    BY FS_CardinalityType
  <1>2. ExistsBijection(S, 1..n)
    BY FS_CardinalityType, Fun_ExistsBijSymmetric
  <1>3. PICK f : f \in Bijection(S, 1..n)
    BY <1>2 DEF ExistsBijection
  <1> HIDE DEF n
  <1> DEFINE place == [t \in S |-> f[t] - 1]
  <1>4. /\ f \in [S -> 1..n]
        /\ \A t, u \in S : f[t] = f[u] => t = u
        /\ \A i \in 1..n : \E t \in S : f[t] = i
    BY <1>3 DEF Bijection, Injection, Surjection, IsInjective
  <1>5. \A t \in S : f[t] \in 1..n /\ place[t] = f[t] - 1 /\ place[t] \in 0..(n - 1)
    BY <1>1, <1>4
  <1>6. place \in [S -> 0..(n - 1)]
    BY <1>5
  <1>7. \A t, u \in S : place[t] = place[u] => t = u
    BY <1>1, <1>4, <1>5
  <1>8. ASSUME NEW i \in 0..(n - 1) PROVE \E t \in S : place[t] = i
    <2>1. i + 1 \in 1..n
      BY <1>1
    <2>2. PICK t \in S : f[t] = i + 1
      BY <1>4, <2>1
    <2> QED
      BY <1>1, <1>5, <2>2
  <1> HIDE DEF place
  <1>9. place \in Contract!Bijection(S, 0..(n - 1))
    BY <1>6, <1>7, <1>8
    DEF Contract!Bijection, Contract!Injection, Contract!Surjection, Contract!IsInjective
  <1>10. Contract!Cardinality(S) = Cardinality(S)
    BY DEF Contract!Cardinality, Cardinality, Contract!IsFiniteSet, IsFiniteSet
  <1> QED
    BY <1>9, <1>10 DEF Contract!Places, n

(* A request is about something that has a content.                        *)
LEMMA ContentsKnown ==
  ASSUME Inv, NEW h \in Handlers, pc[h] # "idle"
  PROVE  Contents # {}
  <1>1. \A r \in Results : result[r].content \in Contents
    BY DEF Inv, TypeOK, Contract!TypeOK, Contract!ResultRow
  <1>2. \A p \in Projects : Contract!Exists(p) => project[p].result \in Results
    BY DEF Inv, TablesInv, Contract!ProjectsConfirmed
  <1>3. \A t \in Tasks : task[t].status # "absent" =>
          task[t].project \in Projects /\ Contract!Exists(task[t].project)
    BY DEF Inv, TablesInv, TasksHaveProjects
  <1>4. WellPlaced(h)
    BY DEF Inv, HandlerInv
  <1> QED
    BY <1>1, <1>2, <1>3, <1>4 DEF WellPlaced

(* A handler that waits for nobody can run its next statement.             *)
LEMMA RunsOrWaits ==
  ASSUME IsFiniteSet(Tasks), Inv, NEW h \in Handlers, Allowed(h), pc[h] # "idle",
         \A g \in Handlers : ~WaitsFor(h, g)
  PROVE  CanRun(h)
  <1>1. TypeOK /\ WellPlaced(h) /\ HoldsLocks(h) /\ Knows(h) /\ TasksHaveProjects
    BY DEF Inv, HandlerInv, TablesInv
  <1>2. /\ \A r \in Results : resultLock[r] \in Handlers \cup {None}
        /\ \A p \in Projects : projectLock[p] \in Handlers \cup {None}
        /\ \A t \in Tasks : taskLock[t] \in Handlers \cup {None}
    BY <1>1 DEF TypeOK
  <1>3. CASE pc[h] = "lock"
    <2>1. ~HasResult(h) /\ ~HasProject(h)
      BY <1>3 DEF HasResult, HasProject
    <2>2. IF op[h] \in ResultOps THEN row[h] \in Results ELSE on[h] \in Projects
      BY <1>1, <1>3
      DEF WellPlaced, TasksHaveProjects, ResultOps, ProjectOps, TaskOps
    <2> QED
      BY <1>1, <1>2, <1>3, <2>1, <2>2 DEF CanRun, WaitsFor, HoldsLocks
  <1>4. CASE pc[h] = "lockTask"
    <2>1. row[h] \in Tasks
      BY <1>1, <1>4 DEF WellPlaced
    <2> QED
      BY <1>2, <1>4, <2>1 DEF CanRun, WaitsFor
  <1>5. CASE pc[h] = "read"
    <2>1. op[h] \in {"createProject", "createTask", "reorder"}
      BY <1>1, <1>5 DEF WellPlaced
    <2>2. Contract!NextOrder(on[h]) # {}
      BY <1>1, NextOrderExists
    <2> QED
      BY <1>5, <2>1, <2>2 DEF CanRun
  <1>6. CASE pc[h] = "write"
    <2>1. op[h] \in {"editResult", "confirmResult"} => ResultAllows(h)
      BY <1>6 DEF Allowed, HasResult, ResultOps
    <2>2. op[h] \in {"editProject", "archive", "unarchive", "deleteProject"} => ProjectAllows(h)
      BY <1>6 DEF Allowed, HasProject, ResultOps
    <2>3. op[h] = "editTask" => TaskAllows(h)
      BY <1>6 DEF Allowed, HasTask, TaskOps
    <2>4. ASSUME op[h] = "reorder"
          PROVE  (\A t \in listed[h] : taskLock[t] = None) /\ Contract!Places(listed[h]) # {}
      <3>1. listed[h] \in SUBSET Tasks /\ ~HasTask(h)
        BY <1>1, <2>4 DEF TypeOK, HasTask, TaskOps
      <3>2. IsFiniteSet(listed[h])
        BY <3>1, FS_Subset
      <3>3. \A t \in listed[h] : taskLock[t] = None
        BY <1>1, <1>2, <1>6, <2>4, <3>1 DEF WaitsFor, HoldsLocks
      <3> QED
        BY <3>2, <3>3, PlacesExist
    <2> QED
      BY <1>6, <2>1, <2>2, <2>3, <2>4, ContentsKnown DEF CanRun
  <1> QED
    BY <1>1, <1>3, <1>4, <1>5, <1>6 DEF CanRun, TypeOK

(* While requests are under way one of them can run its next statement:    *)
(* the one that waits for a lock waits for one that waits for nobody, and  *)
(* no guard of a statement is left false by what others have committed.    *)
THEOREM BoardNeverStuck ==
  ASSUME IsFiniteSet(Tasks)
  PROVE  Spec => []BoardRuns
  <1>1. ASSUME Inv, NobodyWaitsTwice, \A h \in Handlers : Allowed(h) PROVE BoardRuns
    <2> SUFFICES ASSUME NEW h \in Handlers, pc[h] # "idle"
                 PROVE  \E g \in Handlers : pc[g] # "idle" /\ CanRun(g)
      BY DEF BoardRuns
    <2>1. CASE \A g \in Handlers : ~WaitsFor(h, g)
      BY <1>1, <2>1, RunsOrWaits
    <2>2. ASSUME NEW g \in Handlers, WaitsFor(h, g)
          PROVE  \E f \in Handlers : pc[f] # "idle" /\ CanRun(f)
      <3>1. pc[h] = "lock" /\ \A f \in Handlers : ~WaitsFor(g, f)
        BY <1>1, <2>2 DEF NobodyWaitsTwice
      <3>2. pc[g] # "idle"
        <4>1. WellPlaced(h) /\ HoldsLocks(g) /\ TasksHaveProjects
          BY <1>1 DEF Inv, HandlerInv, TablesInv
        <4>2. IF op[h] \in ResultOps THEN row[h] \in Results ELSE on[h] \in Projects
          BY <3>1, <4>1 DEF WellPlaced, TasksHaveProjects, ResultOps, ProjectOps, TaskOps
        <4> QED
          BY <2>2, <3>1, <4>1, <4>2 DEF WaitsFor, HoldsLocks, HasResult, HasProject
      <3> QED
        BY <1>1, <3>1, <3>2, RunsOrWaits
    <2> QED
      BY <2>1, <2>2
  <1> QED
    BY <1>1, AllowedHolds, BoardLockOrder, BoardInvariant, PTL
=============================================================================
