---------------------------- MODULE BoardContract ----------------------------
(***************************************************************************)
(* What the review of parse results, the projects made from them and their *)
(* tasks promise, as the tables parse_results, projects and tasks show it. *)
(* Every action is atomic here; ProjectBoard (row locks, unlocked reads    *)
(* and several statements per request) implements it.                      *)
(***************************************************************************)
EXTENDS Integers, FiniteSets, Functions

CONSTANTS
  Results, Projects, Tasks,   \* identifiers of rows
  Contents,       \* what a user can write into a row
  Generated,      \* Generated[c]: number of tasks content c of a result lists
  None            \* NULL

VARIABLES
  result,         \* rows of parse_results, all of them inserted by a worker
  project,        \* rows of projects, "absent" until inserted
  task            \* rows of tasks, "absent" until inserted, "gone" once deleted

vars == <<result, project, task>>

ResultRow == [content : Contents, version : Nat, confirmed : BOOLEAN]

ProjectRow ==
  [status : {"absent", "active", "archived", "deleted"}, version : Nat,
   content : Contents \cup {None}, result : Results \cup {None}]

TaskStatus == {"todo", "doing", "done"}

TaskRow ==
  [status : TaskStatus \cup {"absent", "gone"}, version : Nat,
   content : Contents \cup {None}, project : Projects \cup {None}, order : Nat]

TypeOK ==
  /\ result \in [Results -> ResultRow]
  /\ project \in [Projects -> ProjectRow]
  /\ task \in [Tasks -> TaskRow]

NoProject ==
  [status |-> "absent", version |-> 0, content |-> None, result |-> None]

NoTask ==
  [status |-> "absent", version |-> 0, content |-> None, project |-> None, order |-> 0]

Init ==
  /\ result \in [Results -> [content : Contents, version : {1}, confirmed : {FALSE}]]
  /\ project = [p \in Projects |-> NoProject]
  /\ task = [t \in Tasks |-> NoTask]

Exists(p) == project[p].status # "absent"
Active(p) == project[p].status = "active"
Live(t)   == task[t].status \in TaskStatus
TasksOf(p) == {t \in Tasks : Live(t) /\ task[t].project = p}
ProjectsOf(r) == {p \in Projects : Exists(p) /\ project[p].result = r}

\* COALESCE(MAX(sort_order), -1) + 1 over the tasks of a project, as the set
\* of the one number it is.
NextOrder(p) ==
  {n \in {0} \cup {task[t].order + 1 : t \in TasksOf(p)} :
     \A t \in TasksOf(p) : task[t].order < n}

-----------------------------------------------------------------------------
(* Parse results. *)

EditResult(r, c) ==
  /\ ~result[r].confirmed
  /\ result' = [result EXCEPT ![r].content = c, ![r].version = @ + 1]
  /\ UNCHANGED <<project, task>>

ConfirmResult(r) ==
  /\ ~result[r].confirmed
  /\ result' = [result EXCEPT ![r].confirmed = TRUE]
  /\ UNCHANGED <<project, task>>

(* Projects. *)

NewProject(r) ==
  [status |-> "active", version |-> 1, content |-> result[r].content, result |-> r]

NewTask(p, c, n) ==
  [status |-> "todo", version |-> 1, content |-> c, project |-> p, order |-> n]

\* ids: the identifiers the generated tasks get, in their order.
CreateProject(p, r, ids) ==
  /\ ~Exists(p) /\ result[r].confirmed /\ ProjectsOf(r) = {}
  /\ \A i \in DOMAIN ids : task[ids[i]].status = "absent"
  /\ project' = [project EXCEPT ![p] = NewProject(r)]
  /\ task' = [t \in Tasks |->
                IF \E i \in DOMAIN ids : ids[i] = t
                  THEN NewTask(p, result[r].content, CHOOSE i \in DOMAIN ids : ids[i] = t)
                  ELSE task[t]]
  /\ UNCHANGED result

EditProject(p, c) ==
  /\ Active(p)
  /\ project' = [project EXCEPT ![p].content = c, ![p].version = @ + 1]
  /\ UNCHANGED <<result, task>>

SetStatus(p, from, to) ==
  /\ project[p].status = from
  /\ <<from, to>> \in {<<"active", "archived">>, <<"archived", "active">>,
                       <<"archived", "deleted">>}
  /\ project' = [project EXCEPT ![p].status = to, ![p].version = @ + 1]
  /\ UNCHANGED <<result, task>>

(* Tasks, only while their project is active. *)

CreateTask(t, p, c, n) ==
  /\ Active(p) /\ task[t].status = "absent" /\ n \in NextOrder(p)
  /\ task' = [task EXCEPT ![t] = NewTask(p, c, n)]
  /\ UNCHANGED <<result, project>>

EditTask(t, c) ==
  /\ Live(t) /\ Active(task[t].project)
  /\ task' = [task EXCEPT ![t].content = c, ![t].version = @ + 1]
  /\ UNCHANGED <<result, project>>

MoveTask(t, s) ==
  /\ Live(t) /\ Active(task[t].project) /\ task[t].status # s
  /\ task' = [task EXCEPT ![t].status = s, ![t].version = @ + 1]
  /\ UNCHANGED <<result, project>>

DeleteTask(t) ==
  /\ Live(t) /\ Active(task[t].project)
  /\ task' = [task EXCEPT ![t].status = "gone"]
  /\ UNCHANGED <<result, project>>

\* place: the position of every task of the project.
Reorder(p, place) ==
  /\ Active(p)
  /\ task' = [t \in Tasks |->
                IF t \in TasksOf(p) THEN [task[t] EXCEPT !.order = place[t]] ELSE task[t]]
  /\ UNCHANGED <<result, project>>

Places(S) == Bijection(S, 0..(Cardinality(S) - 1))

Identifiers(n) == Injection(0..(n - 1), Tasks)

Next ==
  \/ \E r \in Results :
       \/ ConfirmResult(r)
       \/ \E c \in Contents : EditResult(r, c)
       \/ \E p \in Projects, ids \in Identifiers(Generated[result[r].content]) :
            CreateProject(p, r, ids)
  \/ \E p \in Projects :
       \/ \E c \in Contents : EditProject(p, c)
       \/ \E from, to \in {"active", "archived", "deleted"} : SetStatus(p, from, to)
       \/ \E t \in Tasks, c \in Contents, n \in NextOrder(p) : CreateTask(t, p, c, n)
       \/ \E place \in Places(TasksOf(p)) : Reorder(p, place)
  \/ \E t \in Tasks :
       \/ \E c \in Contents : EditTask(t, c)
       \/ \E s \in TaskStatus : MoveTask(t, s)
       \/ DeleteTask(t)

Spec == Init /\ [][Next]_vars

-----------------------------------------------------------------------------
(* A parse result is turned into at most one project, also when requests   *)
(* to create it run at the same time or are repeated.                      *)
OneProjectPerResult ==
  \A p, q \in Projects :
    Exists(p) /\ Exists(q) /\ project[p].result = project[q].result => p = q

(* Projects come from confirmed results only: Create refuses others, and   *)
(* nothing takes a confirmation back.                                      *)
ProjectsConfirmed ==
  \A p \in Projects :
    Exists(p) => project[p].result \in Results /\ result[project[p].result].confirmed

(* The tasks of a project stand at different positions.  No index of the   *)
(* table demands it: it rests on Create taking the maximum plus one and on *)
(* Reorder replacing the position of every task.                           *)
PositionsDistinct ==
  \A t, u \in Tasks :
    /\ Live(t) /\ Live(u)
    /\ task[t].project = task[u].project /\ task[t].order = task[u].order
    => t = u

(* Once confirmed, the content a project was or will be made from stays.   *)
ConfirmedFrozen ==
  [][\A r \in Results : result[r].confirmed => result'[r] = result[r]]_vars

(* The tasks of an archived or deleted project do not change, whatever     *)
(* task requests were under way when it was archived.                      *)
ArchivedReadOnly ==
  [][\A t \in Tasks :
       Live(t) /\ ~Active(task[t].project) => task'[t] = task[t]]_vars

(* A version names one content: two states of a row with equal versions    *)
(* hold the same data, which is what makes the check of a version enough.  *)
VersionNamesContent ==
  [][/\ \A r \in Results :
          result'[r].version = result[r].version => result'[r].content = result[r].content
     /\ \A p \in Projects :
          Exists(p) /\ project'[p].version = project[p].version => project'[p] = project[p]
     /\ \A t \in Tasks :
          Live(t) /\ Live(t)' /\ task'[t].version = task[t].version =>
            task'[t].content = task[t].content /\ task'[t].status = task[t].status]_vars
=============================================================================
