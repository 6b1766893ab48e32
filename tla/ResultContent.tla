---------------------------- MODULE ResultContent ----------------------------
(***************************************************************************)
(* The content of one parse result from the answer of the AI to the tasks  *)
(* of a project: the worker stores what the parser returns (completeJob),  *)
(* the user is shown it, edits it and confirms it (parseresult), makes a   *)
(* project of it (project), and edits that and its tasks (task).  Who wins *)
(* when requests overlap is ProjectBoard's concern.                        *)
(***************************************************************************)
EXTENDS ParserCall

CONSTANTS
  Texts, ItemLists, TaskLists,   \* what a user may enter
  MaxVersion                     \* bound: versions of the result and of the project

VARIABLES
  row,            \* the row in parse_results: [content, version, confirmed], or None
  shown,          \* what the user has been shown last, or None
  project         \* [description, tasks, version] of the project, or None

contentVars == <<callVars, row, shown, project>>

ContentInit == CallInit /\ row = None /\ shown = None /\ project = None

Parse == CallNext /\ UNCHANGED <<row, shown, project>>

completeJob ==
  /\ step = "done" /\ outcome.doc # None /\ row = None
  /\ row' = [content |-> outcome.doc, version |-> 1, confirmed |-> FALSE]
  /\ UNCHANGED <<callVars, shown, project>>

Get ==
  /\ row # None
  /\ shown' = row
  /\ UNCHANGED <<callVars, row, project>>

\* A client changes a part of what it was shown, or nothing.
Edited(content) ==
  {content}
    \cup {[content EXCEPT !.title = t] : t \in Texts}
    \cup {[content EXCEPT !.summary = t] : t \in Texts}
    \cup {[content EXCEPT !.items = items] : items \in ItemLists}
    \cup {[content EXCEPT !.tasks = tasks] : tasks \in TaskLists}

Update ==
  /\ shown # None
  /\ \E edit \in Edited(shown.content) :
       /\ ValidUpdate(edit)
       /\ ~row.confirmed /\ row.version = shown.version /\ row.version < MaxVersion
       /\ row' = [row EXCEPT !.content = NormalUpdate(edit), !.version = @ + 1]
       /\ shown' = row'
  /\ UNCHANGED <<callVars, project>>

Confirm ==
  /\ row # None
  /\ row' = [row EXCEPT !.confirmed = TRUE]
  /\ shown' = row'
  /\ UNCHANGED <<callVars, project>>

Create ==
  /\ row # None /\ row.confirmed /\ project = None
  /\ ValidTasks(row.content.tasks)
  /\ project' = [description |-> row.content.summary,
                 tasks |-> ProjectTasks(row.content.tasks), version |-> 1]
  /\ UNCHANGED <<callVars, row, shown>>

EditProject ==
  /\ project # None /\ project.version < MaxVersion
  /\ \E text \in Texts \cup {None} :
       /\ ValidDescription(text)
       /\ project' = [project EXCEPT !.description = NormalDescription(text), !.version = @ + 1]
  /\ UNCHANGED <<callVars, row, shown>>

\* One field of a task as it is shown; the versions of the tasks are left out.
EditTask ==
  /\ project # None /\ project.version < MaxVersion
  /\ \E i \in DOMAIN project.tasks, list \in TaskLists :
       /\ list # None /\ list # <<>>
       /\ \E edit \in {[project.tasks[i] EXCEPT !.title = list[1].title],
                       [project.tasks[i] EXCEPT !.description = list[1].description],
                       [project.tasks[i] EXCEPT !.priority = list[1].priority]} :
            /\ TaskFits(edit)
            /\ project' = [project EXCEPT !.tasks[i] = TrimTask(edit), !.version = @ + 1]
  /\ UNCHANGED <<callVars, row, shown>>

ContentNext ==
  \/ Parse \/ completeJob \/ Get \/ Update \/ Confirm \/ Create
  \/ EditProject \/ EditTask

ContentSpec == ContentInit /\ [][ContentNext]_contentVars

-----------------------------------------------------------------------------
(* What is stored can be turned into a project, whoever wrote it, and the  *)
(* project gets it as it was confirmed: no check of Create refuses what an *)
(* earlier one has let pass, and none changes it.                          *)
ConfirmedIsCreated ==
  /\ row # None => /\ ValidTasks(row.content.tasks)
                   /\ ProjectTasks(row.content.tasks) = row.content.tasks
  /\ project # None =>
       /\ row.confirmed
       /\ project.version = 1 =>
            /\ project.description = row.content.summary
            /\ project.tasks = row.content.tasks

(* What a user is shown, of a result, a project or a task, can be saved as *)
(* it is and does not change by that, or an edit of one field would be     *)
(* refused, or change another.                                             *)
EchoIsNeutral ==
  /\ row # None => ValidUpdate(row.content) /\ NormalUpdate(row.content) = row.content
  /\ project # None =>
       /\ ValidDescription(project.description)
       /\ NormalDescription(project.description) = project.description
       /\ \A i \in DOMAIN project.tasks :
            TaskFits(project.tasks[i]) /\ TrimTask(project.tasks[i]) = project.tasks[i]
=============================================================================
