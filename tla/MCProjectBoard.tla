--------------------------- MODULE MCProjectBoard ---------------------------
(* Instances of ProjectBoard for TLC. *)
EXTENDS ProjectBoard, TLC

CONSTANTS a, b    \* two contents of a result, of a project or of a task

\* One of the contents of the parse result lists a task.
MCGenerated == a :> 1 @@ b :> 0

\* Versions: who edits what, over the whole life of a project and its task.
EditOps == ResultOps \cup TaskOps \cup
             {"editProject", "archive", "unarchive", "deleteProject"}

\* Positions: tasks come and go and are reordered while the project is archived.
ListOps == {"confirmResult", "createProject", "archive", "createTask", "reorder",
            "deleteTask"}

Interchangeable ==
  Permutations(Handlers) \cup Permutations(Projects) \cup Permutations(Tasks)
=============================================================================
