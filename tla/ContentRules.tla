----------------------------- MODULE ContentRules -----------------------------
(***************************************************************************)
(* What the program accepts as the content of a parse result, and what it  *)
(* makes of it, in places that must agree: the answer of the AI            *)
(* (pkg/ai/parser.go), the edit of a user (internal/logic/parseresult),    *)
(* the tasks of a new project and the edit of a project                    *)
(* (internal/logic/project), and the edit of a task (internal/logic/task). *)
(*                                                                         *)
(* A text is the number of its characters without white space around it,   *)
(* which also stands for what it says, and whether there is such space.    *)
(* Deliverables, requirements and warnings follow one rule and are one     *)
(* list here; deadlines are passed on as they are and left out.            *)
(***************************************************************************)
EXTENDS Integers, Sequences, SequencesExt

CONSTANTS
  TitleChars, SummaryChars, ItemChars, DescriptionChars,   \* 255, 5000, 1000, 2000
  MaxItems, MaxTasks,                                      \* 50 or 100, and 100
  None                                                     \* null

Text(chars, padded) == [chars |-> chars, padded |-> padded]

Trim(text) == [text EXCEPT !.padded = FALSE]

Fits(text, limit) == text.chars \in 1..limit

Priorities == {"low", "medium", "high"}

TaskFits(task) ==
  /\ Fits(task.title, TitleChars)
  /\ task.description # None => Fits(task.description, DescriptionChars)
  /\ task.priority \in Priorities

TrimTask(task) ==
  [task EXCEPT !.title = Trim(@), !.description = IF @ = None THEN None ELSE Trim(@)]

TasksFit(tasks) ==
  tasks # None /\ Len(tasks) <= MaxTasks /\ \A i \in DOMAIN tasks : TaskFits(tasks[i])

ItemsFit(items) ==
  items # None /\ Len(items) <= MaxItems /\ \A i \in DOMAIN items : Fits(items[i], ItemChars)

\* The places of what has not been seen before.
Firsts(seq) == {i \in DOMAIN seq : \A j \in 1..(i - 1) : seq[j] # seq[i]}

Distinct(seq) ==
  LET place(k) == CHOOSE i \in Firsts(seq) : Cardinality({j \in Firsts(seq) : j <= i}) = k
  IN  [k \in 1..Cardinality(Firsts(seq)) |-> seq[place(k)]]

TrimAll(items) == [i \in DOMAIN items |-> Trim(items[i])]

\* Mutant: what is equal without the white space stays twice.
NormalItemsTrimmedLast(items) == TrimAll(Distinct(items))

\* normalizeStrings: the first of equal items stays.
NormalItems(items) == Distinct(TrimAll(items))

NormalTasks(tasks) == [i \in DOMAIN tasks |-> TrimTask(tasks[i])]

Normal(doc) ==
  [title |-> Trim(doc.title), summary |-> Trim(doc.summary),
   items |-> NormalItems(doc.items), tasks |-> NormalTasks(doc.tasks)]

-----------------------------------------------------------------------------
(* normalizeAndValidate of the parser. *)

ValidAnswer(doc) ==
  /\ Fits(doc.title, TitleChars) /\ Fits(doc.summary, SummaryChars)
  /\ ItemsFit(doc.items) /\ TasksFit(doc.tasks)

(* normalizeUpdate of the parse results, decodeGeneratedTasks of projects. *)

\* An edit and a project may leave the priority to the program.
WithPriority(task) == [task EXCEPT !.priority = IF @ = "" THEN "medium" ELSE @]

WithPriorities(tasks) ==
  IF tasks = None THEN None ELSE [i \in DOMAIN tasks |-> WithPriority(tasks[i])]

\* Mutant: the priority that is checked is not the one that is stored.
NormalUpdateUnprioritized(doc) == Normal(doc)

NormalUpdate(doc) == Normal([doc EXCEPT !.tasks = WithPriorities(@)])

ValidUpdate(doc) ==
  /\ Fits(doc.title, TitleChars) /\ Fits(doc.summary, SummaryChars)
  /\ ItemsFit(doc.items) /\ TasksFit(WithPriorities(doc.tasks))

ValidTasks(tasks) == TasksFit(WithPriorities(tasks))

ProjectTasks(tasks) == NormalTasks(WithPriorities(tasks))

(* normalizeUpdateRequest of projects, normalizeTaskFields of tasks. *)

\* The description of a project is the summary of its parse result.
ValidDescription(text) == text # None => Fits(text, SummaryChars)

NormalDescription(text) == IF text = None THEN None ELSE Trim(text)
=============================================================================
