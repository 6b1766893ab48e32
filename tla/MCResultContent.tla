--------------------------- MODULE MCResultContent ---------------------------
(* A small instance of ResultContent for TLC: titles and items of two      *)
(* characters, summaries and descriptions of three.                        *)
EXTENDS ResultContent

MCTexts == {Text(n, p) : n \in 0..4, p \in BOOLEAN}

Short == {Text(n, p) : n \in {0, 2, 3}, p \in BOOLEAN}

MCItemLists ==
  {None, <<>>} \cup {<<t>> : t \in Short} \cup {<<t, u>> : t, u \in {Text(1, FALSE), Text(1, TRUE), Text(2, FALSE)}}
    \cup {<<Text(1, FALSE), Text(2, FALSE), Text(2, TRUE)>>}

Task(title, description, priority) ==
  [title |-> title, description |-> description, priority |-> priority]

SomeTasks == {Task(t, d, p) : t \in Short, d \in {None, Text(0, TRUE), Text(3, TRUE), Text(4, FALSE)},
                              p \in {"", "low", "urgent"}}

MCTaskLists ==
  {None, <<>>} \cup {<<t>> : t \in SomeTasks}
    \cup {<<Task(Text(1, TRUE), None, "high"), t>> : t \in SomeTasks}

Plain == [title |-> Text(2, FALSE), summary |-> Text(3, TRUE), items |-> <<>>, tasks |-> <<>>]

MCAnswers ==
  {[Plain EXCEPT !.title = t] : t \in MCTexts} \cup {[Plain EXCEPT !.summary = t] : t \in MCTexts}
    \cup {[Plain EXCEPT !.items = i] : i \in MCItemLists}
    \cup {[Plain EXCEPT !.tasks = t] : t \in MCTaskLists}
=============================================================================
