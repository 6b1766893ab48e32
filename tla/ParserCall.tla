------------------------------ MODULE ParserCall ------------------------------
(***************************************************************************)
(* One call of the parser (pkg/ai/parser.go, Parse and parseOnce) and the  *)
(* reader of the stream it gets its answer from (responses_stream.go):     *)
(* two attempts under one deadline, each of which collects the pieces of   *)
(* an answer, which the other side may break off at any point.             *)
(*                                                                         *)
(* An answer decodes when the collected text is all of one answer; a part  *)
(* of a JSON object, or two of them in a row, do not.                      *)
(***************************************************************************)
EXTENDS ContentRules

CONSTANTS
  Answers,        \* documents the AI may send
  Garbage,        \* an answer that is no JSON object of the schema
  Pieces          \* the number of deltas an answer comes in

ASSUME AnswerAssumption ==
  /\ Pieces \in Nat \ {0} /\ Garbage \notin Answers
  /\ None \notin {"timeout", "network", "busy", "refused", "invalid"}

VARIABLES
  step,           \* "idle", "call", "stream", "delay", "done"
  attempt,        \* 0, 1 or 2
  expired,        \* the deadline is over, or the worker stops
  doc,            \* what the AI sends in this attempt
  received,       \* how many pieces of it have arrived in this attempt
  closed,         \* the stream of this attempt has been completed
  output,         \* the text collected: pieces <<answer, number>>
  outcome         \* [error, doc] of Parse: one of them is None

callVars == <<step, attempt, expired, doc, received, closed, output, outcome>>

CallInit ==
  /\ step = "idle" /\ attempt = 0 /\ expired = FALSE
  /\ doc = None /\ received = 0 /\ closed = FALSE /\ output = <<>>
  /\ outcome = [error |-> None, doc |-> None]

Begin ==
  /\ step = "idle"
  /\ step' = "call" /\ attempt' = 1
  /\ UNCHANGED <<expired, doc, received, closed, output, outcome>>

\* The deadline passes, or the caller gives up.
Expire ==
  /\ step \in {"call", "stream", "delay"} /\ ~expired
  /\ expired' = TRUE
  /\ UNCHANGED <<step, attempt, doc, received, closed, output, outcome>>

\* parseOnce returns with an error.
Fails(error, retryable) ==
  /\ IF retryable /\ attempt = 1 /\ ~expired
       THEN step' = "delay" /\ UNCHANGED outcome
       ELSE step' = "done" /\ outcome' = [error |-> error, doc |-> None]
  /\ UNCHANGED <<attempt, expired>>

\* No response: the connection fails, or the context is done.
NoResponse ==
  /\ step = "call"
  /\ IF expired THEN Fails("timeout", FALSE) ELSE Fails("network", TRUE)
  /\ UNCHANGED <<doc, received, closed, output>>

\* 429 and 5xx, or another status that is not 2xx.
ErrorStatus ==
  /\ step = "call"
  /\ Fails("busy", TRUE) \/ Fails("refused", FALSE)
  /\ UNCHANGED <<doc, received, closed, output>>

\* Mutant: one builder for both attempts.
AnsweredIntoOld ==
  /\ step = "call"
  /\ \E d \in Answers \cup {Garbage} : doc' = d
  /\ step' = "stream" /\ received' = 0 /\ closed' = FALSE
  /\ UNCHANGED <<attempt, expired, output, outcome>>

Answered ==
  /\ step = "call"
  /\ \E d \in Answers \cup {Garbage} : doc' = d
  /\ step' = "stream" /\ received' = 0 /\ closed' = FALSE /\ output' = <<>>
  /\ UNCHANGED <<attempt, expired, outcome>>

\* A line of the stream is read before the context is looked at again.
Delta ==
  /\ step = "stream" /\ received < Pieces /\ ~expired
  /\ received' = received + 1
  /\ output' = Append(output, <<doc, received + 1>>)
  /\ UNCHANGED <<step, attempt, expired, doc, closed, outcome>>

\* The end of the stream before its completion, a line or event that cannot be
\* read, more than maxResponseBytes, an event that reports an error or refusal.
Broken ==
  /\ step = "stream"
  /\ IF expired THEN Fails("timeout", TRUE) ELSE Fails("network", TRUE) \/ Fails("invalid", TRUE)
  /\ UNCHANGED <<doc, received, closed, output>>

Decodes(text) == text # <<>> /\ text[1][1] # Garbage /\ text = [i \in 1..Pieces |-> <<text[1][1], i>>]

\* The completion, which may come before all of the answer: its status is not
\* looked at.  The collected text is decoded, checked and normalized.
Completed ==
  LET decoded == output[1][1]
  IN
  /\ step = "stream"
  /\ closed' = TRUE
  /\ IF Decodes(output) /\ ValidAnswer(decoded)
       THEN /\ step' = "done" /\ outcome' = [error |-> None, doc |-> Normal(decoded)]
            /\ UNCHANGED <<attempt, expired>>
       ELSE Fails("invalid", TRUE)
  /\ UNCHANGED <<doc, received, output>>

\* The select between the delay and the context.
Again ==
  /\ step = "delay"
  /\ step' = "call" /\ attempt' = 2
  /\ UNCHANGED <<expired, doc, received, closed, output, outcome>>

GiveUp ==
  /\ step = "delay" /\ expired
  /\ step' = "done" /\ outcome' = [error |-> "timeout", doc |-> None]
  /\ UNCHANGED <<attempt, expired, doc, received, closed, output>>

CallNext ==
  \/ Begin \/ Expire \/ NoResponse \/ ErrorStatus \/ Answered \/ Delta \/ Broken
  \/ Completed \/ Again \/ GiveUp

-----------------------------------------------------------------------------
\* All of a valid answer has arrived, and then its completion.
Whole == closed /\ received = Pieces /\ doc \in Answers /\ ValidAnswer(doc)

(* Parse returns the answer it was sent last if and only if all of that    *)
(* has arrived and is valid, whatever an earlier attempt has left behind,  *)
(* and an error otherwise; what may go away is tried again while there is  *)
(* time.                                                                   *)
AnswerIsWhole ==
  step = "done" =>
    /\ outcome.error = None <=> Whole
    /\ outcome.doc = IF Whole THEN Normal(doc) ELSE None
    /\ outcome.error \in {"network", "busy", "invalid"} /\ ~expired => attempt = 2
=============================================================================
