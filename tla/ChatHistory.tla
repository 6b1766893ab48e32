----------------------------- MODULE ChatHistory -----------------------------
(***************************************************************************)
(* What of a conversation about a parse result is sent to the AI           *)
(* (internal/logic/aichat, normalizeMessages): the client sends the whole  *)
(* conversation with each question, and its oldest turns are dropped until *)
(* the rest fits.  A message is its role and the number of its characters  *)
(* without white space around it.                                          *)
(***************************************************************************)
EXTENDS Integers, Sequences, SequencesExt

CONSTANTS
  MaxMessages, MaxQuestionChars, MaxHistoryChars,   \* 16, 2000, 12000
  Conversations                                      \* what clients may send

ASSUME HistoryAssumption ==
  /\ {MaxMessages, MaxQuestionChars, MaxHistoryChars} \subseteq Nat \ {0}
  /\ MaxQuestionChars <= MaxHistoryChars
  /\ Conversations \subseteq Seq([role : STRING, chars : Nat])

Chars(messages) == FoldLeft(LAMBDA sum, message : sum + message.chars, 0, messages)

\* Questions and answers in turn, from a question to a question of limited length.
Conversation(input) ==
  /\ Len(input) \in 1..MaxMessages
  /\ \A i \in DOMAIN input :
       /\ input[i].chars > 0
       /\ input[i].role = IF i % 2 = 1 THEN "user" ELSE "assistant"
  /\ Last(input).role = "user" /\ Last(input).chars <= MaxQuestionChars

\* Mutant: one message at a time.
RemoveCountSingle(messages) == 1

RemoveCount(messages) == IF Len(messages) = 2 THEN 1 ELSE 2

\* The loop: what is left of the messages from the first one on.
Rest(input) ==
  LET from[first \in 1..Len(input)] ==
        LET messages == SubSeq(input, first, Len(input))
        IN  IF Chars(messages) > MaxHistoryChars /\ Len(messages) > 1
              THEN from[first + RemoveCount(messages)]
              ELSE messages
  IN  from[1]

Accepted(input) == Conversation(input) /\ Chars(Rest(input)) <= MaxHistoryChars

-----------------------------------------------------------------------------
Fitting(input) ==
  {first \in 1..Len(input) :
     input[first].role = "user" /\ Chars(SubSeq(input, first, Len(input))) <= MaxHistoryChars}

IsLongestEnd(input) ==
  Conversation(input) =>
    /\ Accepted(input)
    /\ \E first \in Fitting(input) :
         /\ \A other \in Fitting(input) : first <= other
         /\ Rest(input) = SubSeq(input, first, Len(input))
=============================================================================
