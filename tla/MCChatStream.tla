---------------------------- MODULE MCChatStream ----------------------------
(* A small instance of ChatStream for TLC: conversations of up to six      *)
(* messages of up to three characters, the right ones and some of any form.*)
EXTENDS ChatStream

Messages == [role : {"user", "assistant"}, chars : 0..3]

MCConversations == SeqOf(Messages, 2) \cup
  {[i \in 1..n |-> [role |-> IF i % 2 = 1 THEN "user" ELSE "assistant", chars |-> chars[i]]] :
     n \in 1..6, chars \in [1..6 -> 1..3]}
=============================================================================
