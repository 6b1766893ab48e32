----------------------------- MODULE MCChatGuard -----------------------------
(* A small instance of ChatGuard for TLC. *)
EXTENDS ChatGuard, TLC

Fresh == [c \in Calls |-> c]   \* every request has its own X-Request-ID

Interchangeable == Permutations(Calls)
=============================================================================
