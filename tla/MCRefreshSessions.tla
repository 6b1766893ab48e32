------------------------- MODULE MCRefreshSessions --------------------------
(* A small instance of RefreshSessions for TLC. *)
EXTENDS RefreshSessions, TLC

Interchangeable ==
  Permutations(Users) \cup Permutations(Devices) \cup Permutations(Sessions)
    \cup Permutations(Handlers) \cup Permutations(Profiles)
=============================================================================
