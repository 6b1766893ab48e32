--------------------------- MODULE MCWorkerProcess ---------------------------
(* A small instance of WorkerProcess for TLC: the settings that matter are *)
(* the defaults divided by ten.                                            *)
EXTENDS WorkerProcess, TLC

CONSTANTS p1, p2

MCFile == [AccessExpire |-> 900, Concurrency |-> 1, HeartbeatInterval |-> 10,
           HeartbeatTTL |-> 30, ShutdownGrace |-> 30]

\* Nothing, a shorter lifetime, and an interval as long as the lifetime, which stays
\* that of the file because its variable does not parse.
MCEnvironments ==
  {<<>>, "HeartbeatTTL" :> 20, [HeartbeatInterval |-> 30, HeartbeatTTL |-> Unparsable]}
=============================================================================
