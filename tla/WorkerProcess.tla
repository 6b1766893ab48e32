----------------------------- MODULE WorkerProcess -----------------------------
(***************************************************************************)
(* The life of worker processes (cmd/worker, worker.New, Worker.Run): start *)
(* with the settings of a file and an environment, the loops that take     *)
(* messages, the heartbeat that all processes write to one key of Redis    *)
(* and the API reads for /readyz, and the stop after a signal.  What a job *)
(* does is ParseWorker's concern; here it takes time.                      *)
(*                                                                         *)
(* Time passes in steps of Step seconds, and not over what is due: a timer *)
(* that fires is served in the same instant, a call takes MaxDelay at most *)
(* and a job JobTime.                                                      *)
(***************************************************************************)
EXTENDS Settings, FiniteSets, FiniteSetsExt

CONSTANTS
  Processes,      \* one for each start of a program; a restart is another one
  Busy,           \* bound: the processes that get messages
  File,           \* the configuration file
  Environments,   \* the environments a process may be started in
  Step,
  MaxDelay,       \* seconds until Redis has applied a SET or the client gives up
  JobTime,        \* seconds a job takes at most
  MaxFaults       \* bound: failed SETs, killed processes, losses of the data

ASSUME ProcessAssumption ==
  /\ Busy \subseteq Processes
  /\ Step \in Nat \ {0} /\ {MaxDelay, JobTime, MaxFaults} \subseteq Nat
  /\ \A name \in DOMAIN File : File[name] \in Int
  /\ \A env \in Environments : \A name \in DOMAIN env : env[name] \in Int \cup {Unparsable}

VARIABLES
  conf,           \* conf[p]: what worker.New has taken over, if it got that far
  phase,          \* phase[p]: "off", "connecting", "running", "stopping", "exited", "killed"
  loop,           \* loop[p][l]: "waiting", "working", "ended"
  age,            \* age[p][l]: how long loop l has worked on its job
  next,           \* next[p]: time until the heartbeat ticker fires, -1 without ticker
  due,            \* due[p]: a heartbeat is to be written
  flight,         \* flight[p]: the age of the SET on its way, -1 without one
  missed,         \* missed[p]: writes that failed since the last success, -1 before
  silent,         \* silent[p]: time since p was told to stop or killed, 0 before
  promised,       \* promised[p]: loops that had a job at the signal, and still have
  key,            \* remaining lifetime of the heartbeat key
  faults

loopVars == <<loop, age, promised>>
beatVars == <<next, due, flight, missed>>
vars == <<conf, phase, loopVars, beatVars, silent, key, faults>>

\* The consume loops and the reclaim loop, 0.
Loops(p) == 0..conf[p].concurrency

Up == {"connecting", "running", "stopping"}
Ready == key > 0

New(settings) ==
  [concurrency |-> settings.Concurrency, heartbeatInterval |-> settings.HeartbeatInterval,
   heartbeatTTL |-> settings.HeartbeatTTL, shutdownGrace |-> settings.ShutdownGrace]

Unconfigured ==
  [concurrency |-> 0, heartbeatInterval |-> 0, heartbeatTTL |-> 0, shutdownGrace |-> 0]

Init ==
  /\ conf = [p \in Processes |-> Unconfigured]
  /\ phase = [p \in Processes |-> "off"]
  /\ loop = [p \in Processes |-> <<>>] /\ age = [p \in Processes |-> <<>>]
  /\ next = [p \in Processes |-> -1] /\ due = [p \in Processes |-> FALSE]
  /\ flight = [p \in Processes |-> -1] /\ missed = [p \in Processes |-> -1]
  /\ silent = [p \in Processes |-> 0]
  /\ promised = [p \in Processes |-> {}]
  /\ key = 0 /\ faults = 0

Fault == faults < MaxFaults /\ faults' = faults + 1

-----------------------------------------------------------------------------
(* Start. *)

Start(p) ==
  /\ phase[p] = "off"
  /\ \E env \in Environments :
       LET settings == Load(File, env)
       IN
       IF Accepted(settings)
         THEN /\ conf' = [conf EXCEPT ![p] = New(settings)]
              /\ phase' = [phase EXCEPT ![p] = "connecting"]
         ELSE phase' = [phase EXCEPT ![p] = "exited"] /\ UNCHANGED conf
  /\ UNCHANGED <<loopVars, beatVars, silent, key, faults>>

\* ensureGroup, which is tried again until it succeeds; then all loops start, and
\* the heartbeat is written at once.
Connect(p) ==
  /\ phase[p] = "connecting"
  /\ phase' = [phase EXCEPT ![p] = "running"]
  /\ loop' = [loop EXCEPT ![p] = [l \in Loops(p) |-> "waiting"]]
  /\ age' = [age EXCEPT ![p] = [l \in Loops(p) |-> 0]]
  /\ due' = [due EXCEPT ![p] = TRUE]
  /\ UNCHANGED <<conf, promised, next, flight, missed, silent, key, faults>>

-----------------------------------------------------------------------------
(* The heartbeat loop. *)

\* Mutant: the loop has the context of the jobs instead.
BeatingWhileWorking(p) == phase[p] \in {"running", "stopping"}

\* The context that the signal ends is not done.
Beating(p) == phase[p] = "running"

Silence(p) ==
  /\ next' = [next EXCEPT ![p] = -1] /\ due' = [due EXCEPT ![p] = FALSE]
  /\ missed' = [missed EXCEPT ![p] = -1]

\* A call with a context that is done already is not sent.
Send(p) ==
  /\ Beating(p) /\ due[p] /\ flight[p] = -1
  /\ due' = [due EXCEPT ![p] = FALSE]
  /\ flight' = [flight EXCEPT ![p] = 0]
  /\ UNCHANGED <<conf, phase, loopVars, next, missed, silent, key, faults>>

\* The ticker starts when the first write has returned.
Ticking(p) ==
  [next EXCEPT ![p] = IF @ = -1 /\ Beating(p) THEN conf[p].heartbeatInterval ELSE @]

\* SET with the lifetime of this process, whoever wrote before.  Redis may run it
\* when the process is stopping or gone.
Apply(p) ==
  /\ flight[p] >= 0
  /\ key' = conf[p].heartbeatTTL
  /\ flight' = [flight EXCEPT ![p] = -1]
  /\ missed' = [missed EXCEPT ![p] = IF Beating(p) THEN 0 ELSE -1]
  /\ next' = Ticking(p)
  /\ UNCHANGED <<conf, phase, loopVars, due, silent, faults>>

\* Mutant: the loop returns with the error.
FailReturns(p) ==
  /\ flight[p] >= 0 /\ Fault
  /\ flight' = [flight EXCEPT ![p] = -1]
  /\ missed' = [missed EXCEPT ![p] = IF @ = -1 THEN -1 ELSE @ + 1]
  /\ next' = [next EXCEPT ![p] = -1]
  /\ UNCHANGED <<conf, phase, loopVars, due, silent, key>>

\* The error is logged and the loop goes on.
Fail(p) ==
  /\ flight[p] >= 0 /\ Fault
  /\ flight' = [flight EXCEPT ![p] = -1]
  /\ missed' = [missed EXCEPT ![p] = IF @ = -1 THEN -1 ELSE @ + 1]
  /\ next' = Ticking(p)
  /\ UNCHANGED <<conf, phase, loopVars, due, silent, key>>

-----------------------------------------------------------------------------
(* The loops that take messages. *)

Working(p) == {l \in DOMAIN loop[p] : loop[p][l] = "working"}

Moves(p, l, from, to) ==
  /\ l \in DOMAIN loop[p] /\ loop[p][l] = from
  /\ loop' = [loop EXCEPT ![p][l] = to]

\* A message and a slot of processSlots.  A read that was sent before the signal may
\* return a message after it, and acquireProcessSlot then takes either the slot or
\* the signal.
StartJob(p, l) ==
  /\ p \in Busy
  /\ phase[p] \in {"running", "stopping"}
  /\ Cardinality(Working(p)) < conf[p].concurrency
  /\ Moves(p, l, "waiting", "working")
  /\ age' = [age EXCEPT ![p][l] = 0]
  /\ UNCHANGED <<conf, phase, promised, beatVars, silent, key, faults>>

\* The reclaim loop has the rest of its batch and goes on with it after the signal,
\* too; a consume loop reads no other message.
EndJob(p, l) ==
  /\ phase[p] \in {"running", "stopping"}
  /\ Moves(p, l, "working", IF phase[p] = "running" \/ l = 0 THEN "waiting" ELSE "ended")
  /\ age' = [age EXCEPT ![p][l] = 0]
  /\ promised' = [promised EXCEPT ![p] = @ \ {l}]
  /\ UNCHANGED <<conf, phase, beatVars, silent, key, faults>>

\* The loop sees that its context is done; a message it holds stays in the
\* consumer group.
Leave(p, l) ==
  /\ phase[p] = "stopping"
  /\ Moves(p, l, "waiting", "ended")
  /\ UNCHANGED <<conf, phase, age, promised, beatVars, silent, key, faults>>

-----------------------------------------------------------------------------
(* Stop. *)

\* Run returns from ensureGroup, or its loops get to know.
Signal(p) ==
  /\ \/ phase[p] = "connecting" /\ phase' = [phase EXCEPT ![p] = "exited"]
     \/ phase[p] = "running" /\ phase' = [phase EXCEPT ![p] = "stopping"]
  /\ promised' = [promised EXCEPT ![p] = Working(p)]
  /\ IF Beating(p)' THEN UNCHANGED <<next, due, missed>> ELSE Silence(p)
  /\ UNCHANGED <<conf, loop, age, flight, silent, key, faults>>

\* Mutant: the wait group counts the consume loops only.
LoopsEndedConsumers(p) == \A l \in Loops(p) \ {0} : loop[p][l] = "ended"

LoopsEnded(p) == \A l \in Loops(p) : loop[p][l] = "ended"

GraceOver(p) == silent[p] >= conf[p].shutdownGrace

\* Nothing is left of a process but what it has sent.
End(p, how) ==
  /\ phase' = [phase EXCEPT ![p] = how]
  /\ loop' = [loop EXCEPT ![p] = <<>>] /\ age' = [age EXCEPT ![p] = <<>>]
  /\ promised' = [promised EXCEPT ![p] = {}]
  /\ Silence(p)
  /\ UNCHANGED <<conf, flight, silent, key>>

\* Run returns, the connections are closed and the process exits: when all loops
\* have ended, or when the grace is over, with the jobs that run.
Return(p) ==
  /\ phase[p] = "stopping"
  /\ (LoopsEnded(p) /\ flight[p] = -1) \/ GraceOver(p)
  /\ End(p, "exited") /\ UNCHANGED faults

Kill(p) ==
  /\ phase[p] \in Up /\ Fault
  /\ End(p, "killed")

\* Redis comes back without its data.
RedisLost ==
  /\ Fault
  /\ key' = 0
  /\ missed' = [p \in Processes |-> -1]
  /\ UNCHANGED <<conf, phase, loopVars, next, due, flight, silent>>

-----------------------------------------------------------------------------
Less(time) == IF time > Step THEN time - Step ELSE 0

\* Beyond this nothing depends on how long a process is silent.
MostSilent(p) == Max({conf[p].heartbeatTTL + MaxDelay, conf[p].shutdownGrace})

Later(p, time) == Min({time + Step, MostSilent(p)})

Urgent(p) ==
  \/ flight[p] >= 0 /\ flight[p] + Step > MaxDelay
  \/ Beating(p) /\ due[p] /\ flight[p] = -1
  \/ phase[p] = "stopping" /\ GraceOver(p)
  \/ phase[p] \in {"running", "stopping"} /\ \E l \in Working(p) : age[p][l] + Step > JobTime

\* The ticker has room for one tick; one that nobody takes is dropped.
Tick ==
  LET fires(p) == Beating(p) /\ next[p] \in 0..Step
  IN
  /\ \A p \in Processes : ~Urgent(p)
  /\ key' = Less(key)
  /\ next' = [p \in Processes |->
       IF fires(p) THEN conf[p].heartbeatInterval
       ELSE IF Beating(p) /\ next[p] > 0 THEN next[p] - Step ELSE next[p]]
  /\ due' = [p \in Processes |-> due[p] \/ fires(p)]
  /\ flight' = [p \in Processes |-> IF flight[p] >= 0 THEN flight[p] + Step ELSE -1]
  /\ silent' = [p \in Processes |->
       IF phase[p] \in {"stopping", "exited", "killed"} THEN Later(p, silent[p]) ELSE 0]
  /\ age' = [p \in Processes |-> [l \in DOMAIN age[p] |->
       IF phase[p] \in Up /\ loop[p][l] = "working" THEN age[p][l] + Step ELSE age[p][l]]]
  /\ UNCHANGED <<conf, phase, loop, promised, missed, faults>>

Next ==
  \/ Tick \/ RedisLost
  \/ \E p \in Processes :
       \/ Start(p) \/ Connect(p) \/ Signal(p) \/ Return(p) \/ Kill(p)
       \/ Send(p) \/ Apply(p) \/ Fail(p)
       \/ \E l \in DOMAIN loop[p] :
            StartJob(p, l) \/ EndJob(p, l) \/ Leave(p, l)

\* Time passes, and the heartbeat loop runs.
Fairness ==
  /\ WF_vars(Tick)
  /\ \A p \in Processes :
       /\ WF_vars(Send(p)) /\ WF_vars(Apply(p)) /\ WF_vars(Return(p))
       /\ WF_vars(\E l \in Working(p) : EndJob(p, l))

Spec == Init /\ [][Next]_vars
FairSpec == Spec /\ Fairness

-----------------------------------------------------------------------------
TypeOK ==
  /\ phase \in [Processes -> Up \cup {"off", "exited", "killed"}]
  /\ \A p \in Processes :
       /\ DOMAIN loop[p] \in {{}, Loops(p)} /\ DOMAIN age[p] = DOMAIN loop[p]
       /\ \A l \in DOMAIN loop[p] :
            loop[p][l] \in {"waiting", "working", "ended"} /\ age[p][l] \in 0..JobTime
       /\ promised[p] \subseteq Working(p)
  /\ next \in [Processes -> Int] /\ due \in [Processes -> BOOLEAN]
  /\ flight \in [Processes -> -1..MaxDelay] /\ missed \in [Processes -> Int]
  /\ silent \in [Processes -> Nat] /\ key \in Nat

(* docs/deployment.md:118: /readyz fails at the latest one lifetime of the *)
(* heartbeat after the last worker has stopped, was killed or was told to  *)
(* stop, and one delay for a SET that was on its way.                      *)
ReadyIsFresh ==
  Ready => \E p \in Processes :
             \/ phase[p] = "running"
             \/ /\ phase[p] \in {"stopping", "exited", "killed"} /\ conf[p] # Unconfigured
                /\ silent[p] < conf[p].heartbeatTTL + MaxDelay

\* How much longer than one interval ago the last write of p may be.
Overdue(p) ==
  missed[p] * conf[p].heartbeatInterval + (IF flight[p] > 0 THEN flight[p] ELSE 0)

(* A running process keeps the API ready between its heartbeats and over   *)
(* as many failures as fit in the lifetime, although another process may   *)
(* overwrite its key: whenever no process gives the key a shorter life.    *)
AliveIsReady ==
  \A p \in Processes :
    /\ phase[p] = "running" /\ missed[p] >= 0
    /\ \/ Overdue(p) = 0
       \/ Overdue(p) < conf[p].heartbeatTTL - conf[p].heartbeatInterval
    /\ \A q \in Processes :
         conf[q] # Unconfigured =>
           conf[q].heartbeatTTL >= conf[p].heartbeatTTL
    => Ready

(* A job that runs when the signal comes is not cut off, if jobs take no   *)
(* longer than the grace: whatever is started after the signal.            *)
StopIsGraceful ==
  [][\A p \in Processes :
       phase[p] = "stopping" /\ phase'[p] = "exited" /\ JobTime < conf[p].shutdownGrace
         => promised[p] = {}]_vars

(* As long as a process runs the API gets ready again, whatever was lost.  *)
ReadyAgain == \A p \in Processes : phase[p] = "running" ~> Ready \/ phase[p] # "running"
=============================================================================
