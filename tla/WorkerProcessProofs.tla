-------------------------- MODULE WorkerProcessProofs --------------------------
(***************************************************************************)
(* Theorems about WorkerProcess, for any number of processes, settings and *)
(* faults, about the call of the parser that a job makes, and about what   *)
(* becomes of its answer (ResultContent).                                  *)
(*                                                                         *)
(* Readiness: the key has one last writer, and what is left of its life    *)
(* shrinks at least as fast as that process's silence grows (LastWriter); a *)
(* SET that is applied when its process has gone is no younger than the    *)
(* silence of that process (FlightInv).                                    *)
(* Stop: the jobs that ran at the signal are older than it (JobInv).       *)
(* Heartbeat: ticker, SET and key of a running process are in step         *)
(* (BeatInv).                                                              *)
(* Parser: the text collected is that of one attempt (CallInv).            *)
(* Content: what is stored is clean, which means that every rule lets it   *)
(* pass and leaves it alone (ContentInv).                                  *)
(***************************************************************************)
EXTENDS WorkerProcess, ResultContent, FiniteSetTheorems, WellFoundedInduction, TLAPS

Phases == Up \cup {"off", "exited", "killed"}
Gone == {"stopping", "exited", "killed"}

Took(p) == conf[p].heartbeatTTL \in Nat \ {0} /\ conf[p].shutdownGrace \in Nat

TimeInv ==
  /\ phase \in [Processes -> Phases] /\ DOMAIN conf = Processes
  /\ flight \in [Processes -> -1..MaxDelay] /\ silent \in [Processes -> Nat] /\ key \in Nat

\* A process that has settings, and when it began to be silent.
PhaseInv ==
  \A p \in Processes :
    /\ conf[p] = Unconfigured \/ Took(p)
    /\ phase[p] \in Up => Took(p)
    /\ phase[p] \notin Gone => silent[p] = 0

FlightInv ==
  \A p \in Processes :
    flight[p] >= 0 =>
      /\ Took(p) /\ phase[p] \in Gone \cup {"running"}
      /\ silent[p] <= flight[p]

LastWriter ==
  Ready => \E p \in Processes :
             /\ Took(p) /\ phase[p] \in Gone \cup {"running"}
             /\ silent[p] + key <= conf[p].heartbeatTTL + MaxDelay

Inv == TimeInv /\ PhaseInv /\ FlightInv /\ LastWriter

-----------------------------------------------------------------------------
(* The names and defaults that this proof is about. *)
LEMMA SettingsKnown ==
  /\ {"HeartbeatTTL", "ShutdownGrace"} \subseteq Names
  /\ Default("HeartbeatTTL") = 30 /\ Default("ShutdownGrace") = 180
  BY DEF Names, Default, AuthDefaults, AIDefaults, UploadDefaults, WorkerDefaults

(* Load returns numbers. *)
LEMMA LoadedNumbers ==
  ASSUME NEW env \in Environments, NEW name \in {"HeartbeatTTL", "ShutdownGrace"}
  PROVE  Load(File, env)[name] \in Int
  <1>1. name \in Names /\ Default(name) \in Int
    BY SettingsKnown
  <1>2. Given(File, env)[name] \in Int
    BY <1>1, ProcessAssumption DEF Given, Stored
  <1> QED
    BY <1>1, <1>2 DEF Load, WithDefaults

(* A process that is started has a lifetime for its heartbeat. *)
LEMMA AcceptedSettings ==
  ASSUME NEW env \in Environments, Accepted(Load(File, env))
  PROVE  /\ New(Load(File, env)).heartbeatTTL \in Nat \ {0}
         /\ New(Load(File, env)).shutdownGrace \in Nat
  BY LoadedNumbers, SettingsKnown DEF Accepted, New

(* Silence counts at most the time that passes. *)
LEMMA LaterBounds ==
  ASSUME NEW p \in Processes, conf[p] = Unconfigured \/ Took(p), NEW time \in Nat
  PROVE  Later(p, time) \in Nat /\ Later(p, time) <= time + Step
  <1> DEFINE a == conf[p].heartbeatTTL + MaxDelay
             b == conf[p].shutdownGrace
  <1>1. a \in Nat /\ b \in Nat /\ Step \in Nat
    BY ProcessAssumption DEF Took, Unconfigured
  <1>2. MostSilent(p) \in {a, b}
    <2>1. \E x \in {a, b} : \A y \in {a, b} : x >= y
      BY <1>1
    <2> QED
      BY <2>1 DEF MostSilent, Max
  <1>3. \A c \in Nat : /\ Min({time + Step, c}) \in {time + Step, c}
                       /\ Min({time + Step, c}) <= time + Step
    <2> TAKE c \in Nat
    <2>1. \E x \in {time + Step, c} : \A y \in {time + Step, c} : x <= y
      BY <1>1
    <2> QED
      BY <2>1 DEF Min
  <1> QED
    BY <1>1, <1>2, <1>3 DEF Later

-----------------------------------------------------------------------------
(* Before the first start there is no key. *)
LEMMA InitInv == Init => Inv
  BY ProcessAssumption
  DEF Init, Inv, TimeInv, PhaseInv, FlightInv, LastWriter, Ready, Phases, Up, Gone, Took

(* Time shortens the key and lengthens the silence by no more. *)
LEMMA TickInv == Inv /\ Tick => Inv'
  <1> SUFFICES ASSUME Inv, Tick PROVE Inv'
    OBVIOUS
  <1>0. Step \in Nat \ {0} /\ MaxDelay \in Nat
    BY ProcessAssumption
  <1>1. UNCHANGED <<conf, phase>> /\ \A p \in Processes : Took(p)' <=> Took(p)
    BY DEF Tick, Took
  <1>2. ASSUME NEW p \in Processes
        PROVE  /\ silent'[p] \in Nat /\ silent'[p] <= silent[p] + Step
               /\ phase[p] \notin Gone => silent'[p] = 0
    <2>1. silent'[p] = IF phase[p] \in Gone THEN Later(p, silent[p]) ELSE 0
      BY DEF Tick, Gone
    <2>2. Later(p, silent[p]) \in Nat /\ Later(p, silent[p]) <= silent[p] + Step
      BY LaterBounds DEF Inv, TimeInv, PhaseInv
    <2> QED
      BY <2>1, <2>2, <1>0 DEF Inv, TimeInv
  <1>3. ASSUME NEW p \in Processes
        PROVE  flight'[p] = IF flight[p] >= 0 THEN flight[p] + Step ELSE -1
    BY DEF Tick
  <1>4. ASSUME NEW p \in Processes PROVE flight'[p] \in -1..MaxDelay
    BY <1>0, <1>3 DEF Tick, Urgent, Inv, TimeInv
  <1>5. key' \in Nat /\ (key' > 0 => key > 0 /\ key' + Step <= key)
    BY <1>0 DEF Tick, Less, Inv, TimeInv
  <1>6. TimeInv'
    BY <1>1, <1>2, <1>4, <1>5 DEF Inv, TimeInv, Tick
  <1>7. PhaseInv'
    BY <1>1, <1>2 DEF Inv, PhaseInv
  <1>8. FlightInv'
    <2> SUFFICES ASSUME NEW p \in Processes, flight'[p] >= 0
                 PROVE  /\ Took(p)' /\ phase'[p] \in Gone \cup {"running"}
                        /\ silent'[p] <= flight'[p]
      BY DEF FlightInv
    <2> QED
      BY <1>0, <1>1, <1>2, <1>3 DEF Inv, FlightInv, TimeInv
  <1>9. LastWriter'
    <2> SUFFICES ASSUME key' > 0
                 PROVE  \E p \in Processes :
                          /\ Took(p)' /\ phase'[p] \in Gone \cup {"running"}
                          /\ silent'[p] + key' <= conf'[p].heartbeatTTL + MaxDelay
      BY DEF LastWriter, Ready
    <2>1. PICK p \in Processes : /\ Took(p) /\ phase[p] \in Gone \cup {"running"}
                                /\ silent[p] + key <= conf[p].heartbeatTTL + MaxDelay
      BY <1>5 DEF Inv, LastWriter, Ready
    <2>2. silent'[p] + key' <= silent[p] + key
      <3>1. silent'[p] \in Nat /\ silent[p] \in Nat /\ silent'[p] <= silent[p] + Step
        BY <1>2 DEF Inv, TimeInv
      <3>2. key' \in Nat /\ key \in Nat /\ key' + Step <= key
        BY <1>5 DEF Inv, TimeInv
      <3>3. \A a, b, c, d, e \in Nat : a <= b + e /\ c + e <= d => a + c <= b + d
        OBVIOUS
      <3> QED
        BY <1>0, <3>1, <3>2, <3>3
    <2>3. silent'[p] + key' <= conf[p].heartbeatTTL + MaxDelay
      BY <1>0, <1>2, <1>5, <2>1, <2>2 DEF Took, Inv, TimeInv
    <2> QED
      BY <1>1, <2>1, <2>3
  <1> QED
    BY <1>6, <1>7, <1>8, <1>9 DEF Inv

(* A process that is started or refused. *)
LEMMA StartInv == ASSUME NEW q \in Processes, Inv, Start(q) PROVE Inv'
  <1>1. PICK env \in Environments :
          IF Accepted(Load(File, env))
            THEN /\ conf' = [conf EXCEPT ![q] = New(Load(File, env))]
                 /\ phase' = [phase EXCEPT ![q] = "connecting"]
            ELSE phase' = [phase EXCEPT ![q] = "exited"] /\ UNCHANGED conf
    BY DEF Start
  <1>2. Accepted(Load(File, env)) => /\ New(Load(File, env)).heartbeatTTL \in Nat \ {0}
                                     /\ New(Load(File, env)).shutdownGrace \in Nat
    BY AcceptedSettings
  <1>3. phase[q] = "off" /\ UNCHANGED <<flight, silent, key>>
    BY DEF Start, beatVars
  <1>4. \A p \in Processes : p # q => phase'[p] = phase[p] /\ conf'[p] = conf[p]
    BY <1>1 DEF Inv, TimeInv
  <1>5. \/ phase'[q] = "connecting" /\ Took(q)'
        \/ phase'[q] = "exited" /\ conf'[q] = conf[q]
    <2>1. q \in DOMAIN conf /\ phase \in [Processes -> Phases]
      BY DEF Inv, TimeInv
    <2>2. CASE Accepted(Load(File, env))
      <3>1. conf'[q] = New(Load(File, env)) /\ phase'[q] = "connecting"
        BY <1>1, <2>1, <2>2
      <3> QED
        BY <1>2, <2>2, <3>1 DEF Took
    <2>3. CASE ~Accepted(Load(File, env))
      BY <1>1, <2>1, <2>3
    <2> QED
      BY <2>2, <2>3
  <1>6. TimeInv'
    BY <1>1, <1>3 DEF Inv, TimeInv, Phases, Up
  <1>7. PhaseInv'
    BY <1>3, <1>4, <1>5 DEF Inv, PhaseInv, Took, Up, Gone
  <1>8. FlightInv' /\ LastWriter'
    BY <1>3, <1>4 DEF Inv, FlightInv, LastWriter, Ready, Took, Gone
  <1> QED
    BY <1>6, <1>7, <1>8 DEF Inv

(* A process that ends keeps what it has sent. *)
LEMMA EndInv ==
  ASSUME NEW q \in Processes, Inv, NEW how \in {"exited", "killed"}, phase[q] \in Up, End(q, how),
         flight[q] >= 0 => phase[q] \in {"running", "stopping"}
  PROVE  Inv'
  <1>1. UNCHANGED <<conf, flight, silent, key>> /\ phase' = [phase EXCEPT ![q] = how]
    BY DEF End
  <1>2. \A p \in Processes : Took(p)' <=> Took(p)
    BY <1>1 DEF Took
  <1>3. \A p \in Processes : phase'[p] = IF p = q THEN how ELSE phase[p]
    BY <1>1 DEF Inv, TimeInv
  <1>4. TimeInv'
    BY <1>1 DEF Inv, TimeInv, Phases
  <1>5. PhaseInv'
    BY <1>1, <1>2, <1>3 DEF Inv, PhaseInv, Up, Gone
  <1>6. FlightInv'
    BY <1>1, <1>2, <1>3 DEF Inv, FlightInv, Gone
  <1>7. LastWriter'
    BY <1>1, <1>2, <1>3 DEF Inv, LastWriter, Ready, Gone
  <1> QED
    BY <1>4, <1>5, <1>6, <1>7 DEF Inv

(* Every step keeps the invariant. *)
LEMMA NextInv == Inv /\ [Next]_vars => Inv'
  <1> SUFFICES ASSUME Inv, [Next]_vars PROVE Inv'
    OBVIOUS
  <1>1. CASE Tick
    BY <1>1, TickInv
  <1>2. CASE RedisLost
    BY <1>2 DEF RedisLost, loopVars, Inv, TimeInv, PhaseInv, FlightInv, LastWriter, Ready, Took
  <1>3. ASSUME NEW q \in Processes, Start(q) PROVE Inv'
    BY <1>3, StartInv
  <1>4. ASSUME NEW q \in Processes, Connect(q) PROVE Inv'
    BY <1>4 DEF Connect, Inv, TimeInv, PhaseInv, FlightInv, LastWriter, Ready, Took, Phases, Up, Gone
  <1>5. ASSUME NEW q \in Processes, Signal(q) PROVE Inv'
    BY <1>5 DEF Signal, Silence, Inv, TimeInv, PhaseInv, FlightInv, LastWriter, Ready, Took, Phases, Up, Gone
  <1>6. ASSUME NEW q \in Processes, Return(q) PROVE Inv'
    BY <1>6, EndInv DEF Return, Up
  <1>7. ASSUME NEW q \in Processes, Kill(q) PROVE Inv'
    <2>1. flight[q] >= 0 => phase[q] \in {"running", "stopping"}
      BY <1>7 DEF Kill, Inv, FlightInv, Up, Gone
    <2> QED
      BY <1>7, <2>1, EndInv DEF Kill
  <1>8. ASSUME NEW q \in Processes, Send(q) PROVE Inv'
    <2>1. Took(q) /\ phase[q] = "running" /\ silent[q] = 0
      BY <1>8 DEF Send, Beating, Inv, PhaseInv, Up, Gone
    <2> QED
      BY <1>8, <2>1, ProcessAssumption
      DEF Send, loopVars, Inv, TimeInv, PhaseInv, FlightInv, LastWriter, Ready, Took, Gone
  <1>9. ASSUME NEW q \in Processes, Apply(q) PROVE Inv'
    <2>1. /\ Took(q) /\ phase[q] \in Gone \cup {"running"}
          /\ silent[q] <= flight[q] /\ flight[q] <= MaxDelay
      BY <1>9, ProcessAssumption DEF Apply, Inv, TimeInv, FlightInv
    <2>2. key' = conf[q].heartbeatTTL /\ UNCHANGED <<conf, phase, silent>>
      BY <1>9 DEF Apply
    <2>3. silent[q] + key' <= conf[q].heartbeatTTL + MaxDelay
      BY <2>1, <2>2, ProcessAssumption DEF Took, Inv, TimeInv
    <2>4. LastWriter'
      BY <2>1, <2>2, <2>3 DEF LastWriter, Took
    <2>5. TimeInv' /\ PhaseInv' /\ FlightInv'
      BY <1>9, <2>1, <2>2, ProcessAssumption DEF Apply, Inv, TimeInv, PhaseInv, FlightInv, Took
    <2> QED
      BY <2>4, <2>5 DEF Inv
  <1>10. ASSUME NEW q \in Processes, Fail(q) PROVE Inv'
    BY <1>10, ProcessAssumption
    DEF Fail, loopVars, Inv, TimeInv, PhaseInv, FlightInv, LastWriter, Ready, Took
  <1>11. CASE UNCHANGED <<conf, phase, beatVars, silent, key>>
    BY <1>11 DEF beatVars, Inv, TimeInv, PhaseInv, FlightInv, LastWriter, Ready, Took
  <1>12. ASSUME NEW q \in Processes, NEW l \in DOMAIN loop[q],
                StartJob(q, l) \/ EndJob(q, l) \/ Leave(q, l)
         PROVE  Inv'
    BY <1>11, <1>12 DEF StartJob, EndJob, Leave
  <1> QED
    BY <1>1, <1>2, <1>3, <1>4, <1>5, <1>6, <1>7, <1>8, <1>9, <1>10, <1>11, <1>12 DEF Next, vars

(* docs/deployment.md:118 for any number of workers: /readyz fails one     *)
(* lifetime of the heartbeat and one delay after the last of them.         *)
THEOREM ReadyMeansAlive == Spec => []ReadyIsFresh
  <1>1. Inv => ReadyIsFresh
    <2> SUFFICES ASSUME Inv, Ready
                 PROVE  \E p \in Processes :
                          \/ phase[p] = "running"
                          \/ /\ phase[p] \in Gone /\ conf[p] # Unconfigured
                             /\ silent[p] < conf[p].heartbeatTTL + MaxDelay
      BY DEF ReadyIsFresh, Gone
    <2>1. PICK p \in Processes : /\ Took(p) /\ phase[p] \in Gone \cup {"running"}
                                /\ silent[p] + key <= conf[p].heartbeatTTL + MaxDelay
      BY DEF Inv, LastWriter
    <2>2. conf[p] # Unconfigured
      BY <2>1 DEF Took, Unconfigured
    <2>3. silent[p] < conf[p].heartbeatTTL + MaxDelay
      BY <2>1, ProcessAssumption DEF Took, Ready, Inv, TimeInv
    <2> QED
      BY <2>1, <2>2, <2>3
  <1> QED
    BY InitInv, NextInv, <1>1, PTL DEF Spec
-----------------------------------------------------------------------------
(* Jobs and the stop: a job that ran when the signal came has run for at   *)
(* least as long as its process has been stopping.                         *)

JobInv ==
  /\ DOMAIN loop = Processes /\ DOMAIN age = Processes /\ DOMAIN promised = Processes
  /\ \A p \in Processes :
       /\ DOMAIN age[p] = DOMAIN loop[p]
       /\ phase[p] \in {"running", "stopping"} => DOMAIN loop[p] = Loops(p)
       /\ phase[p] \notin {"running", "stopping"} => DOMAIN loop[p] = {}
       /\ promised[p] \subseteq Working(p)
       /\ \A l \in Working(p) : age[p][l] \in 0..JobTime
       /\ phase[p] = "stopping" => \A l \in promised[p] : silent[p] <= age[p][l]

(* No loop runs before the first start. *)
LEMMA InitJobs == Init => JobInv
  <1>1. DOMAIN <<>> = {}
    OBVIOUS
  <1> QED
    BY <1>1 DEF Init, JobInv, Working

(* A process that other processes leave alone keeps its jobs. *)
LEMMA OthersJobs ==
  ASSUME JobInv, NEW p \in Processes,
         loop'[p] = loop[p], age'[p] = age[p], promised'[p] = promised[p],
         phase'[p] = phase[p], silent'[p] = silent[p], conf'[p] = conf[p]
  PROVE  /\ DOMAIN age'[p] = DOMAIN loop'[p]
         /\ phase'[p] \in {"running", "stopping"} => DOMAIN loop'[p] = Loops(p)'
         /\ phase'[p] \notin {"running", "stopping"} => DOMAIN loop'[p] = {}
         /\ promised'[p] \subseteq Working(p)'
         /\ \A l \in Working(p)' : age'[p][l] \in 0..JobTime
         /\ phase'[p] = "stopping" => \A l \in promised'[p] : silent'[p] <= age'[p][l]
  BY DEF JobInv, Working, Loops

(* Time passes for jobs as for the silence, and not over what is due. *)
LEMMA TickJobs == Inv /\ JobInv /\ Tick => JobInv'
  <1> SUFFICES ASSUME Inv, JobInv, Tick PROVE JobInv'
    OBVIOUS
  <1>0. Step \in Nat \ {0} /\ JobTime \in Nat
    BY ProcessAssumption
  <1>1. UNCHANGED <<conf, phase, loop, promised>>
    BY DEF Tick
  <1>2. DOMAIN age' = Processes
    BY DEF Tick
  <1>3. ASSUME NEW p \in Processes
        PROVE  /\ DOMAIN age'[p] = DOMAIN age[p]
               /\ \A l \in Working(p) : age'[p][l] = age[p][l] + Step /\ age'[p][l] \in 0..JobTime
    <2>1. age'[p] = [l \in DOMAIN age[p] |->
                       IF phase[p] \in Up /\ loop[p][l] = "working" THEN age[p][l] + Step ELSE age[p][l]]
      BY DEF Tick
    <2>2. ASSUME NEW l \in Working(p)
          PROVE  age'[p][l] = age[p][l] + Step /\ age'[p][l] \in 0..JobTime
      <3>1. /\ l \in DOMAIN age[p] /\ loop[p][l] = "working" /\ age[p][l] \in 0..JobTime
            /\ phase[p] \in {"running", "stopping"}
        BY DEF JobInv, Working
      <3>2. age'[p][l] = age[p][l] + Step
        BY <2>1, <3>1 DEF Up
      <3>3. ~(age[p][l] + Step > JobTime)
        BY <3>1 DEF Tick, Urgent
      <3> QED
        BY <1>0, <3>1, <3>2, <3>3
    <2> QED
      BY <2>1, <2>2
  <1>4. ASSUME NEW p \in Processes, phase[p] = "stopping"
        PROVE  silent'[p] \in Nat /\ silent'[p] <= silent[p] + Step /\ silent[p] \in Nat
    <2>1. silent'[p] = Later(p, silent[p])
      BY <1>4 DEF Tick
    <2> QED
      BY <2>1, LaterBounds DEF Inv, TimeInv, PhaseInv
  <1>5. ASSUME NEW p \in Processes, phase[p] = "stopping", NEW l \in promised[p]
        PROVE  silent'[p] <= age'[p][l]
    <2>1. l \in Working(p) /\ silent[p] <= age[p][l] /\ age[p][l] \in Nat
      BY <1>5, <1>0 DEF JobInv
    <2> QED
      BY <1>0, <1>3, <1>4, <1>5, <2>1
  <1>6. \A p \in Processes : Working(p)' = Working(p) /\ Loops(p)' = Loops(p)
    BY <1>1 DEF Working, Loops
  <1> QED
    BY <1>1, <1>2, <1>3, <1>5, <1>6 DEF JobInv

(* Every step keeps the ages of the jobs. *)
LEMMA NextJobs == Inv /\ JobInv /\ [Next]_vars => JobInv'
  <1> SUFFICES ASSUME Inv, JobInv, [Next]_vars PROVE JobInv'
    OBVIOUS
  <1> USE OthersJobs
  <1>e. DOMAIN <<>> = {}
    OBVIOUS
  <1>0. JobTime \in Nat /\ DOMAIN conf = Processes /\ phase \in [Processes -> Phases]
    BY ProcessAssumption DEF Inv, TimeInv
  <1>1. CASE Tick
    BY <1>1, TickJobs
  <1>2. CASE UNCHANGED <<conf, phase, loop, age, promised, silent>>
    BY <1>2 DEF JobInv, Working, Loops
  <1>3. ASSUME NEW q \in Processes, Start(q) PROVE JobInv'
    <2>1. /\ phase[q] = "off" /\ phase'[q] \in {"connecting", "exited"}
          /\ UNCHANGED <<loop, age, promised, silent>>
          /\ \A p \in Processes : p # q => phase'[p] = phase[p] /\ conf'[p] = conf[p]
      BY <1>0, <1>3 DEF Start, loopVars
    <2>2. \A p \in Processes : Working(p)' = Working(p)
      BY <2>1 DEF Working
    <2> QED
      BY <2>1, <2>2 DEF JobInv, Loops
  <1>4. ASSUME NEW q \in Processes, Connect(q) PROVE JobInv'
    <2>1. /\ UNCHANGED <<conf, promised, silent>> /\ phase[q] = "connecting"
          /\ phase' = [phase EXCEPT ![q] = "running"]
          /\ loop' = [loop EXCEPT ![q] = [l \in Loops(q) |-> "waiting"]]
          /\ age' = [age EXCEPT ![q] = [l \in Loops(q) |-> 0]]
      BY <1>4 DEF Connect
    <2>2. /\ phase'[q] = "running" /\ loop'[q] = [l \in Loops(q) |-> "waiting"]
          /\ age'[q] = [l \in Loops(q) |-> 0] /\ Loops(q)' = Loops(q)
          /\ \A p \in Processes : p # q =>
               phase'[p] = phase[p] /\ loop'[p] = loop[p] /\ age'[p] = age[p]
      BY <1>0, <2>1 DEF JobInv, Loops
    <2>3. promised[q] = {} /\ Working(q)' = {}
      BY <2>1, <2>2 DEF JobInv, Working
    <2>4. DOMAIN loop' = Processes /\ DOMAIN age' = Processes /\ DOMAIN promised' = Processes
      BY <2>1 DEF JobInv
    <2> QED
      BY <2>1, <2>2, <2>3, <2>4 DEF JobInv, Working, Loops
  <1>5. ASSUME NEW q \in Processes, Signal(q) PROVE JobInv'
    <2>1. /\ UNCHANGED <<conf, loop, age, silent>>
          /\ \/ phase[q] = "connecting" /\ phase' = [phase EXCEPT ![q] = "exited"]
             \/ phase[q] = "running" /\ phase' = [phase EXCEPT ![q] = "stopping"]
          /\ promised' = [promised EXCEPT ![q] = Working(q)]
      BY <1>5 DEF Signal
    <2>2. /\ \A p \in Processes : Working(p)' = Working(p) /\ Loops(p)' = Loops(p)
          /\ \A p \in Processes : p # q => phase'[p] = phase[p] /\ promised'[p] = promised[p]
          /\ \/ phase[q] = "connecting" /\ phase'[q] = "exited"
             \/ phase[q] = "running" /\ phase'[q] = "stopping"
          /\ promised'[q] = Working(q) /\ DOMAIN promised' = Processes
      BY <1>0, <2>1 DEF JobInv, Working, Loops
    <2>3. phase[q] = "running" => silent[q] = 0
      BY DEF Inv, PhaseInv, Gone
    <2> QED
      BY <1>0, <2>1, <2>2, <2>3 DEF JobInv
  <1>6. ASSUME NEW q \in Processes, NEW how \in {"exited", "killed"}, End(q, how) PROVE JobInv'
    <2>1. /\ UNCHANGED <<conf, silent>>
          /\ phase' = [phase EXCEPT ![q] = how]
          /\ loop' = [loop EXCEPT ![q] = <<>>] /\ age' = [age EXCEPT ![q] = <<>>]
          /\ promised' = [promised EXCEPT ![q] = {}]
      BY <1>6 DEF End
    <2>2. /\ phase'[q] = how /\ loop'[q] = <<>> /\ age'[q] = <<>> /\ promised'[q] = {}
          /\ \A p \in Processes : p # q =>
               /\ phase'[p] = phase[p] /\ loop'[p] = loop[p] /\ age'[p] = age[p]
               /\ promised'[p] = promised[p]
          /\ DOMAIN loop' = Processes /\ DOMAIN age' = Processes /\ DOMAIN promised' = Processes
      BY <1>0, <2>1 DEF JobInv
    <2>3. DOMAIN loop'[q] = {} /\ DOMAIN age'[q] = {} /\ Working(q)' = {}
      BY <1>e, <2>2 DEF Working
    <2> QED
      BY <2>1, <2>2, <2>3 DEF JobInv, Working, Loops
  <1>7. ASSUME NEW q \in Processes, NEW l \in DOMAIN loop[q], NEW from \in {"waiting", "working"},
               NEW to \in {"waiting", "working", "ended"}, Moves(q, l, from, to),
               UNCHANGED <<conf, phase, silent>>,
               \/ /\ age' = [age EXCEPT ![q][l] = 0]
                  /\ promised' = [promised EXCEPT ![q] = promised[q] \ {l}]
               \/ /\ from = "waiting" /\ promised' = promised
                  /\ age' = [age EXCEPT ![q][l] = 0] \/ (age' = age /\ to # "working")
        PROVE  JobInv'
    <2>1. loop[q][l] = from /\ loop' = [loop EXCEPT ![q][l] = to]
      BY <1>7 DEF Moves
    <2>2. /\ DOMAIN loop'[q] = DOMAIN loop[q] /\ loop'[q][l] = to
          /\ \A k \in DOMAIN loop[q] : k # l => loop'[q][k] = loop[q][k]
          /\ \A p \in Processes : p # q => loop'[p] = loop[p]
          /\ DOMAIN loop' = Processes
      BY <2>1 DEF JobInv
    <2>3. /\ DOMAIN age'[q] = DOMAIN age[q]
          /\ \A k \in DOMAIN age[q] : k # l => age'[q][k] = age[q][k]
          /\ to = "working" => age'[q][l] = 0
          /\ \A p \in Processes : p # q => age'[p] = age[p]
          /\ DOMAIN age' = Processes
      BY <1>7 DEF JobInv
    <2>4. /\ promised'[q] \subseteq promised[q] /\ l \notin promised'[q]
          /\ \A p \in Processes : p # q => promised'[p] = promised[p]
          /\ DOMAIN promised' = Processes
      <3>1. from = "waiting" => l \notin promised[q]
        BY <2>1 DEF JobInv, Working
      <3> QED
        BY <1>7, <3>1 DEF JobInv
    <2>5. \A k \in Working(q)' : (k = l /\ to = "working") \/ (k # l /\ k \in Working(q))
      BY <2>2 DEF Working
    <2>6. \A k \in Working(q) : k # l => k \in Working(q)'
      BY <2>2 DEF Working
    <2>7. /\ promised'[q] \subseteq Working(q)'
          /\ \A k \in Working(q)' : age'[q][k] \in 0..JobTime
          /\ phase[q] = "stopping" => \A k \in promised'[q] : silent[q] <= age'[q][k]
      <3>1. /\ promised[q] \subseteq Working(q) /\ DOMAIN age[q] = DOMAIN loop[q]
            /\ \A k \in Working(q) : k \in DOMAIN age[q] /\ age[q][k] \in 0..JobTime
            /\ phase[q] = "stopping" => \A k \in promised[q] : silent[q] <= age[q][k]
        BY DEF JobInv, Working
      <3> QED
        BY <1>0, <2>3, <2>4, <2>5, <2>6, <3>1
    <2>8. ASSUME NEW p \in Processes, p # q
          PROVE  Working(p)' = Working(p) /\ Loops(p)' = Loops(p)
      BY <1>7, <2>2, <2>8 DEF Working, Loops
    <2> QED
      BY <1>7, <2>2, <2>3, <2>4, <2>7, <2>8 DEF JobInv, Loops
  <1>8. ASSUME NEW q \in Processes, NEW l \in DOMAIN loop[q],
               StartJob(q, l) \/ EndJob(q, l) \/ Leave(q, l)
        PROVE  JobInv'
    <2>1. CASE StartJob(q, l)
      BY <1>7, <2>1 DEF StartJob
    <2>2. CASE EndJob(q, l)
      BY <1>7, <2>2 DEF EndJob
    <2>3. CASE Leave(q, l)
      BY <1>7, <2>3 DEF Leave
    <2> QED
      BY <1>8, <2>1, <2>2, <2>3
  <1>9. ASSUME NEW q \in Processes, Send(q) \/ Apply(q) \/ Fail(q) PROVE JobInv'
    BY <1>2, <1>9 DEF Send, Apply, Fail, loopVars
  <1>10. CASE RedisLost
    BY <1>2, <1>10 DEF RedisLost, loopVars
  <1>11. ASSUME NEW q \in Processes, Return(q) \/ Kill(q) PROVE JobInv'
    BY <1>6, <1>11 DEF Return, Kill
  <1>12. CASE UNCHANGED vars
    BY <1>2, <1>12 DEF vars, loopVars
  <1> QED
    BY <1>1, <1>3, <1>4, <1>5, <1>8, <1>9, <1>10, <1>11, <1>12 DEF Next

(* Run (worker.go:134-153) waits for the loops up to the grace: a job that *)
(* ran when the signal came is not cut off if jobs are shorter than that.  *)
THEOREM NothingIsCutOff == Spec => StopIsGraceful
  <1>1. ASSUME Inv, JobInv, [Next]_vars, NEW p \in Processes,
               phase[p] = "stopping", phase'[p] = "exited", JobTime < conf[p].shutdownGrace
        PROVE  promised[p] = {}
    <2>1. phase \in [Processes -> Phases] /\ silent[p] \in Nat /\ JobTime \in Nat /\ Took(p)
      BY <1>1, ProcessAssumption DEF Inv, TimeInv, PhaseInv, Up
    <2>2. Return(p)
      <3>1. phase'[p] # phase[p]
        BY <1>1
      <3>2. \A q \in Processes : q # p => /\ ~Start(q) /\ ~Connect(q) /\ ~Signal(q)
                                          /\ ~Return(q) /\ ~Kill(q)
        BY <2>1, <3>1 DEF Start, Connect, Signal, Return, Kill, End
      <3>3. ~Start(p) /\ ~Connect(p) /\ ~Signal(p) /\ ~Kill(p)
        BY <1>1, <2>1 DEF Start, Connect, Signal, Kill, End
      <3> QED
        BY <1>1, <3>1, <3>2, <3>3
        DEF Next, Tick, RedisLost, Send, Apply, Fail, StartJob, EndJob, Leave, vars
    <2>3. /\ promised[p] \subseteq Working(p) /\ DOMAIN loop[p] = Loops(p)
          /\ \A l \in promised[p] : silent[p] <= age[p][l] /\ age[p][l] \in 0..JobTime
      BY <1>1 DEF JobInv
    <2>4. CASE LoopsEnded(p)
      BY <2>3, <2>4 DEF LoopsEnded, Working
    <2>5. CASE GraceOver(p)
      BY <1>1, <2>1, <2>3, <2>5 DEF GraceOver, Took
    <2> QED
      BY <2>2, <2>4, <2>5 DEF Return
  <1>2. Inv /\ JobInv /\ [Next]_vars =>
          [\A p \in Processes :
             phase[p] = "stopping" /\ phase'[p] = "exited" /\ JobTime < conf[p].shutdownGrace
               => promised[p] = {}]_vars
    BY <1>1
  <1> QED
    BY InitInv, NextInv, InitJobs, NextJobs, <1>2, PTL DEF Spec, StopIsGraceful

-----------------------------------------------------------------------------
(* The heartbeat of a running process.  Its ticker and its SET are in step  *)
(* (Paced), which says how old the last write that Redis knows can be       *)
(* (Since), and the key has lost no more of its life than that (Fed).       *)

Multiples == {k * Step : k \in Nat}

\* Time passes in whole steps between two ticks, and a SET is not on its way
\* for longer than that.
RegularBeats ==
  \A env \in Environments :
    Accepted(Load(File, env)) =>
      /\ Load(File, env)["HeartbeatInterval"] \in Multiples
      /\ MaxDelay <= Load(File, env)["HeartbeatInterval"]

Interval(p) == conf[p].heartbeatInterval

Paces(p) ==
  /\ Interval(p) \in Multiples \ {0} /\ MaxDelay <= Interval(p)
  /\ conf[p].heartbeatTTL \in Nat /\ Interval(p) < conf[p].heartbeatTTL

Paced(p) ==
  /\ conf[p] = Unconfigured \/ Paces(p)
  /\ phase[p] \in Up => Paces(p)
  /\ phase[p] = "off" => conf[p] = Unconfigured
  /\ due[p] \in BOOLEAN /\ missed[p] \in Nat \cup {-1}
  /\ phase[p] \in {"off", "connecting"} => next[p] = -1 /\ missed[p] = -1
  /\ phase[p] = "running" /\ next[p] = -1 => missed[p] = -1 /\ (due[p] => flight[p] = -1)
  /\ phase[p] = "running" /\ next[p] # -1 =>
       /\ next[p] \in Multiples \ {0} /\ next[p] <= Interval(p)
       /\ due[p] => next[p] = Interval(p) /\ (flight[p] # -1 => flight[p] = Interval(p))
       /\ ~due[p] /\ flight[p] # -1 => flight[p] + next[p] = Interval(p)

\* No process gives the key a shorter life than p.
Unshortened(p) ==
  \A q \in Processes :
    conf[q] # Unconfigured => conf[q].heartbeatTTL >= conf[p].heartbeatTTL

\* How long ago the last write was at most.
Since(p) ==
  missed[p] * Interval(p) + Interval(p)
    + (IF flight[p] # -1 THEN flight[p] ELSE IF due[p] THEN 0 ELSE -next[p])

Fed(p) ==
  phase[p] = "running" /\ missed[p] # -1 /\ Unshortened(p) =>
    key + Since(p) >= conf[p].heartbeatTTL

BeatInv ==
  /\ DOMAIN next = Processes /\ DOMAIN due = Processes /\ DOMAIN missed = Processes
  /\ \A p \in Processes : Paced(p) /\ Fed(p)

(* A time of whole steps that is not over lasts a step at least. *)
LEMMA WholeSteps ==
  ASSUME NEW n \in Multiples
  PROVE  n \in Nat /\ (n # 0 => n >= Step /\ n - Step \in Multiples)
  <1>1. Step \in Nat \ {0}
    BY ProcessAssumption
  <1>2. PICK k \in Nat : n = k * Step
    BY DEF Multiples
  <1>3. n \in Nat
    BY <1>1, <1>2
  <1>4. ASSUME n # 0 PROVE n >= Step /\ n - Step \in Multiples
    <2>1. k # 0
      BY <1>1, <1>2, <1>4
    <2>2. k - 1 \in Nat
      BY <2>1
    <2>3. n - Step = (k - 1) * Step /\ (k - 1) * Step \in Nat
      BY <1>1, <1>2, <2>2
    <2> QED
      BY <1>1, <1>3, <2>2, <2>3 DEF Multiples
  <1> QED
    BY <1>3, <1>4

(* What is known of the numbers of a process that beats. *)
LEMMA BeatNumbers ==
  ASSUME Inv, BeatInv, NEW p \in Processes, phase[p] = "running"
  PROVE  /\ Step \in Nat \ {0} /\ MaxDelay \in Nat /\ key \in Nat
         /\ Interval(p) \in Nat \ {0} /\ conf[p].heartbeatTTL \in Nat
         /\ MaxDelay <= Interval(p) /\ Interval(p) < conf[p].heartbeatTTL
         /\ flight[p] \in -1..MaxDelay /\ missed[p] \in Int
         /\ missed[p] # -1 => missed[p] \in Nat /\ missed[p] * Interval(p) \in Nat
         /\ next[p] # -1 => next[p] \in Nat \ {0} /\ next[p] >= Step /\ next[p] <= Interval(p)
         /\ next[p] # -1 /\ missed[p] # -1 => Since(p) \in Nat
  <1>1. Step \in Nat \ {0} /\ MaxDelay \in Nat /\ key \in Nat /\ flight[p] \in -1..MaxDelay
    BY ProcessAssumption DEF Inv, TimeInv
  <1>2. Paced(p) /\ Paces(p)
    BY DEF BeatInv, Paced, Up
  <1>3. Interval(p) \in Nat \ {0}
    BY <1>2, WholeSteps DEF Paces
  <1>4. next[p] # -1 => next[p] \in Nat \ {0} /\ next[p] >= Step /\ next[p] <= Interval(p)
    BY <1>2, WholeSteps DEF Paced
  <1>5. missed[p] # -1 => missed[p] \in Nat /\ missed[p] * Interval(p) \in Nat
    <2> SUFFICES ASSUME missed[p] # -1 PROVE missed[p] \in Nat /\ missed[p] * Interval(p) \in Nat
      OBVIOUS
    <2>1. missed[p] \in Nat
      BY <1>2 DEF Paced
    <2>2. \A m, i \in Nat : m * i \in Nat
      OBVIOUS
    <2> QED
      BY <1>3, <2>1, <2>2
  <1>6. next[p] # -1 /\ missed[p] # -1 => Since(p) \in Nat
    BY <1>1, <1>3, <1>4, <1>5 DEF Since
  <1> QED
    BY <1>1, <1>2, <1>3, <1>4, <1>5, <1>6 DEF Paces, Paced

(* A process that other processes leave alone is in step. *)
LEMMA OthersBeat ==
  ASSUME Inv, BeatInv, NEW p \in Processes, key' \in Nat,
         conf'[p] = conf[p], phase'[p] = phase[p], next'[p] = next[p], due'[p] = due[p],
         flight'[p] = flight[p], missed'[p] = missed[p],
         Unshortened(p)' => Unshortened(p),
         Unshortened(p)' => key' >= key \/ key' >= conf[p].heartbeatTTL
  PROVE  Paced(p)' /\ Fed(p)'
  <1>1. Paced(p) /\ Fed(p)
    BY DEF BeatInv
  <1>2. Paced(p)'
    BY <1>1 DEF Paced, Paces, Interval
  <1>3. Fed(p)'
    <2> SUFFICES ASSUME phase[p] = "running", missed[p] # -1, Unshortened(p)'
                 PROVE  key' + Since(p)' >= conf[p].heartbeatTTL
      BY DEF Fed
    <2>1. Since(p)' = Since(p)
      BY DEF Since, Interval
    <2>2. next[p] # -1 /\ Since(p) \in Nat /\ key \in Nat /\ conf[p].heartbeatTTL \in Nat
      BY <1>1, BeatNumbers DEF Paced
    <2>3. key + Since(p) >= conf[p].heartbeatTTL
      BY <1>1 DEF Fed
    <2> QED
      BY <2>1, <2>2, <2>3
  <1> QED
    BY <1>2, <1>3

(* Before the first start nothing beats. *)
LEMMA InitBeat == Init => BeatInv
  BY DEF Init, BeatInv, Paced, Fed, Up

(* A process that is accepted has an interval of whole steps. *)
LEMMA AcceptedPace ==
  ASSUME RegularBeats, NEW env \in Environments, Accepted(Load(File, env))
  PROVE  LET c == New(Load(File, env))
         IN  /\ c.heartbeatInterval \in Multiples \ {0} /\ MaxDelay <= c.heartbeatInterval
             /\ c.heartbeatTTL \in Nat /\ c.heartbeatInterval < c.heartbeatTTL
  <1>1. "HeartbeatInterval" \in Names
    BY DEF Names, WorkerDefaults
  <1>2. /\ New(Load(File, env)).heartbeatInterval = Load(File, env)["HeartbeatInterval"]
        /\ New(Load(File, env)).heartbeatTTL = Load(File, env)["HeartbeatTTL"]
    BY DEF New
  <1>3. /\ Load(File, env)["HeartbeatInterval"] \in Multiples
        /\ MaxDelay <= Load(File, env)["HeartbeatInterval"]
    BY DEF RegularBeats
  <1>4. /\ Load(File, env)["HeartbeatInterval"] >= 1
        /\ Load(File, env)["HeartbeatTTL"] > Load(File, env)["HeartbeatInterval"]
    BY <1>1 DEF Accepted
  <1>5. New(Load(File, env)).heartbeatTTL \in Nat
    BY AcceptedSettings
  <1>6. Load(File, env)["HeartbeatInterval"] \in Nat
    BY <1>3, WholeSteps
  <1> QED
    BY <1>2, <1>3, <1>4, <1>5, <1>6

(* Time passes for the ticker, the SET and the key alike. *)
LEMMA TickBeat == Inv /\ BeatInv /\ Tick => BeatInv'
  <1> SUFFICES ASSUME Inv, BeatInv, Tick PROVE BeatInv'
    OBVIOUS
  <1>1. UNCHANGED <<conf, phase, missed>>
    BY DEF Tick
  <1>2. DOMAIN next' = Processes /\ DOMAIN due' = Processes /\ DOMAIN missed' = Processes
    BY <1>1 DEF Tick, BeatInv
  <1>3. ASSUME NEW p \in Processes, phase[p] # "running" PROVE Paced(p)' /\ Fed(p)'
    <2>1. due'[p] = due[p] /\ next'[p] = next[p]
      BY <1>3 DEF Tick, Beating, BeatInv, Paced
    <2> QED
      BY <1>1, <1>3, <2>1 DEF BeatInv, Paced, Fed, Paces, Interval
  <1>4. ASSUME NEW p \in Processes, phase[p] = "running" PROVE Paced(p)' /\ Fed(p)'
    <2>1. Paced(p) /\ Fed(p) /\ Paces(p)
      BY <1>4 DEF BeatInv, Paced, Up
    <2>2. /\ Step \in Nat \ {0} /\ MaxDelay \in Nat /\ key \in Nat
          /\ Interval(p) \in Nat \ {0} /\ conf[p].heartbeatTTL \in Nat
          /\ MaxDelay <= Interval(p) /\ flight[p] \in -1..MaxDelay
          /\ missed[p] # -1 => missed[p] \in Nat /\ missed[p] * Interval(p) \in Nat
          /\ next[p] # -1 => next[p] \in Nat \ {0} /\ next[p] >= Step /\ next[p] <= Interval(p)
      BY <1>4, BeatNumbers
    <2>3. /\ key' \in Nat /\ key' >= key - Step
      BY <2>2 DEF Tick, Less
    <2>4. /\ next'[p] = IF next[p] \in 0..Step THEN Interval(p)
                        ELSE IF next[p] > 0 THEN next[p] - Step ELSE next[p]
          /\ due'[p] = (due[p] \/ next[p] \in 0..Step)
          /\ flight'[p] = IF flight[p] >= 0 THEN flight[p] + Step ELSE -1
      BY <1>4 DEF Tick, Beating, Interval
    <2>5. /\ ~(due[p] /\ flight[p] = -1)
          /\ ~(flight[p] >= 0 /\ flight[p] + Step > MaxDelay)
      BY <1>4 DEF Tick, Urgent, Beating
    <2>6. Interval(p)' = Interval(p) /\ (Paces(p)' <=> Paces(p))
      BY <1>1 DEF Interval, Paces
    <2>10. due'[p] \in BOOLEAN /\ (due'[p] <=> (due[p] \/ next[p] \in 0..Step))
      BY <2>4, Zenon
    <2>7. CASE next[p] = -1
      <3>1. /\ next'[p] = -1 /\ due'[p] = due[p] /\ missed'[p] = -1
            /\ due[p] => flight'[p] = -1
        BY <1>1, <1>4, <2>1, <2>2, <2>4, <2>7 DEF Paced
      <3> QED
        BY <1>1, <1>4, <2>1, <2>6, <3>1 DEF Paced, Fed
    <2>8. CASE next[p] # -1
      <3>1. /\ ~due[p] /\ (flight[p] # -1 => flight[p] + next[p] = Interval(p))
            /\ next[p] \in Multiples
        BY <1>4, <2>1, <2>2, <2>5, <2>8 DEF Paced
      <3>2. CASE next[p] = Step
        <4>1. next[p] \in 0..Step
          BY <2>2, <3>2
        <4>6. next'[p] = Interval(p) /\ due'[p] /\ due'[p] \in BOOLEAN
          BY <2>4, <2>10, <4>1, Zenon
        <4>2. flight'[p] # -1 => flight'[p] = Interval(p)
          BY <2>2, <2>4, <2>5, <3>1, <3>2
        <4>3. next'[p] # -1 /\ next'[p] \in Multiples \ {0}
          BY <2>1, <2>2, <4>6 DEF Paces
        <4>4. Paced(p)'
          <5>1. Paces(p)' /\ phase'[p] = "running" /\ missed'[p] \in Nat \cup {-1}
            BY <1>1, <1>4, <2>1, <2>6 DEF Paced
          <5>2. next'[p] <= Interval(p)'
            BY <2>2, <2>6, <4>6
          <5> QED
            BY <2>6, <4>2, <4>3, <4>6, <5>1, <5>2 DEF Paced
        <4>5. Fed(p)'
          <5> SUFFICES ASSUME missed[p] # -1, Unshortened(p)
                       PROVE  key' + Since(p)' >= conf[p].heartbeatTTL
            BY <1>1, <1>4 DEF Fed, Unshortened
          <5>1. key + Since(p) >= conf[p].heartbeatTTL
            BY <1>4, <2>1 DEF Fed
          <5>2. Since(p)' = Since(p) + Step
            BY <1>1, <2>2, <2>4, <2>6, <3>1, <3>2, <4>6 DEF Since
          <5>3. Since(p) \in Nat
            BY <1>4, <2>8, BeatNumbers
          <5> QED
            BY <2>2, <2>3, <5>1, <5>2, <5>3
        <4> QED
          BY <4>4, <4>5
      <3>3. CASE next[p] # Step
        <4>5. next[p] \notin 0..Step /\ next[p] > 0 /\ next[p] - Step \in Nat \ {0}
          BY <2>2, <2>8, <3>3
        <4>6. next[p] - Step \in Multiples
          BY <2>2, <2>8, <3>1, WholeSteps
        <4>7. ~due'[p] /\ due'[p] \in BOOLEAN
          BY <2>10, <3>1, <4>5
        <4>1. /\ next'[p] = next[p] - Step /\ ~due'[p] /\ next'[p] \in Nat \ {0}
              /\ next'[p] \in Multiples
          BY <2>4, <4>5, <4>6, <4>7
        <4>2. flight'[p] # -1 => flight'[p] + next'[p] = Interval(p)
          BY <2>2, <2>4, <3>1, <4>1
        <4>3. Paced(p)'
          <5>1. Paces(p)' /\ phase'[p] = "running" /\ missed'[p] \in Nat \cup {-1}
            BY <1>1, <1>4, <2>1, <2>6 DEF Paced
          <5>2. next'[p] <= Interval(p)' /\ next'[p] # -1
            BY <2>2, <2>6, <4>1
          <5> QED
            BY <2>6, <4>1, <4>2, <4>7, <5>1, <5>2 DEF Paced
        <4>4. Fed(p)'
          <5> SUFFICES ASSUME missed[p] # -1, Unshortened(p)
                       PROVE  key' + Since(p)' >= conf[p].heartbeatTTL
            BY <1>1, <1>4 DEF Fed, Unshortened
          <5>1. key + Since(p) >= conf[p].heartbeatTTL
            BY <1>4, <2>1 DEF Fed
          <5>2. Since(p)' = Since(p) + Step
            BY <1>1, <2>2, <2>4, <2>6, <3>1, <3>3, <4>1 DEF Since
          <5>3. Since(p) \in Nat
            BY <1>4, <2>8, BeatNumbers
          <5> QED
            BY <2>2, <2>3, <5>1, <5>2, <5>3
        <4> QED
          BY <4>3, <4>4
      <3> QED
        BY <3>2, <3>3
    <2> QED
      BY <2>7, <2>8
  <1> QED
    BY <1>2, <1>3, <1>4 DEF BeatInv

(* A SET that begins, that Redis applies or that fails. *)
LEMMA WriteBeat ==
  ASSUME Inv, BeatInv, NEW q \in Processes, Send(q) \/ Apply(q) \/ Fail(q)
  PROVE  BeatInv'
  <1>1. /\ UNCHANGED <<conf, phase>> /\ DOMAIN conf = Processes
        /\ phase \in [Processes -> Phases] /\ flight \in [Processes -> -1..MaxDelay]
        /\ Paced(q) /\ Fed(q)
    BY DEF Send, Apply, Fail, Inv, TimeInv, BeatInv
  <1>2. /\ DOMAIN next' = Processes /\ DOMAIN due' = Processes /\ DOMAIN missed' = Processes
        /\ \A p \in Processes : p # q =>
             next'[p] = next[p] /\ due'[p] = due[p] /\ missed'[p] = missed[p] /\ flight'[p] = flight[p]
    BY <1>1 DEF Send, Apply, Fail, Ticking, BeatInv
  <1>3. \A p \in Processes : /\ Interval(p)' = Interval(p) /\ (Paces(p)' <=> Paces(p))
                             /\ (Unshortened(p)' <=> Unshortened(p))
    BY <1>1 DEF Interval, Paces, Unshortened
  <1>4. key' \in Nat /\ (key' = key \/ (Apply(q) /\ key' = conf[q].heartbeatTTL))
    BY DEF Send, Apply, Fail, Inv, TimeInv, FlightInv, Took
  <1>5. ASSUME NEW p \in Processes, p # q PROVE Paced(p)' /\ Fed(p)'
    <2>1. Unshortened(p)' => key' >= key \/ key' >= conf[p].heartbeatTTL
      <3>1. Apply(q) => conf[q] # Unconfigured
        BY DEF Apply, Inv, FlightInv, Took, Unconfigured
      <3>2. key \in Nat
        BY DEF Inv, TimeInv
      <3> QED
        BY <1>3, <1>4, <3>1, <3>2 DEF Unshortened
    <2> QED
      BY <1>1, <1>2, <1>3, <1>4, <1>5, <2>1, OthersBeat
  <1>6. CASE phase[q] # "running"
    <2>1. due'[q] = due[q] /\ next'[q] = next[q] /\ missed'[q] \in Nat \cup {-1}
          /\ (phase[q] \in {"off", "connecting"} => missed'[q] = -1)
      BY <1>1, <1>6 DEF Send, Apply, Fail, Ticking, Beating, BeatInv, Paced
    <2>2. Paced(q)' /\ Fed(q)'
      BY <1>1, <1>3, <1>6, <2>1 DEF Paced, Fed
    <2> QED
      BY <1>2, <1>5, <2>2 DEF BeatInv
  <1>7. CASE phase[q] = "running"
    <2>1. /\ Step \in Nat \ {0} /\ MaxDelay \in Nat /\ key \in Nat
          /\ Interval(q) \in Nat \ {0} /\ conf[q].heartbeatTTL \in Nat
          /\ MaxDelay <= Interval(q) /\ flight[q] \in -1..MaxDelay
          /\ missed[q] # -1 => missed[q] \in Nat /\ missed[q] * Interval(q) \in Nat
          /\ next[q] # -1 => next[q] \in Nat \ {0} /\ next[q] >= Step /\ next[q] <= Interval(q)
      BY <1>7, BeatNumbers
    <2>2. Paces(q)
      BY <1>1, <1>7 DEF Paced, Up
    <2>3. CASE Send(q)
      <3>1. /\ due[q] /\ flight[q] = -1 /\ due'[q] = FALSE /\ flight'[q] = 0
            /\ next'[q] = next[q] /\ missed'[q] = missed[q] /\ key' = key
        BY <1>1, <2>3 DEF Send, BeatInv
      <3>2. Paced(q)'
        <4>1. phase'[q] = "running" /\ Paces(q)' /\ missed'[q] \in Nat \cup {-1}
              /\ flight'[q] = 0 /\ flight'[q] # -1
          BY <1>1, <1>3, <1>7, <2>2, <3>1 DEF Paced
        <4>4. due'[q] \in BOOLEAN /\ ~due'[q]
          BY <3>1, Zenon
        <4>2. next'[q] = -1 => missed'[q] = -1
          BY <1>1, <1>7, <3>1 DEF Paced
        <4>3. next'[q] # -1 => /\ next'[q] \in Multiples \ {0} /\ next'[q] <= Interval(q)'
                               /\ 0 + next'[q] = Interval(q)'
          BY <1>1, <1>3, <1>7, <2>1, <3>1 DEF Paced
        <4> QED
          BY <4>1, <4>2, <4>3, <4>4 DEF Paced
      <3>3. Since(q)' = Since(q)
        BY <1>3, <3>1 DEF Since
      <3>4. Fed(q)'
        BY <1>1, <1>3, <1>7, <3>1, <3>3 DEF Fed
      <3> QED
        BY <1>2, <1>5, <3>2, <3>4 DEF BeatInv
    <2>4. CASE Apply(q)
      <3>1. /\ flight[q] >= 0 /\ flight'[q] = -1 /\ missed'[q] = 0
            /\ due'[q] = due[q] /\ key' = conf[q].heartbeatTTL
            /\ next'[q] = IF next[q] = -1 THEN Interval(q) ELSE next[q]
        BY <1>1, <1>7, <2>4 DEF Apply, Ticking, Beating, BeatInv, Interval
      <3>2. Paced(q)'
        BY <1>1, <1>3, <1>7, <2>1, <2>2, <3>1 DEF Paced, Paces
      <3>3. Since(q)' >= 0
        <4>1. 0 * Interval(q) = 0 /\ next'[q] \in Nat /\ next'[q] <= Interval(q)
          BY <2>1, <3>1
        <4>2. Since(q)' = 0 + Interval(q) + (IF due[q] THEN 0 ELSE -next'[q])
          BY <1>3, <2>1, <3>1, <4>1 DEF Since
        <4> QED
          BY <2>1, <4>1, <4>2
      <3>4. Since(q)' \in Int
        BY <1>3, <2>1, <3>1 DEF Since
      <3>5. Fed(q)'
        BY <1>1, <2>1, <3>1, <3>3, <3>4 DEF Fed
      <3> QED
        BY <1>2, <1>5, <3>2, <3>5 DEF BeatInv
    <2>5. CASE Fail(q)
      <3>1. /\ flight[q] >= 0 /\ flight'[q] = -1
            /\ missed'[q] = IF missed[q] = -1 THEN -1 ELSE missed[q] + 1
            /\ due'[q] = due[q] /\ key' = key
            /\ next'[q] = IF next[q] = -1 THEN Interval(q) ELSE next[q]
        BY <1>1, <1>7, <2>5 DEF Fail, Ticking, Beating, BeatInv, Interval
      <3>2. Paced(q)'
        BY <1>1, <1>3, <1>7, <2>1, <2>2, <3>1 DEF Paced, Paces
      <3>3. ASSUME missed[q] # -1 PROVE Since(q)' = Since(q)
        <4>1. next[q] # -1 /\ next'[q] = next[q] /\ missed'[q] = missed[q] + 1
          BY <1>1, <1>7, <3>1, <3>3 DEF Paced
        <4>2. (missed[q] + 1) * Interval(q) = missed[q] * Interval(q) + Interval(q)
          BY <2>1, <3>3
        <4>3. flight[q] = IF due[q] THEN Interval(q) ELSE Interval(q) - next[q]
          BY <1>1, <1>7, <2>1, <3>1, <4>1 DEF Paced
        <4>4. Since(q)' = missed[q] * Interval(q) + Interval(q) + Interval(q)
                            + (IF due[q] THEN 0 ELSE -next[q])
          BY <1>3, <3>1, <4>1, <4>2 DEF Since
        <4>5. Since(q) = missed[q] * Interval(q) + Interval(q) + flight[q]
          BY <2>1, <3>1 DEF Since
        <4> QED
          BY <2>1, <3>3, <4>1, <4>3, <4>4, <4>5
      <3>4. Fed(q)'
        BY <1>1, <1>3, <1>7, <2>1, <3>1, <3>3 DEF Fed
      <3> QED
        BY <1>2, <1>5, <3>2, <3>4 DEF BeatInv
    <2> QED
      BY <2>3, <2>4, <2>5
  <1> QED
    BY <1>6, <1>7

(* Every step keeps the heartbeats in step. *)
LEMMA NextBeat == RegularBeats /\ Inv /\ BeatInv /\ [Next]_vars => BeatInv'
  <1> SUFFICES ASSUME RegularBeats, Inv, BeatInv, [Next]_vars PROVE BeatInv'
    OBVIOUS
  <1>0. /\ DOMAIN conf = Processes /\ phase \in [Processes -> Phases]
        /\ flight \in [Processes -> -1..MaxDelay] /\ key \in Nat
    BY DEF Inv, TimeInv
  <1>1. CASE Tick
    BY <1>1, TickBeat
  <1>2. CASE UNCHANGED <<conf, phase, next, due, flight, missed, key>>
    BY <1>2 DEF BeatInv, Paced, Fed, Paces, Interval, Unshortened, Since
  <1>3. ASSUME NEW q \in Processes, Start(q) PROVE BeatInv'
    <2>1. PICK env \in Environments :
            IF Accepted(Load(File, env))
              THEN /\ conf' = [conf EXCEPT ![q] = New(Load(File, env))]
                   /\ phase' = [phase EXCEPT ![q] = "connecting"]
              ELSE phase' = [phase EXCEPT ![q] = "exited"] /\ UNCHANGED conf
      BY <1>3 DEF Start
    <2>2. phase[q] = "off" /\ UNCHANGED <<next, due, flight, missed, key>>
      BY <1>3 DEF Start, beatVars
    <2>3. \A p \in Processes : p # q => phase'[p] = phase[p] /\ conf'[p] = conf[p]
      BY <1>0, <2>1
    <2>4. Paced(q) /\ conf[q] = Unconfigured
      BY <2>2 DEF BeatInv, Paced
    <2>5. ASSUME NEW p \in Processes, p # q PROVE Paced(p)' /\ Fed(p)'
      <3>1. Unshortened(p)' => Unshortened(p)
        BY <2>3, <2>4, <2>5 DEF Unshortened
      <3> QED
        BY <1>0, <2>2, <2>3, <2>5, <3>1, OthersBeat
    <2>6. Paced(q)' /\ Fed(q)'
      <3>1. CASE Accepted(Load(File, env))
        <4>1. phase'[q] = "connecting" /\ conf'[q] = New(Load(File, env))
          BY <1>0, <2>1, <3>1
        <4>2. Paces(q)'
          BY <3>1, <4>1, AcceptedPace DEF Paces, Interval
        <4> QED
          BY <2>2, <2>4, <4>1, <4>2 DEF Paced, Fed
      <3>2. CASE ~Accepted(Load(File, env))
        <4>1. phase'[q] = "exited" /\ conf'[q] = conf[q]
          BY <1>0, <2>1, <3>2
        <4> QED
          BY <2>2, <2>4, <4>1 DEF Paced, Fed, Up
      <3> QED
        BY <3>1, <3>2
    <2> QED
      BY <2>2, <2>5, <2>6 DEF BeatInv
  <1>4. ASSUME NEW q \in Processes, Connect(q) PROVE BeatInv'
    <2>1. /\ UNCHANGED <<conf, next, flight, missed, key>> /\ phase[q] = "connecting"
          /\ phase' = [phase EXCEPT ![q] = "running"] /\ due' = [due EXCEPT ![q] = TRUE]
      BY <1>4 DEF Connect
    <2>2. /\ phase'[q] = "running" /\ due'[q] = TRUE /\ DOMAIN due' = Processes
          /\ \A p \in Processes : p # q => phase'[p] = phase[p] /\ due'[p] = due[p]
      BY <1>0, <2>1 DEF BeatInv
    <2>3. /\ Paced(q) /\ Paces(q) /\ next[q] = -1 /\ missed[q] = -1 /\ flight[q] = -1
      BY <1>0, <2>1, ProcessAssumption DEF BeatInv, Paced, Up, Inv, FlightInv, Gone
    <2>4. \A p \in Processes : /\ Interval(p)' = Interval(p) /\ (Paces(p)' <=> Paces(p))
                               /\ (Unshortened(p)' <=> Unshortened(p))
      BY <2>1 DEF Interval, Paces, Unshortened
    <2>5. ASSUME NEW p \in Processes, p # q PROVE Paced(p)' /\ Fed(p)'
      <3>1. key' \in Nat /\ key' >= key
        BY <1>0, <2>1
      <3>2. next'[p] = next[p] /\ flight'[p] = flight[p] /\ missed'[p] = missed[p] /\ conf'[p] = conf[p]
        BY <2>1
      <3> QED
        BY <2>2, <2>4, <2>5, <3>1, <3>2, OthersBeat
    <2>6. Paced(q)' /\ Fed(q)'
      BY <2>1, <2>2, <2>3, <2>4 DEF Paced, Fed
    <2> QED
      BY <2>1, <2>2, <2>5, <2>6 DEF BeatInv
  <1>5. ASSUME NEW q \in Processes, Signal(q) \/ Return(q) \/ Kill(q) PROVE BeatInv'
    <2>1. /\ UNCHANGED <<conf, flight, key>> /\ phase[q] \in Up
          /\ phase'[q] \in {"exited", "killed", "stopping"}
          /\ \A p \in Processes : p # q => phase'[p] = phase[p]
      BY <1>0, <1>5 DEF Signal, Return, Kill, End, Up
    <2>2. Silence(q)
      BY <1>5, <2>1 DEF Signal, Return, Kill, End, Beating
    <2>3. /\ due'[q] = FALSE /\ missed'[q] = -1
          /\ DOMAIN next' = Processes /\ DOMAIN due' = Processes /\ DOMAIN missed' = Processes
          /\ \A p \in Processes : p # q =>
               next'[p] = next[p] /\ due'[p] = due[p] /\ missed'[p] = missed[p]
      BY <2>2 DEF Silence, BeatInv
    <2>4. \A p \in Processes : /\ Interval(p)' = Interval(p) /\ (Paces(p)' <=> Paces(p))
                               /\ (Unshortened(p)' <=> Unshortened(p))
      BY <2>1 DEF Interval, Paces, Unshortened
    <2>5. \A p \in Processes : p # q => Paced(p)' /\ Fed(p)'
      BY <1>0, <2>1, <2>3, <2>4, OthersBeat
    <2>6. Paced(q)' /\ Fed(q)'
      BY <2>1, <2>3, <2>4 DEF BeatInv, Paced, Fed, Up
    <2> QED
      BY <2>3, <2>5, <2>6 DEF BeatInv
  <1>6. ASSUME NEW q \in Processes, Send(q) \/ Apply(q) \/ Fail(q) PROVE BeatInv'
    BY <1>6, WriteBeat
  <1>7. CASE RedisLost
    <2>1. /\ UNCHANGED <<conf, phase, next, due, flight>>
          /\ missed' = [p \in Processes |-> -1]
      BY <1>7 DEF RedisLost
    <2>2. \A p \in Processes : Interval(p)' = Interval(p) /\ (Paces(p)' <=> Paces(p))
      BY <2>1 DEF Interval, Paces
    <2> QED
      BY <2>1, <2>2 DEF BeatInv, Paced, Fed
  <1>8. ASSUME NEW q \in Processes, NEW l \in DOMAIN loop[q],
               StartJob(q, l) \/ EndJob(q, l) \/ Leave(q, l)
        PROVE  BeatInv'
    BY <1>2, <1>8 DEF StartJob, EndJob, Leave, beatVars
  <1>9. CASE UNCHANGED vars
    BY <1>2, <1>9 DEF vars, beatVars
  <1> QED
    BY <1>1, <1>3, <1>4, <1>5, <1>6, <1>7, <1>8, <1>9 DEF Next

(* heartbeatLoop (worker.go:278-304) keeps the API ready over as many      *)
(* failed writes as fit into the lifetime, whatever other processes do, if *)
(* a write takes no longer than an interval.                               *)
THEOREM RunningMeansReady ==
  ASSUME RegularBeats
  PROVE  Spec => []AliveIsReady
  <1>1. Inv /\ BeatInv => AliveIsReady
    <2> SUFFICES ASSUME Inv, BeatInv, NEW p \in Processes,
                        phase[p] = "running", missed[p] >= 0,
                        Overdue(p) = 0 \/ Overdue(p) < conf[p].heartbeatTTL - conf[p].heartbeatInterval,
                        \A q \in Processes :
                          conf[q] # Unconfigured => conf[q].heartbeatTTL >= conf[p].heartbeatTTL
                 PROVE  Ready
      BY DEF AliveIsReady
    <2>1. Paced(p) /\ Fed(p) /\ Unshortened(p) /\ missed[p] # -1 /\ next[p] # -1
      BY DEF BeatInv, Unshortened, Paced
    <2>2. /\ key \in Nat /\ Interval(p) \in Nat /\ conf[p].heartbeatTTL \in Nat
          /\ Interval(p) < conf[p].heartbeatTTL /\ flight[p] \in -1..MaxDelay /\ MaxDelay \in Nat
          /\ missed[p] * Interval(p) \in Nat /\ next[p] \in Nat
      BY <2>1, BeatNumbers
    <2>3. key + Since(p) >= conf[p].heartbeatTTL
      BY <2>1 DEF Fed
    <2>4. Since(p) <= Overdue(p) + Interval(p) /\ Since(p) \in Int /\ Overdue(p) \in Int
      BY <2>2 DEF Since, Overdue, Interval
    <2>5. Overdue(p) + Interval(p) < conf[p].heartbeatTTL
      BY <2>2, <2>4 DEF Interval
    <2> QED
      BY <2>2, <2>3, <2>4, <2>5 DEF Ready
  <1>2. BeatInv /\ Inv /\ [Next]_vars => BeatInv'
    BY NextBeat
  <1> QED
    BY InitInv, NextInv, InitBeat, <1>1, <1>2, PTL DEF Spec

-----------------------------------------------------------------------------
(***************************************************************************)
(* The call of the parser that a job makes, for any answers of the AI in   *)
(* any number of pieces.                                                   *)
(*                                                                         *)
(* The text collected is the pieces of this attempt that have arrived, in  *)
(* order (Collected), so it decodes only if it is all of one answer; and   *)
(* as long as the call goes on no whole answer has arrived (Undecided).    *)
(***************************************************************************)
\* What the builder of the attempt holds.
Collected ==
  step = "stream" =>
    /\ doc \in Answers \cup {Garbage}
    /\ received \in 0..Pieces /\ ~closed
    /\ output = [i \in 1..received |-> <<doc, i>>]

\* An attempt that is not the last one has not returned anything.
Undecided ==
  /\ step \in {"idle", "call", "stream", "delay"} =>
       ~Whole /\ outcome = [error |-> None, doc |-> None]
  /\ step \in {"call", "stream"} => attempt \in {1, 2}

CallInv ==
  /\ step \in {"idle", "call", "stream", "delay", "done"}
  /\ Collected /\ Undecided /\ AnswerIsWhole

-----------------------------------------------------------------------------
(* Before the first attempt nothing has been sent. *)
LEMMA InitCall == ContentInit => CallInv
  BY AnswerAssumption DEF ContentInit, CallInit, CallInv, Collected, Undecided, Whole, AnswerIsWhole

(* A text decodes if and only if it is all of an answer. *)
LEMMA DecodesWhole ==
  ASSUME NEW d \in Answers \cup {Garbage}, NEW n \in 0..Pieces, NEW text,
         text = [i \in 1..n |-> <<d, i>>]
  PROVE  /\ Decodes(text) <=> n = Pieces /\ d # Garbage
         /\ Decodes(text) => text[1][1] = d
  <1>1. Pieces \in Nat \ {0} /\ n \in Nat
    BY AnswerAssumption
  <1>2. DOMAIN text = 1..n
    OBVIOUS
  <1>3. CASE n = Pieces
    <2>1. text[1] = <<d, 1>> /\ text[1][1] = d
      BY <1>1, <1>3
    <2>2. text # <<>>
      <3>1. 1 \in DOMAIN text
        BY <1>1, <1>2, <1>3
      <3>2. DOMAIN <<>> = {}
        OBVIOUS
      <3> QED
        BY <3>1, <3>2, Zenon
    <2>3. text = [i \in 1..Pieces |-> <<text[1][1], i>>]
      BY <1>3, <2>1
    <2>4. Decodes(text) <=> text[1][1] # Garbage
      BY <2>2, <2>3 DEF Decodes
    <2> QED
      BY <1>3, <2>1, <2>4
  <1>4. CASE n # Pieces
    <2>1. 1..n # 1..Pieces
      BY <1>1, <1>4
    <2>2. text # [i \in 1..Pieces |-> <<text[1][1], i>>]
      BY <1>2, <2>1
    <2> QED
      BY <1>4, <2>2 DEF Decodes
  <1> QED
    BY <1>3, <1>4

(* An attempt that fails has not got a whole answer. *)
LEMMA FailsKeeps ==
  ASSUME CallInv, NEW error \in {"timeout", "network", "busy", "refused", "invalid"},
         NEW retryable \in BOOLEAN, error \in {"network", "busy", "invalid"} => retryable \/ expired,
         step \in {"call", "stream"}, Fails(error, retryable), ~Whole'
  PROVE  CallInv'
  BY AnswerAssumption DEF Fails, CallInv, Collected, Undecided, AnswerIsWhole

(* Every step of a call keeps what is known of it. *)
LEMMA CallStep == CallInv /\ CallNext => CallInv'
  <1> SUFFICES ASSUME CallInv, CallNext PROVE CallInv'
    OBVIOUS
  <1> USE AnswerAssumption DEF CallInv, Collected, Undecided
  <1>1. CASE Begin \/ Expire \/ Again
    BY <1>1 DEF Begin, Expire, Again, Whole, AnswerIsWhole
  <1>2. CASE NoResponse
    <2>1. ~Whole' /\ step = "call"
      BY <1>2 DEF NoResponse, Whole
    <2> QED
      BY <1>2, <2>1, FailsKeeps DEF NoResponse
  <1>3. CASE ErrorStatus
    <2>1. ~Whole' /\ step = "call"
      BY <1>3 DEF ErrorStatus, Whole
    <2> QED
      BY <1>3, <2>1, FailsKeeps DEF ErrorStatus
  <1>4. CASE Answered
    BY <1>4 DEF Answered, Whole, AnswerIsWhole
  <1>5. CASE Delta
    <2>1. received + 1 \in 0..Pieces
      BY <1>5 DEF Delta
    <2>2. output' = [i \in 1..(received + 1) |-> <<doc, i>>]
      <3>1. received \in Nat /\ output = [i \in 1..received |-> <<doc, i>>]
        BY <1>5 DEF Delta
      <3>2. output \in Seq({doc} \X Nat) /\ Len(output) = received
        BY <3>1
      <3>3. output' = Append(output, <<doc, received + 1>>)
        BY <1>5 DEF Delta
      <3> QED
        BY <3>1, <3>2, <3>3
    <2> QED
      BY <1>5, <2>1, <2>2 DEF Delta, Whole, AnswerIsWhole
  <1>6. CASE Broken
    <2>1. ~Whole' /\ step = "stream"
      BY <1>6 DEF Broken, Whole
    <2> QED
      BY <1>6, <2>1, FailsKeeps DEF Broken
  <1>7. CASE Completed
    <2>1. /\ Decodes(output) <=> received = Pieces /\ doc # Garbage
          /\ Decodes(output) => output[1][1] = doc
      BY <1>7, DecodesWhole DEF Completed
    <2>2. CASE Decodes(output) /\ ValidAnswer(output[1][1])
      <3>1. Whole'
        BY <1>7, <2>1, <2>2 DEF Completed, Whole
      <3>2. step' = "done" /\ outcome' = [error |-> None, doc |-> Normal(doc)]
        BY <1>7, <2>1, <2>2 DEF Completed
      <3> QED
        BY <1>7, <3>1, <3>2 DEF Completed, AnswerIsWhole
    <2>3. CASE ~(Decodes(output) /\ ValidAnswer(output[1][1]))
      <3>1. ~Whole' /\ step = "stream"
        BY <1>7, <2>1, <2>3 DEF Completed, Whole
      <3> QED
        BY <1>7, <2>3, <3>1, FailsKeeps DEF Completed
    <2> QED
      BY <2>2, <2>3
  <1>8. CASE GiveUp
    BY <1>8 DEF GiveUp, Whole, AnswerIsWhole
  <1> QED
    BY <1>1, <1>2, <1>3, <1>4, <1>5, <1>6, <1>7, <1>8 DEF CallNext

(* What is done with the answer does not touch the call. *)
LEMMA NextCall == CallInv /\ [ContentNext]_contentVars => CallInv'
  <1> SUFFICES ASSUME CallInv, [ContentNext]_contentVars PROVE CallInv'
    OBVIOUS
  <1>1. CASE Parse
    BY <1>1, CallStep DEF Parse
  <1>2. CASE UNCHANGED callVars
    BY <1>2 DEF callVars, CallInv, Collected, Undecided, Whole, AnswerIsWhole
  <1>3. \/ Parse \/ UNCHANGED callVars
    BY DEF ContentNext, contentVars, completeJob, Get, Update, Confirm, Create, EditProject, EditTask
  <1> QED
    BY <1>1, <1>2, <1>3

(* Parse (parser.go:84-182) returns an answer exactly if the last attempt  *)
(* got all of a valid one.                                                 *)
THEOREM WholeAnswersOnly ==
  ContentSpec => []AnswerIsWhole
  <1>1. CallInv => AnswerIsWhole
    BY DEF CallInv
  <1>2. ContentInit => CallInv
    BY InitCall
  <1>3. CallInv /\ [ContentNext]_contentVars => CallInv'
    BY NextCall
  <1> QED
    BY <1>1, <1>2, <1>3, PTL DEF ContentSpec

-----------------------------------------------------------------------------
(* The items of a document, of which the first of equal ones stays. *)

(* A set of places that is not empty has a first one. *)
LEMMA FirstPlace ==
  ASSUME NEW S \in SUBSET Nat, S # {}
  PROVE  \E x \in S : \A y \in S : x <= y
  <1> DEFINE Before == {ss \in Nat \X Nat : ss[1] < ss[2]}
  <1>1. IsWellFoundedOn(Before, Nat)
    BY NatLessThanWellFounded, Zenon DEF OpToRel
  <1>2. PICK x \in S : \A y \in S : ~(<<y, x>> \in Before)
    BY <1>1, WFMin
  <1>3. ASSUME NEW y \in S PROVE x <= y
    <2>1. x \in Nat /\ y \in Nat
      OBVIOUS
    <2>2. ~(y < x)
      BY <1>2, <2>1
    <2> QED
      BY <2>1, <2>2
  <1> QED
    BY <1>3

(* Every number up to the cardinality of a set is the rank of a member. *)
LEMMA EveryRank ==
  ASSUME NEW n \in Nat, NEW S \in SUBSET (1..n)
  PROVE  \A k \in 1..Cardinality(S) : \E i \in S : Cardinality({j \in S : j <= i}) = k
  <1> DEFINE UpTo(i) == {j \in S : j <= i}
             Missing == {k \in 1..Cardinality(S) : \A i \in S : Cardinality(UpTo(i)) # k}
  <1>1. IsFiniteSet(S) /\ Cardinality(S) \in Nat /\ \A j \in S : j \in Nat /\ j > 0
    <2>1. IsFiniteSet(1..n)
      BY FS_Interval
    <2>2. IsFiniteSet(S) /\ Cardinality(S) \in Nat
      BY <2>1, FS_Subset, FS_CardinalityType
    <2>3. ASSUME NEW j \in S PROVE j \in Nat /\ j > 0
      <3>1. j \in 1..n
        OBVIOUS
      <3> QED
        BY <3>1
    <2> QED
      BY <2>2, <2>3
  <1>2. ASSUME NEW i \in Nat PROVE IsFiniteSet(UpTo(i)) /\ Cardinality(UpTo(i)) \in Nat
    <2>1. UpTo(i) \in SUBSET S
      OBVIOUS
    <2> QED
      BY <1>1, <2>1, FS_Subset, FS_CardinalityType
  <1>3. SUFFICES ASSUME Missing # {} PROVE FALSE
    OBVIOUS
  <1>4. PICK k \in Missing : \A m \in Missing : k <= m
    <2>1. Missing \in SUBSET Nat
      BY <1>1
    <2> QED
      BY <1>3, <2>1, FirstPlace
  \* The member of the rank before, or the place before the first.
  <1>5. PICK b \in Nat : Cardinality(UpTo(b)) = k - 1
    <2>1. CASE k = 1
      <3>1. ASSUME NEW j \in UpTo(0) PROVE FALSE
        BY <1>1
      <3>2. UpTo(0) = {}
        BY <3>1
      <3>3. Cardinality(UpTo(0)) = k - 1
        BY <2>1, <3>2, FS_EmptySet
      <3> HIDE DEF UpTo
      <3> QED
        BY <3>3
    <2>2. CASE k # 1
      <3>1. k - 1 \in 1..Cardinality(S) /\ k - 1 \notin Missing
        BY <1>1, <1>4, <2>2
      <3> QED
        BY <3>1
    <2> QED
      BY <2>1, <2>2
  <1> DEFINE Above == {j \in S : j > b}
  <1>6. Above # {}
    <2>1. SUFFICES ASSUME Above = {} PROVE FALSE
      OBVIOUS
    <2>2. UpTo(b) = S
      <3>1. ASSUME NEW j \in S PROVE j <= b
        <4>1. ~(j > b)
          BY <2>1
        <4> QED
          BY <1>1, <4>1
      <3> QED
        BY <3>1
    <2>3. Cardinality(S) = k - 1
      BY <1>5, <2>2, Zenon
    <2> QED
      BY <1>1, <1>4, <2>3
  <1>7. PICK i \in Above : \A j \in Above : i <= j
    <2>1. Above \in SUBSET Nat
      BY <1>1
    <2> QED
      BY <1>6, <2>1, FirstPlace
  <1>8. UpTo(i) = UpTo(b) \cup {i} /\ i \notin UpTo(b)
    <2>1. i \in Nat /\ i \in S /\ i > b
      BY <1>1, <1>7
    <2>2. ASSUME NEW j \in S PROVE j <= i <=> j <= b \/ j = i
      <3>1. j \in Nat /\ (j > b => i <= j)
        BY <1>1, <1>7
      <3> QED
        BY <2>1, <3>1
    <2>3. b < i
      BY <2>1
    <2>4. ASSUME NEW j PROVE j \in UpTo(i) <=> j \in UpTo(b) \cup {i}
      <3>1. CASE j \in S
        BY <2>1, <2>2, <3>1
      <3>2. CASE j \notin S
        BY <2>1, <3>2
      <3> QED
        BY <3>1, <3>2
    <2>5. i \notin UpTo(b)
      BY <2>1, <2>3
    <2> HIDE DEF UpTo
    <2> QED
      BY <2>4, <2>5
  <1> HIDE DEF UpTo
  <1>9. Cardinality(UpTo(i)) = k
    BY <1>1, <1>2, <1>4, <1>5, <1>8, FS_AddElement
  <1> QED
    BY <1>4, <1>7, <1>9

(* What Distinct keeps: all of it comes from the sequence, nothing comes   *)
(* twice, and a sequence in which nothing does stays as it is.             *)
LEMMA DistinctKeeps ==
  ASSUME NEW Items, NEW seq \in Seq(Items)
  PROVE  /\ Distinct(seq) \in Seq(Items)
         /\ Len(Distinct(seq)) <= Len(seq)
         /\ \A k \in DOMAIN Distinct(seq) : \E i \in DOMAIN seq : Distinct(seq)[k] = seq[i]
         /\ \A k, m \in DOMAIN Distinct(seq) :
              k # m => Distinct(seq)[k] # Distinct(seq)[m]
         /\ (\A k, m \in DOMAIN seq : k # m => seq[k] # seq[m]) => Distinct(seq) = seq
  <1> DEFINE n == Len(seq)
             First == Firsts(seq)
             rank(i) == Cardinality({j \in First : j <= i})
             place(k) == CHOOSE i \in First : rank(i) = k
  <1>1. n \in Nat /\ DOMAIN seq = 1..n
    OBVIOUS
  <1>a. First \in SUBSET (1..n)
    BY <1>1 DEF Firsts
  <1>2. IsFiniteSet(First) /\ Cardinality(First) \in Nat /\ Cardinality(First) <= n
    <2>1. IsFiniteSet(1..n) /\ Cardinality(1..n) = n
      BY <1>1, FS_Interval
    <2> HIDE DEF First, n
    <2> QED
      BY <1>a, <2>1, FS_Subset, FS_CardinalityType
  <1>3. Distinct(seq) = [k \in 1..Cardinality(First) |-> seq[place(k)]]
    <2>1. Distinct(seq) = [k \in 1..Cardinality(First) |-> seq[place(k)]]
      BY DEF Distinct
    <2> HIDE DEF place
    <2> QED
      BY <2>1
  <1> HIDE DEF n, First
  <1>4. ASSUME NEW k \in 1..Cardinality(First) PROVE place(k) \in First /\ rank(place(k)) = k
    <2>1. PICK i \in First : Cardinality({j \in First : j <= i}) = k
      BY <1>1, <1>a, EveryRank
    <2>2. rank(i) = k
      BY <2>1, Zenon
    <2> HIDE DEF rank
    <2> QED
      BY <2>2
  <1>5. Distinct(seq) \in Seq(Items) /\ Len(Distinct(seq)) = Cardinality(First)
    <2>1. ASSUME NEW k \in 1..Cardinality(First) PROVE seq[place(k)] \in Items
      <3>1. place(k) \in 1..n
        BY <1>a, <1>4
      <3>2. \A i \in 1..n : seq[i] \in Items
        BY <1>1
      <3> QED
        BY <3>1, <3>2
    <2> HIDE DEF place
    <2> QED
      BY <1>2, <1>3, <2>1
  <1>6. ASSUME NEW k \in 1..Cardinality(First), NEW m \in 1..Cardinality(First), k # m
        PROVE  seq[place(k)] # seq[place(m)]
    <2> DEFINE p == place(k)
               q == place(m)
    <2>1. p \in First /\ q \in First /\ p # q
      BY <1>4, <1>6
    <2> HIDE DEF p, q
    <2>2. p \in 1..n /\ q \in 1..n /\ (p < q \/ q < p)
      BY <1>1, <1>a, <2>1
    <2>3. seq[p] # seq[q]
      BY <2>1, <2>2 DEF Firsts, First
    <2> QED
      BY <2>3 DEF p, q
  <1>7. ASSUME \A k, m \in DOMAIN seq : k # m => seq[k] # seq[m]
        PROVE  Distinct(seq) = seq
    <2>1. First = 1..n
      BY <1>1, <1>7 DEF First, Firsts
    <2>2. Cardinality(First) = n
      BY <1>1, <2>1, FS_Interval
    <2>3. ASSUME NEW i \in 1..n PROVE rank(i) = i
      <3>1. {j \in First : j <= i} = 1..i
        BY <1>1, <2>1
      <3>2. Cardinality(1..i) = i
        BY <1>1, FS_Interval
      <3> QED
        BY <3>1, <3>2, Zenon
    <2>4. ASSUME NEW k \in 1..n PROVE place(k) = k
      BY <1>4, <2>1, <2>2, <2>3
    <2>5. seq = [k \in 1..n |-> seq[k]]
      BY <1>1
    <2> HIDE DEF place
    <2> QED
      BY <1>3, <2>2, <2>4, <2>5
  <1>8. DOMAIN Distinct(seq) = 1..Cardinality(First)
    BY <1>3
  <1>9. ASSUME NEW k \in DOMAIN Distinct(seq)
        PROVE  \E i \in DOMAIN seq : Distinct(seq)[k] = seq[i]
    <2>1. place(k) \in DOMAIN seq
      BY <1>1, <1>a, <1>4, <1>8
    <2> HIDE DEF place
    <2> QED
      BY <1>3, <1>8, <2>1
  <1>10. ASSUME NEW k \in DOMAIN Distinct(seq), NEW m \in DOMAIN Distinct(seq), k # m
         PROVE  Distinct(seq)[k] # Distinct(seq)[m]
    <2>1. seq[place(k)] # seq[place(m)]
      BY <1>6, <1>8, <1>10
    <2> HIDE DEF place
    <2> QED
      BY <1>3, <1>8, <2>1
  <1>11. Len(Distinct(seq)) <= Len(seq)
    BY <1>2, <1>5 DEF n
  <1> HIDE DEF place
  <1> QED
    BY <1>5, <1>7, <1>9, <1>10, <1>11, Zenon

-----------------------------------------------------------------------------
(* What is accepted of a text, a task, a list and a document, and what is  *)
(* made of it: once it has been trimmed and cleared of duplicates, every   *)
(* rule lets it pass and leaves it alone.                                  *)

CONSTANT PriorityTexts   \* what may stand in the place of a priority

AnyText == [chars : Nat, padded : BOOLEAN]

AnyTask == [title : AnyText, description : AnyText \cup {None}, priority : PriorityTexts]

AnyDoc == [title : AnyText, summary : AnyText,
           items : Seq(AnyText) \cup {None}, tasks : Seq(AnyTask) \cup {None}]

AnyRow == [content : AnyDoc, version : Nat, confirmed : BOOLEAN]

AnyProject == [description : AnyText \cup {None}, tasks : Seq(AnyTask), version : Nat]

\* The AI and the users send documents of the schema, and null is no text,
\* list, row or project.
ShapesOK ==
  /\ Answers \subseteq AnyDoc /\ Texts \subseteq AnyText
  /\ ItemLists \subseteq Seq(AnyText) \cup {None} /\ TaskLists \subseteq Seq(AnyTask) \cup {None}
  /\ None \notin AnyText \cup Seq(AnyText) \cup Seq(AnyTask)
  /\ None \notin AnyDoc \cup AnyRow \cup AnyProject
  /\ Priorities \subseteq PriorityTexts /\ MaxItems \in Nat

Clean(text, limit) == text \in AnyText /\ ~text.padded /\ Fits(text, limit)

CleanTask(task) ==
  /\ task \in AnyTask
  /\ Clean(task.title, TitleChars)
  /\ task.description # None => Clean(task.description, DescriptionChars)
  /\ task.priority \in Priorities

CleanTasks(tasks) ==
  /\ tasks \in Seq(AnyTask) /\ Len(tasks) <= MaxTasks
  /\ \A i \in DOMAIN tasks : CleanTask(tasks[i])

CleanItems(items) ==
  /\ items \in Seq(AnyText) /\ Len(items) <= MaxItems
  /\ \A i \in DOMAIN items : Clean(items[i], ItemChars)
  /\ \A i, j \in DOMAIN items : i # j => items[i] # items[j]

CleanDoc(content) ==
  /\ content \in AnyDoc
  /\ Clean(content.title, TitleChars) /\ Clean(content.summary, SummaryChars)
  /\ CleanItems(content.items) /\ CleanTasks(content.tasks)

(* A text. *)
LEMMA CleanText ==
  ASSUME NEW text \in AnyText, NEW limit
  PROVE  /\ Fits(text, limit) => Clean(Trim(text), limit)
         /\ Clean(text, limit) => Fits(text, limit) /\ Trim(text) = text
  BY DEF AnyText, Clean, Fits, Trim

(* A task that fits is clean once it is trimmed. *)
LEMMA TaskCleaned ==
  ASSUME ShapesOK, NEW task \in AnyTask, TaskFits(task)
  PROVE  CleanTask(TrimTask(task))
  <1> DEFINE new == TrimTask(task)
  <1>1. /\ new \in AnyTask
        /\ new.title = Trim(task.title) /\ new.priority = task.priority
        /\ new.description = IF task.description = None THEN None ELSE Trim(task.description)
    BY DEF AnyTask, AnyText, TrimTask, Trim
  <1>2. task.title \in AnyText /\ task.description \in AnyText \cup {None}
    BY DEF AnyTask
  <1>3. Clean(new.title, TitleChars)
    BY <1>1, <1>2, CleanText DEF TaskFits
  <1>4. new.description # None => Clean(new.description, DescriptionChars)
    BY <1>1, <1>2, CleanText DEF TaskFits
  <1> QED
    BY <1>1, <1>3, <1>4 DEF CleanTask, TaskFits

(* A clean task fits, has a priority and is not changed by trimming. *)
LEMMA TaskClean ==
  ASSUME NEW task, CleanTask(task)
  PROVE  /\ TaskFits(task) /\ TrimTask(task) = task
         /\ WithPriority(task) = task
  <1>1. /\ task \in AnyTask
        /\ task.title \in AnyText /\ task.description \in AnyText \cup {None}
    BY DEF CleanTask, AnyTask
  <1>2. Fits(task.title, TitleChars) /\ Trim(task.title) = task.title
    BY <1>1, CleanText DEF CleanTask
  <1>3. task.description # None =>
          /\ Fits(task.description, DescriptionChars)
          /\ Trim(task.description) = task.description
    BY <1>1, CleanText DEF CleanTask
  <1>4. task.priority # ""
    BY DEF CleanTask, Priorities
  <1>5. task = [title |-> task.title, description |-> task.description, priority |-> task.priority]
    BY <1>1 DEF AnyTask
  <1>6. TaskFits(task)
    BY <1>2, <1>3 DEF TaskFits, CleanTask
  <1>7. TrimTask(task) = task
    BY <1>1, <1>2, <1>3, <1>5 DEF TrimTask, AnyTask
  <1>8. WithPriority(task) = task
    BY <1>1, <1>4 DEF WithPriority, AnyTask
  <1> QED
    BY <1>6, <1>7, <1>8

(* The tasks of a document that are accepted are clean once normalized. *)
LEMMA TasksCleaned ==
  ASSUME ShapesOK, NEW tasks \in Seq(AnyTask), TasksFit(tasks)
  PROVE  CleanTasks(NormalTasks(tasks))
  <1> DEFINE new == NormalTasks(tasks)
  <1>1. ASSUME NEW i \in DOMAIN tasks PROVE new[i] = TrimTask(tasks[i]) /\ CleanTask(new[i])
    <2>1. new[i] = TrimTask(tasks[i])
      BY DEF NormalTasks
    <2>2. tasks[i] \in AnyTask /\ TaskFits(tasks[i])
      BY DEF TasksFit
    <2> HIDE DEF new
    <2> QED
      BY <2>1, <2>2, TaskCleaned
  <1>2. DOMAIN new = 1..Len(tasks) /\ DOMAIN tasks = 1..Len(tasks) /\ Len(tasks) \in Nat
    BY DEF NormalTasks
  <1>3. new = [i \in 1..Len(tasks) |-> new[i]]
    BY DEF NormalTasks
  <1> HIDE DEF new
  <1>4. new \in Seq(AnyTask) /\ Len(new) = Len(tasks)
    BY <1>1, <1>2, <1>3 DEF CleanTask
  <1>5. CleanTasks(new)
    BY <1>1, <1>2, <1>4 DEF CleanTasks, TasksFit
  <1> QED
    BY <1>5 DEF new

(* Clean tasks are accepted with their priorities and do not change. *)
LEMMA TasksClean ==
  ASSUME ShapesOK, NEW tasks, CleanTasks(tasks)
  PROVE  /\ WithPriorities(tasks) = tasks /\ TasksFit(tasks)
         /\ ValidTasks(tasks)
         /\ NormalTasks(tasks) = tasks /\ ProjectTasks(tasks) = tasks
  <1>1. tasks \in Seq(AnyTask) /\ tasks # None /\ Len(tasks) <= MaxTasks
    BY DEF CleanTasks, ShapesOK
  <1>2. ASSUME NEW i \in DOMAIN tasks
        PROVE  /\ TaskFits(tasks[i]) /\ TrimTask(tasks[i]) = tasks[i]
               /\ WithPriority(tasks[i]) = tasks[i]
    BY TaskClean DEF CleanTasks
  <1>3. tasks = [i \in DOMAIN tasks |-> tasks[i]]
    BY <1>1
  <1>4. WithPriorities(tasks) = tasks
    BY <1>1, <1>2, <1>3 DEF WithPriorities
  <1>5. NormalTasks(tasks) = tasks
    BY <1>2, <1>3 DEF NormalTasks
  <1>6. TasksFit(tasks)
    BY <1>1, <1>2 DEF TasksFit
  <1> QED
    BY <1>4, <1>5, <1>6 DEF ValidTasks, ProjectTasks

(* A list that is accepted is clean once normalized. *)
LEMMA ItemsCleaned ==
  ASSUME ShapesOK, NEW items \in Seq(AnyText), ItemsFit(items)
  PROVE  CleanItems(NormalItems(items))
  <1> DEFINE trimmed == TrimAll(items)
             new == NormalItems(items)
  <1>1. DOMAIN items = 1..Len(items) /\ Len(items) \in Nat
    OBVIOUS
  <1>2. ASSUME NEW i \in DOMAIN items PROVE Clean(trimmed[i], ItemChars)
    <2>1. trimmed[i] = Trim(items[i])
      BY DEF TrimAll
    <2>2. items[i] \in AnyText /\ Fits(items[i], ItemChars)
      BY DEF ItemsFit
    <2> HIDE DEF trimmed
    <2> QED
      BY <2>1, <2>2, CleanText
  <1>3. DOMAIN trimmed = 1..Len(items) /\ trimmed = [i \in 1..Len(items) |-> trimmed[i]]
    BY <1>1 DEF TrimAll
  <1>4. new = Distinct(trimmed)
    BY DEF NormalItems
  <1> HIDE DEF trimmed, new
  <1>5. trimmed \in Seq(AnyText) /\ Len(trimmed) = Len(items)
    BY <1>1, <1>2, <1>3 DEF Clean
  <1>6. /\ new \in Seq(AnyText) /\ Len(new) <= Len(trimmed)
        /\ \A k \in DOMAIN new : \E i \in DOMAIN trimmed : new[k] = trimmed[i]
        /\ \A k, m \in DOMAIN new : k # m => new[k] # new[m]
    BY <1>4, <1>5, DistinctKeeps
  <1>7. Len(new) <= MaxItems
    BY <1>1, <1>5, <1>6 DEF ItemsFit, ShapesOK
  <1>8. \A k \in DOMAIN new : Clean(new[k], ItemChars)
    BY <1>1, <1>2, <1>3, <1>6
  <1>9. CleanItems(new)
    BY <1>6, <1>7, <1>8, Zenon DEF CleanItems
  <1> QED
    BY <1>9 DEF new

(* A clean list is accepted and does not change. *)
LEMMA ItemsClean ==
  ASSUME ShapesOK, NEW items, CleanItems(items)
  PROVE  ItemsFit(items) /\ NormalItems(items) = items
  <1>1. items \in Seq(AnyText) /\ items # None /\ Len(items) <= MaxItems
    BY DEF CleanItems, ShapesOK
  <1>2. ASSUME NEW i \in DOMAIN items
        PROVE  Fits(items[i], ItemChars) /\ Trim(items[i]) = items[i]
    BY <1>1, CleanText DEF CleanItems, Clean
  <1>3. items = [i \in DOMAIN items |-> items[i]]
    BY <1>1
  <1>4. TrimAll(items) = items
    BY <1>2, <1>3 DEF TrimAll
  <1>5. Distinct(items) = items
    BY <1>1, DistinctKeeps DEF CleanItems
  <1> QED
    BY <1>1, <1>2, <1>4, <1>5 DEF ItemsFit, NormalItems

(* The answer of the AI, clean once it is normalized. *)
LEMMA AnswerCleaned ==
  ASSUME ShapesOK, NEW content \in AnyDoc, ValidAnswer(content)
  PROVE  CleanDoc(Normal(content))
  <1> DEFINE new == Normal(content)
  <1>1. /\ content.title \in AnyText /\ content.summary \in AnyText
        /\ content.items \in Seq(AnyText) /\ content.tasks \in Seq(AnyTask)
    BY DEF AnyDoc, ValidAnswer, ItemsFit, TasksFit
  <1>2. new = [title |-> Trim(content.title), summary |-> Trim(content.summary),
               items |-> NormalItems(content.items), tasks |-> NormalTasks(content.tasks)]
    BY DEF Normal
  <1> HIDE DEF new
  <1>3. Clean(new.title, TitleChars) /\ Clean(new.summary, SummaryChars)
    BY <1>1, <1>2, CleanText DEF ValidAnswer
  <1>4. CleanItems(new.items) /\ CleanTasks(new.tasks)
    BY <1>1, <1>2, ItemsCleaned, TasksCleaned DEF ValidAnswer
  <1>5. new \in AnyDoc
    BY <1>2, <1>3, <1>4 DEF AnyDoc, Clean, CleanItems, CleanTasks
  <1>6. CleanDoc(new)
    BY <1>3, <1>4, <1>5 DEF CleanDoc
  <1> QED
    BY <1>6 DEF new

(* An edit that is accepted is clean once it is normalized.  What is       *)
(* checked and stored are the tasks with their priorities.                 *)
LEMMA UpdateCleaned ==
  ASSUME ShapesOK, NEW edit \in AnyDoc, ValidUpdate(edit)
  PROVE  CleanDoc(NormalUpdate(edit))
  <1> DEFINE full == [edit EXCEPT !.tasks = WithPriorities(@)]
  <1>1. edit.tasks \in Seq(AnyTask)
    BY DEF AnyDoc, ValidUpdate, TasksFit, WithPriorities
  <1>2. ASSUME NEW task \in AnyTask PROVE WithPriority(task) \in AnyTask
    <2>1. "medium" \in PriorityTexts
      BY DEF ShapesOK, Priorities
    <2>2. (IF task.priority = "" THEN "medium" ELSE task.priority) \in PriorityTexts
      BY <2>1 DEF AnyTask
    <2>3. WithPriority(task) = [task EXCEPT !.priority = IF task.priority = "" THEN "medium" ELSE task.priority]
      BY DEF WithPriority
    <2> QED
      BY <2>2, <2>3 DEF AnyTask
  <1>3. WithPriorities(edit.tasks) = [i \in DOMAIN edit.tasks |-> WithPriority(edit.tasks[i])]
    BY <1>1 DEF WithPriorities, ShapesOK
  <1>4. WithPriorities(edit.tasks) \in Seq(AnyTask)
    BY <1>1, <1>2, <1>3
  <1>5. /\ full \in AnyDoc
        /\ full.title = edit.title /\ full.summary = edit.summary /\ full.items = edit.items
        /\ full.tasks = WithPriorities(edit.tasks)
    BY <1>4 DEF AnyDoc
  <1>6. NormalUpdate(edit) = Normal(full)
    BY DEF NormalUpdate
  <1> HIDE DEF full
  <1>7. ValidAnswer(full)
    BY <1>5 DEF ValidUpdate, ValidAnswer
  <1> QED
    BY <1>5, <1>6, <1>7, AnswerCleaned

(* A clean document can be saved as it is and does not change by that. *)
LEMMA DocClean ==
  ASSUME ShapesOK, NEW content, CleanDoc(content)
  PROVE  /\ ValidUpdate(content) /\ NormalUpdate(content) = content
         /\ ValidTasks(content.tasks) /\ ProjectTasks(content.tasks) = content.tasks
  <1>1. /\ content \in AnyDoc /\ content.title \in AnyText /\ content.summary \in AnyText
        /\ content = [title |-> content.title, summary |-> content.summary,
                      items |-> content.items, tasks |-> content.tasks]
    BY DEF CleanDoc, AnyDoc
  <1>2. /\ Fits(content.title, TitleChars) /\ Trim(content.title) = content.title
        /\ Fits(content.summary, SummaryChars) /\ Trim(content.summary) = content.summary
    BY <1>1, CleanText DEF CleanDoc
  <1>3. ItemsFit(content.items) /\ NormalItems(content.items) = content.items
    BY ItemsClean DEF CleanDoc
  <1>4. /\ WithPriorities(content.tasks) = content.tasks /\ TasksFit(content.tasks)
        /\ ValidTasks(content.tasks)
        /\ NormalTasks(content.tasks) = content.tasks
        /\ ProjectTasks(content.tasks) = content.tasks
    BY TasksClean DEF CleanDoc
  <1>5. [content EXCEPT !.tasks = WithPriorities(@)] = content
    BY <1>1, <1>4 DEF AnyDoc
  <1>6. NormalUpdate(content) = content
    BY <1>1, <1>2, <1>3, <1>4, <1>5 DEF NormalUpdate, Normal
  <1> QED
    BY <1>2, <1>3, <1>4, <1>6 DEF ValidUpdate

-----------------------------------------------------------------------------
(* The way of the content.  The rows and the project hold nothing but what *)
(* is clean; a confirmed row is not written any more, so the project stays *)
(* what it was made of until it is edited itself.                          *)

RowInv == row # None => row \in AnyRow /\ CleanDoc(row.content)

ShownInv == shown # None => shown \in AnyRow /\ row # None

ProjectInv ==
  project # None =>
    /\ project \in AnyProject /\ project.version >= 1
    /\ row # None /\ row.confirmed
    /\ project.version = 1 => project.description = row.content.summary /\ project.tasks = row.content.tasks
    /\ project.description # None => Clean(project.description, SummaryChars)
    /\ \A i \in DOMAIN project.tasks : CleanTask(project.tasks[i])

ContentInv == RowInv /\ ShownInv /\ ProjectInv

(* There is no content at the start. *)
LEMMA InitContent == ContentInit => ContentInv
  BY DEF ContentInit, ContentInv, RowInv, ShownInv, ProjectInv

(* What a client sends back of what it was shown is a document. *)
LEMMA EditedType ==
  ASSUME ShapesOK, NEW content \in AnyDoc, NEW edit \in Edited(content)
  PROVE  edit \in AnyDoc
  BY DEF ShapesOK, AnyDoc, Edited

(* The parser returns clean documents.                                     *)
LEMMA CompleteStep ==
  ASSUME ShapesOK, CallInv, ContentInv, completeJob
  PROVE  ContentInv'
  <1>1. step = "done" /\ outcome.doc # None
    BY DEF completeJob
  <1>2. outcome.doc = Normal(doc) /\ doc \in AnyDoc /\ ValidAnswer(doc)
    BY <1>1 DEF CallInv, AnswerIsWhole, Whole, ShapesOK
  <1>3. CleanDoc(outcome.doc)
    BY <1>2, AnswerCleaned
  <1>4. row = None /\ row' = [content |-> outcome.doc, version |-> 1, confirmed |-> FALSE]
    BY DEF completeJob
  <1>5. row' \in AnyRow /\ row'.content = outcome.doc
    BY <1>3, <1>4 DEF AnyRow, CleanDoc
  <1>6. row' # None /\ shown' = shown /\ project' = project
    BY <1>5 DEF ShapesOK, completeJob
  <1> QED
    BY <1>3, <1>4, <1>5, <1>6 DEF ContentInv, RowInv, ShownInv, ProjectInv

(* An edit is made of what was shown, and only before the confirmation.    *)
LEMMA UpdateStep ==
  ASSUME ShapesOK, ContentInv, Update
  PROVE  ContentInv'
  <1>1. shown \in AnyRow /\ shown.content \in AnyDoc /\ row # None /\ row \in AnyRow
    BY DEF Update, ContentInv, ShownInv, RowInv, AnyRow
  <1>2. PICK edit \in Edited(shown.content) :
          /\ ValidUpdate(edit) /\ ~row.confirmed
          /\ row' = [row EXCEPT !.content = NormalUpdate(edit), !.version = @ + 1]
          /\ shown' = row'
    BY DEF Update
  <1>3. CleanDoc(NormalUpdate(edit))
    BY <1>1, <1>2, EditedType, UpdateCleaned
  <1>4. row' \in AnyRow /\ row'.content = NormalUpdate(edit)
    <2>1. row.version + 1 \in Nat /\ NormalUpdate(edit) \in AnyDoc
      BY <1>1, <1>3 DEF AnyRow, CleanDoc
    <2>2. row' = [row EXCEPT !.content = NormalUpdate(edit), !.version = row.version + 1]
      BY <1>2
    <2> QED
      BY <1>1, <2>1, <2>2 DEF AnyRow
  <1>5. row' # None /\ project = None /\ project' = project
    BY <1>2, <1>4 DEF ShapesOK, Update, ContentInv, ProjectInv
  <1> QED
    BY <1>2, <1>3, <1>4, <1>5 DEF ContentInv, RowInv, ShownInv, ProjectInv

(* A confirmation leaves the content as it is.                             *)
LEMMA ConfirmStep ==
  ASSUME ShapesOK, ContentInv, Confirm
  PROVE  ContentInv'
  <1>1. /\ row # None /\ row \in AnyRow /\ CleanDoc(row.content)
        /\ row' = [row EXCEPT !.confirmed = TRUE] /\ shown' = row' /\ project' = project
    BY DEF Confirm, ContentInv, RowInv
  <1>2. row' \in AnyRow /\ row'.content = row.content /\ row'.confirmed
    BY <1>1 DEF AnyRow
  <1>3. row' # None
    BY <1>2 DEF ShapesOK
  <1> QED
    BY <1>1, <1>2, <1>3 DEF ContentInv, RowInv, ShownInv, ProjectInv

(* The project gets the content as it was confirmed.                       *)
LEMMA CreateStep ==
  ASSUME ShapesOK, ContentInv, Create
  PROVE  ContentInv'
  <1>1. /\ row # None /\ row.confirmed /\ CleanDoc(row.content)
        /\ row' = row /\ shown' = shown
        /\ project' = [description |-> row.content.summary,
                       tasks |-> ProjectTasks(row.content.tasks), version |-> 1]
    BY DEF Create, ContentInv, RowInv
  <1>2. ProjectTasks(row.content.tasks) = row.content.tasks
    BY <1>1, DocClean
  <1>3. /\ Clean(row.content.summary, SummaryChars) /\ row.content.summary \in AnyText
        /\ row.content.tasks \in Seq(AnyTask)
        /\ \A i \in DOMAIN row.content.tasks : CleanTask(row.content.tasks[i])
    BY <1>1 DEF CleanDoc, Clean, CleanTasks
  <1>4. /\ project'.description = row.content.summary /\ project'.tasks = row.content.tasks
        /\ project'.version = 1 /\ project' \in AnyProject
    BY <1>1, <1>2, <1>3 DEF AnyProject
  <1> QED
    BY <1>1, <1>3, <1>4 DEF ContentInv, RowInv, ShownInv, ProjectInv

(* A description that is accepted is stored without the space around it.   *)
LEMMA EditProjectStep ==
  ASSUME ShapesOK, ContentInv, EditProject
  PROVE  ContentInv'
  <1>1. PICK text \in Texts \cup {None} :
          /\ ValidDescription(text)
          /\ project' = [project EXCEPT !.description = NormalDescription(text), !.version = @ + 1]
    BY DEF EditProject
  <1>2. /\ project # None /\ project \in AnyProject /\ project.version >= 1
        /\ row # None /\ row.confirmed /\ row' = row /\ shown' = shown
        /\ \A i \in DOMAIN project.tasks : CleanTask(project.tasks[i])
    BY DEF EditProject, ContentInv, ProjectInv
  <1> DEFINE new == NormalDescription(text)
  <1>3. new # None => Clean(new, SummaryChars)
    BY <1>1, CleanText DEF NormalDescription, ValidDescription, ShapesOK
  <1>4. new \in AnyText \cup {None}
    BY <1>3 DEF Clean
  <1> HIDE DEF new
  <1>5. /\ project' \in AnyProject /\ project'.description = new
        /\ project'.tasks = project.tasks /\ project'.version = project.version + 1
    <2>1. project' = [project EXCEPT !.description = new, !.version = project.version + 1]
      BY <1>1 DEF new
    <2>2. project.version + 1 \in Nat
      BY <1>2 DEF AnyProject
    <2> QED
      BY <1>2, <1>4, <2>1, <2>2 DEF AnyProject
  <1>6. project'.version >= 1 /\ project'.version # 1
    BY <1>2, <1>5 DEF AnyProject
  <1>7. RowInv' /\ ShownInv'
    BY <1>2 DEF ContentInv, RowInv, ShownInv
  <1>8. ProjectInv'
    BY <1>2, <1>3, <1>5, <1>6 DEF ProjectInv
  <1> QED
    BY <1>7, <1>8 DEF ContentInv

(* A task that is accepted is stored without the space around its texts.   *)
LEMMA EditTaskStep ==
  ASSUME ShapesOK, ContentInv, EditTask
  PROVE  ContentInv'
  <1>1. /\ project # None /\ project \in AnyProject /\ project.version >= 1
        /\ row # None /\ row.confirmed /\ row' = row /\ shown' = shown
        /\ project.description # None => Clean(project.description, SummaryChars)
        /\ \A i \in DOMAIN project.tasks : CleanTask(project.tasks[i])
    BY DEF EditTask, ContentInv, ProjectInv
  <1>2. PICK i \in DOMAIN project.tasks, list \in TaskLists :
          /\ list # None /\ list # <<>>
          /\ \E edit \in {[project.tasks[i] EXCEPT !.title = list[1].title],
                          [project.tasks[i] EXCEPT !.description = list[1].description],
                          [project.tasks[i] EXCEPT !.priority = list[1].priority]} :
               /\ TaskFits(edit)
               /\ project' = [project EXCEPT !.tasks[i] = TrimTask(edit), !.version = @ + 1]
    BY DEF EditTask
  <1>3. PICK edit \in {[project.tasks[i] EXCEPT !.title = list[1].title],
                       [project.tasks[i] EXCEPT !.description = list[1].description],
                       [project.tasks[i] EXCEPT !.priority = list[1].priority]} :
          /\ TaskFits(edit)
          /\ project' = [project EXCEPT !.tasks[i] = TrimTask(edit), !.version = @ + 1]
    BY <1>2
  <1>4. list[1] \in AnyTask
    BY <1>2 DEF ShapesOK
  <1>5. project.tasks \in Seq(AnyTask) /\ project.tasks[i] \in AnyTask /\ project.version \in Nat
    BY <1>1 DEF AnyProject, CleanTask
  <1>6. edit \in AnyTask
    BY <1>3, <1>4, <1>5 DEF AnyTask
  <1> DEFINE new == TrimTask(edit)
  <1>7. CleanTask(new) /\ new \in AnyTask
    BY <1>3, <1>6, TaskCleaned DEF CleanTask
  <1>8. project' = [project EXCEPT !.tasks[i] = new, !.version = @ + 1]
    BY <1>3
  <1> HIDE DEF new
  <1>9. /\ project'.tasks = [project.tasks EXCEPT ![i] = new]
        /\ project'.description = project.description
        /\ project'.version = project.version + 1
    BY <1>1, <1>8 DEF AnyProject
  <1>10. project'.tasks \in Seq(AnyTask) /\ \A j \in DOMAIN project'.tasks : CleanTask(project'.tasks[j])
    BY <1>1, <1>5, <1>7, <1>9
  <1>11. project' \in AnyProject /\ project'.version >= 1 /\ project'.version # 1
    <2>1. DOMAIN project' = DOMAIN project
      BY <1>1, <1>8
    <2>2. project' = [description |-> project'.description, tasks |-> project'.tasks, version |-> project'.version]
      BY <1>1, <1>8, <2>1 DEF AnyProject
    <2>3. project'.version \in Nat /\ project'.version >= 1 /\ project'.version # 1 /\ project'.description \in AnyText \cup {None}
      BY <1>1, <1>5, <1>9 DEF AnyProject
    <2> QED
      BY <1>10, <2>2, <2>3 DEF AnyProject
  <1>12. RowInv' /\ ShownInv'
    BY <1>1 DEF ContentInv, RowInv, ShownInv
  <1>13. ProjectInv'
    BY <1>1, <1>9, <1>10, <1>11 DEF ProjectInv
  <1> QED
    BY <1>12, <1>13 DEF ContentInv

(* Every step keeps what is stored clean.                                  *)
LEMMA NextContent ==
  ShapesOK /\ CallInv /\ ContentInv /\ [ContentNext]_contentVars => ContentInv'
  <1> SUFFICES ASSUME ShapesOK, CallInv, ContentInv, [ContentNext]_contentVars
               PROVE  ContentInv'
    OBVIOUS
  <1>1. CASE Parse \/ UNCHANGED contentVars
    BY <1>1 DEF Parse, contentVars, ContentInv, RowInv, ShownInv, ProjectInv
  <1>2. CASE Get
    BY <1>2 DEF Get, ContentInv, RowInv, ShownInv, ProjectInv
  <1> QED
    BY <1>1, <1>2, CompleteStep, UpdateStep, ConfirmStep, CreateStep, EditProjectStep, EditTaskStep
       DEF ContentNext

(* Together with the call of the parser.                                   *)
LEMMA ContentAlways ==
  ASSUME ShapesOK
  PROVE  ContentSpec => []ContentInv
  <1>1. ContentInit => CallInv /\ ContentInv
    BY InitCall, InitContent
  <1>2. CallInv /\ ContentInv /\ [ContentNext]_contentVars => CallInv' /\ ContentInv'
    BY NextCall, NextContent
  <1> QED
    BY <1>1, <1>2, PTL DEF ContentSpec

(* What is stored can be turned into a project, and the project gets it as *)
(* it was confirmed (decodeGeneratedTasks, project/service.go:444-480).    *)
THEOREM ConfirmedBecomesProject ==
  ASSUME ShapesOK
  PROVE  ContentSpec => []ConfirmedIsCreated
  <1>1. ContentInv => ConfirmedIsCreated
    BY DocClean DEF ContentInv, RowInv, ProjectInv, ConfirmedIsCreated
  <1> QED
    BY <1>1, ContentAlways, PTL

(* What a user is shown can be saved as it is, and does not change by that *)
(* (normalizeUpdate, parseresult/service.go:232-280, and the services of   *)
(* projects and tasks).                                                    *)
THEOREM SavedUnchanged ==
  ASSUME ShapesOK
  PROVE  ContentSpec => []EchoIsNeutral
  <1>1. ASSUME ContentInv, row # None
        PROVE  ValidUpdate(row.content) /\ NormalUpdate(row.content) = row.content
    BY <1>1, DocClean DEF ContentInv, RowInv
  <1>2. ASSUME ContentInv, project # None
        PROVE  /\ ValidDescription(project.description)
               /\ NormalDescription(project.description) = project.description
    <2>1. project.description # None =>
            project.description \in AnyText /\ Clean(project.description, SummaryChars)
      BY <1>2 DEF ContentInv, ProjectInv, Clean
    <2> QED
      BY <2>1, CleanText DEF ValidDescription, NormalDescription
  <1>3. ASSUME ContentInv, project # None, NEW i \in DOMAIN project.tasks
        PROVE  TaskFits(project.tasks[i]) /\ TrimTask(project.tasks[i]) = project.tasks[i]
    BY <1>3, TaskClean DEF ContentInv, ProjectInv
  <1>4. ContentInv => EchoIsNeutral
    BY <1>1, <1>2, <1>3 DEF EchoIsNeutral
  <1> QED
    BY <1>4, ContentAlways, PTL
=============================================================================
