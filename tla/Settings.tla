------------------------------- MODULE Settings -------------------------------
(***************************************************************************)
(* The numeric settings of both programs (internal/config/config.go): what *)
(* the YAML file says, what the environment says instead, defaults for     *)
(* what neither says, and the limits that Load checks.  Names, addresses,  *)
(* keys and lists of origins have defaults and no limits, and are left     *)
(* out; so is Port.                                                        *)
(***************************************************************************)
EXTENDS Integers

CONSTANTS
  Unparsable,     \* a text that is not a number
  Int32           \* the number of values of an int32

ASSUME SettingsAssumption == Int32 \in Nat \ {0} /\ Int32 % 2 = 0 /\ Unparsable \notin Int

AuthDefaults ==
  [RefreshExpire |-> 2592000, LoginRateLimit |-> 10, LoginRateWindow |-> 300,
   RegisterRateLimit |-> 20, RegisterRateWindow |-> 3600]

AIDefaults ==
  [RequestTimeout |-> 180, MaxOutputTokens |-> 8000, ChatRequestTimeout |-> 90,
   ChatMaxOutputTokens |-> 2000, ChatRateLimit |-> 10, ChatRateWindow |-> 300]

UploadDefaults ==
  [MaxFileBytes |-> 10485760, MaxPages |-> 50, MaxTextChars |-> 50000,
   MinEffectiveChars |-> 20, ExtractTimeout |-> 15, MaxConcurrentExtractions |-> 2,
   SlotWaitTimeout |-> 3, TempGrace |-> 3600, OrphanGrace |-> 86400,
   CleanupInterval |-> 86400]

WorkerDefaults ==
  [Concurrency |-> 2, BlockTimeout |-> 5, ReconcileInterval |-> 30, PendingGrace |-> 30,
   LeaseTimeout |-> 600, MaxRecoveries |-> 3, StreamRetention |-> 604800,
   HeartbeatInterval |-> 10, HeartbeatTTL |-> 30, ShutdownGrace |-> 180]

Names ==
  {"AccessExpire"} \cup DOMAIN AuthDefaults \cup DOMAIN AIDefaults
    \cup DOMAIN UploadDefaults \cup DOMAIN WorkerDefaults

\* AccessExpire has no default: 0 stays 0 and is refused.
Default(name) ==
  CASE name \in DOMAIN AuthDefaults   -> AuthDefaults[name]
    [] name \in DOMAIN AIDefaults     -> AIDefaults[name]
    [] name \in DOMAIN UploadDefaults -> UploadDefaults[name]
    [] name \in DOMAIN WorkerDefaults -> WorkerDefaults[name]
    [] OTHER                          -> 0

\* The environment variable of MaxRecoveries is read with 64 bits and cut to 32.
Stored(name, value) ==
  IF name = "MaxRecoveries"
    THEN ((value + Int32 \div 2) % Int32) - Int32 \div 2
    ELSE value

\* A variable that does not parse counts as not set, a setting that is not in
\* the file is 0.
Given(file, env) ==
  [name \in Names |->
     IF name \in DOMAIN env /\ env[name] # Unparsable THEN Stored(name, env[name])
     ELSE IF name \in DOMAIN file THEN file[name]
     ELSE 0]

WithDefaults(given) ==
  [name \in Names |-> IF given[name] = 0 THEN Default(name) ELSE given[name]]

\* Mutant: a heartbeat that expires when the next one is due.
AcceptedAsLong(s) ==
  /\ \A name \in Names : s[name] >= 1
  /\ s.Concurrency <= 16 /\ s.MaxConcurrentExtractions <= 4
  /\ s.HeartbeatTTL >= s.HeartbeatInterval

Accepted(s) ==
  /\ \A name \in Names : s[name] >= 1
  /\ s.Concurrency <= 16 /\ s.MaxConcurrentExtractions <= 4
  /\ s.HeartbeatTTL > s.HeartbeatInterval

\* Load: the settings a program runs with, if they are accepted.
Load(file, env) == WithDefaults(Given(file, env))
=============================================================================
