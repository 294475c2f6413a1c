----------------------------- MODULE LoggerInit -----------------------------
(***************************************************************************)
(* Where the logger comes from: set_config of src/lib.rs writes the        *)
(* configuration to environment variables, one by one, and the first use   *)
(* of Logger::global reads them, one by one, into the logger that the      *)
(* process keeps.  Any thread may do either at any time.                   *)
(***************************************************************************)
EXTENDS Integers, Sequences, FiniteSets

CONSTANTS
    Threads,          \* threads that configure and use the logger
    Values,           \* values of environment variables
    Unset,            \* a variable that is not set
    Blank,            \* a variable that is set to the empty string
    Configs,          \* configurations given to set_config
    StartEnvs,        \* environments the process may start in
    QueueSettings,    \* what WELOG_QUEUE_CAPACITY__ parses to, {} if not a number
    DefaultCapacity,  \* DEFAULT_QUEUE_CAPACITY
    MaxSets,          \* bound: calls of set_config
    MaxPanics         \* bound: times the system refuses to start a thread

\* ELASTIC_URL__ and so on.
Vars == {"index", "url", "username", "password"}

ASSUME InitAssumption ==
    /\ Unset \notin Values /\ Blank \in Values
    /\ Configs \subseteq [Vars -> Values] /\ StartEnvs \subseteq [Vars -> Values \cup {Unset}]
    /\ QueueSettings \subseteq SUBSET Nat
    /\ DefaultCapacity \in Nat \ {0} /\ MaxSets \in Nat /\ MaxPanics \in Nat

VARIABLES
    env,      \* the environment
    queue,    \* what the variable for the capacity parses to
    cell,     \* LOGGER: {} or {the logger}
    running,  \* threads inside new_from_env
    pc,       \* per thread: "idle", "set", "get", "read" or "spawn"
    config,   \* per thread: the configuration set_config is writing
    at,       \* per thread: variables it has written or read
    seen,     \* per thread: what it has read
    got,      \* per thread: {} or {the logger global() returned}
    workers,  \* worker threads started
    sets, panics,  \* calls of set_config, threads not started
    sent,     \* history: where entries went
    current,  \* history: the configuration of the last complete set_config
    torn,     \* history: a set_config overlapped another or a reader since then
    expected  \* history: {current} when the variables had been read, {} if torn

vars == <<env, queue, cell, running, pc, config, at, seen, got, workers, sets, panics,
          sent, current, torn, expected>>

\* The orders of set_config and of new_from_env.
WriteOrder == <<"index", "url", "username", "password">>
ReadOrder == <<"url", "index", "username", "password">>

Nothing == [v \in Vars |-> Unset]

Init ==
    /\ env \in StartEnvs /\ queue \in QueueSettings
    /\ cell = {} /\ running = {} /\ workers = 0 /\ sets = 0 /\ panics = 0 /\ sent = {}
    /\ pc = [t \in Threads |-> "idle"] /\ at = [t \in Threads |-> 0]
    /\ config = [t \in Threads |-> Nothing] /\ seen = config
    /\ got = [t \in Threads |-> {}]
    /\ current = env /\ torn = FALSE /\ expected = {}

Goto(t, step) == pc' = [pc EXCEPT ![t] = step]

\* t returns to its program and drops what it held.
Idle(t) ==
    /\ Goto(t, "idle") /\ at' = [at EXCEPT ![t] = 0]
    /\ config' = [config EXCEPT ![t] = Nothing] /\ seen' = [seen EXCEPT ![t] = Nothing]

-----------------------------------------------------------------------------
(* set_config *)

SetConfig(t, c) ==
    /\ pc[t] = "idle" /\ Goto(t, "set") /\ sets < MaxSets /\ sets' = sets + 1
    /\ config' = [config EXCEPT ![t] = c]
    /\ torn' = (\E u \in Threads : pc[u] \in {"set", "read"})
    /\ UNCHANGED <<env, queue, cell, running, at, seen, got, workers, panics, sent,
                   current, expected>>

\* Mutant: a field that is empty is not written.
SetVarUnlessBlank(t) ==
    /\ pc[t] = "set"
    /\ LET v == WriteOrder[at[t] + 1]
       IN  env' = [env EXCEPT ![v] = IF config[t][v] = Blank THEN @ ELSE config[t][v]]
    /\ IF at[t] + 1 = Len(WriteOrder)
       THEN Idle(t) /\ current' = config[t]
       ELSE at' = [at EXCEPT ![t] = @ + 1] /\ UNCHANGED <<pc, config, seen, current>>
    /\ UNCHANGED <<queue, cell, running, got, workers, sets, panics, sent, torn, expected>>

\* env::set_var for the next variable.
SetVar(t) ==
    /\ pc[t] = "set"
    /\ LET v == WriteOrder[at[t] + 1] IN env' = [env EXCEPT ![v] = config[t][v]]
    /\ IF at[t] + 1 = Len(WriteOrder)
       THEN Idle(t) /\ current' = config[t]
       ELSE at' = [at EXCEPT ![t] = @ + 1] /\ UNCHANGED <<pc, config, seen, current>>
    /\ UNCHANGED <<queue, cell, running, got, workers, sets, panics, sent, torn, expected>>

-----------------------------------------------------------------------------
(* Logger::global: OnceCell::get_or_init(new_from_env) *)

Get(t) ==
    /\ pc[t] = "idle" /\ Goto(t, "get")
    /\ UNCHANGED <<env, queue, cell, running, config, at, seen, got, workers, sets, panics,
                   sent, current, torn, expected>>

Found(t) ==
    /\ pc[t] = "get" /\ cell # {} /\ Goto(t, "idle")
    /\ got' = [got EXCEPT ![t] = cell]
    /\ UNCHANGED <<env, queue, cell, running, config, at, seen, workers, sets, panics, sent,
                   current, torn, expected>>

\* Mutant: the cell is tested and filled without a lock.
ClaimRacy(t) ==
    /\ pc[t] = "get" /\ cell = {} /\ Goto(t, "read")
    /\ running' = running \cup {t}
    /\ torn' = (torn \/ \E u \in Threads : pc[u] = "set")
    /\ UNCHANGED <<env, queue, cell, config, at, seen, got, workers, sets, panics, sent,
                   current, expected>>

\* The cell is empty and no other thread fills it; one that finds another at it
\* waits.
Claim(t) ==
    /\ pc[t] = "get" /\ cell = {} /\ running = {} /\ Goto(t, "read")
    /\ running' = {t}
    /\ torn' = (torn \/ \E u \in Threads : pc[u] = "set")
    /\ UNCHANGED <<env, queue, cell, config, at, seen, got, workers, sets, panics, sent,
                   current, expected>>

\* env::var for the next variable.
ReadVar(t) ==
    /\ pc[t] = "read" /\ at' = [at EXCEPT ![t] = @ + 1]
    /\ LET v == ReadOrder[at[t] + 1] IN seen' = [seen EXCEPT ![t][v] = env[v]]
    /\ IF at'[t] = Len(ReadOrder)
       THEN Goto(t, "spawn") /\ expected' = IF torn THEN {} ELSE {current}
       ELSE UNCHANGED <<pc, expected>>
    /\ UNCHANGED <<env, queue, cell, running, config, got, workers, sets, panics, sent,
                   current, torn>>

\* Mutant: zero is taken.
CapacityUnfiltered(parsed) ==
    IF parsed # {} THEN CHOOSE n \in parsed : TRUE ELSE DefaultCapacity

\* The capacity of the channel: what the variable says, unless that is 0 or not a
\* number.
CapacityOf(parsed) ==
    IF parsed \ {0} # {} THEN CHOOSE n \in parsed \ {0} : TRUE ELSE DefaultCapacity

\* Channel and worker are made and the logger is stored in the cell.
Publish(t) ==
    /\ pc[t] = "spawn" /\ Idle(t) /\ running' = running \ {t}
    /\ cell' = {[config |-> seen[t], capacity |-> CapacityOf(queue)]}
    /\ got' = [got EXCEPT ![t] = cell'] /\ workers' = workers + 1
    /\ UNCHANGED <<env, queue, sets, panics, sent, current, torn, expected>>

\* Mutant: the cell stays locked.
SpawnPanicsInside(t) ==
    /\ pc[t] = "spawn" /\ panics < MaxPanics /\ panics' = panics + 1
    /\ Idle(t)
    /\ UNCHANGED <<env, queue, cell, running, got, workers, sets, sent, current, torn, expected>>

\* thread::spawn panics in the caller's thread: the cell stays empty, and a thread
\* that waits for it tries in its turn.
SpawnPanics(t) ==
    /\ pc[t] = "spawn" /\ panics < MaxPanics /\ panics' = panics + 1
    /\ Idle(t) /\ running' = running \ {t}
    /\ UNCHANGED <<env, queue, cell, got, workers, sets, sent, current, torn, expected>>

-----------------------------------------------------------------------------
(* send_to_elastic, up to the request it sends *)

LogsTxt == [to |-> "logs.txt"]

\* Only the URL decides between file and server; the index has a default; the
\* credentials are sent if both variables are set, to whatever.
Destination(c) ==
    IF c["url"] \in {Unset, Blank} THEN LogsTxt
    ELSE [to |-> c["url"],
          index |-> IF c["index"] \in {Unset, Blank} THEN "welog" ELSE c["index"],
          auth |-> IF Unset \in {c["username"], c["password"]} THEN {}
                   ELSE {<<c["username"], c["password"]>>}]

\* An entry of thread t reaches the worker.
Send(t) ==
    /\ pc[t] = "idle" /\ got[t] # {}
    /\ sent' = sent \cup {Destination(l.config) : l \in got[t]}
    /\ UNCHANGED <<env, queue, cell, running, pc, config, at, seen, got, workers,
                   sets, panics, current, torn, expected>>

-----------------------------------------------------------------------------
Global(t) == Found(t) \/ Claim(t) \/ ReadVar(t) \/ Publish(t)

Next ==
    \E t \in Threads :
        \/ \E c \in Configs : SetConfig(t, c)
        \/ SetVar(t) \/ Get(t) \/ Global(t) \/ SpawnPanics(t) \/ Send(t)

Spec == Init /\ [][Next]_vars

\* A thread that called global() is scheduled.
FairSpec == Spec /\ \A t \in Threads : WF_vars(Global(t))

-----------------------------------------------------------------------------
(* Properties *)

Loggers == [config : [Vars -> Values \cup {Unset}], capacity : Nat \ {0}]

\* Every variable has its type, and a logger's channel has room for an entry: a
\* channel of capacity 0 would refuse every one, since try_send does not wait.
TypeOK ==
    /\ env \in [Vars -> Values \cup {Unset}] /\ queue \in QueueSettings
    /\ cell \in SUBSET Loggers /\ running \in SUBSET Threads
    /\ pc \in [Threads -> {"idle", "set", "get", "read", "spawn"}]
    /\ config \in [Threads -> [Vars -> Values \cup {Unset}]]
    /\ at \in [Threads -> 0..4]
    /\ seen \in [Threads -> [Vars -> Values \cup {Unset}]]
    /\ got \in [Threads -> SUBSET Loggers]
    /\ workers \in Nat /\ sets \in 0..MaxSets /\ panics \in 0..MaxPanics
    /\ sent \in SUBSET {Destination(c) : c \in [Vars -> Values \cup {Unset}]}
    /\ current \in [Vars -> Values \cup {Unset}] /\ torn \in BOOLEAN
    /\ expected \in SUBSET [Vars -> Values \cup {Unset}]

\* Every thread has the same logger, and one worker was started for it, whatever
\* threads come first together and however often starting a worker failed.
OneLogger ==
    /\ Cardinality(cell) <= 1 /\ workers = Cardinality(cell)
    /\ \A t \in Threads : got[t] \subseteq cell

\* Entries go where the last set_config before the first use said, the server, the
\* index and the credentials of one configuration, and no later set_config changes
\* that; unless a set_config overlapped the first use or another set_config.
TakesEffect ==
    \A c \in expected : sent \subseteq {Destination(c)}

\* A call of global() ends: it returns a logger or panics.
UseEnds == \A t \in Threads : pc[t] \in {"get", "read", "spawn"} ~> pc[t] = "idle"

-----------------------------------------------------------------------------
(* What the documentation says and the code does not do *)

\* "If any are missing/empty, logs are written to `logs.txt`"
MissingConfigGoesToFile ==
    \A l \in cell :
        (\E v \in Vars : l.config[v] \in {Unset, Blank}) => sent \subseteq {LogsTxt}
=============================================================================
