-------------------------- MODULE LoggerInitProofs --------------------------
(***************************************************************************)
(* For any number of threads, configurations and failures to start the     *)
(* worker: the process has one logger and one worker, and the logger has   *)
(* the configuration of the last set_config, if none overlapped its start. *)
(***************************************************************************)
EXTENDS LoggerInit, TLAPS, FiniteSetTheorems

\* The part of the types that the argument needs.
Shape ==
    /\ pc \in [Threads -> {"idle", "set", "get", "read", "spawn"}]
    /\ got \in [Threads -> SUBSET cell]

\* One thread at most fills the cell, and only while it is empty.
Exclusive ==
    /\ running = {t \in Threads : pc[t] \in {"read", "spawn"}}
    /\ \A t, u \in running : t = u
    /\ running # {} => cell = {}

\* The cell holds at most one logger, and a worker was started for it.
Filled ==
    \/ cell = {} /\ workers = 0
    \/ workers = 1 /\ \E l : cell = {l}

IInv == Shape /\ Exclusive /\ Filled

LEMMA InitFilled == Init => IInv
  BY DEF Init, IInv, Shape, Exclusive, Filled

LEMMA NextFilled == IInv /\ [Next]_vars => IInv'
<1> SUFFICES ASSUME IInv, [Next]_vars PROVE IInv'
  OBVIOUS
<1> USE DEF IInv, Shape, Exclusive, Filled, Goto, Idle
<1>1. ASSUME NEW t \in Threads, NEW c \in Configs, SetConfig(t, c) PROVE IInv'
  BY <1>1 DEF SetConfig
<1>2. ASSUME NEW t \in Threads, SetVar(t) PROVE IInv'
  BY <1>2 DEF SetVar
<1>3. ASSUME NEW t \in Threads, Get(t) PROVE IInv'
  BY <1>3 DEF Get
<1>4. ASSUME NEW t \in Threads, Found(t) PROVE IInv'
  BY <1>4 DEF Found
<1>5. ASSUME NEW t \in Threads, Claim(t) PROVE IInv'
  BY <1>5 DEF Claim
<1>6. ASSUME NEW t \in Threads, ReadVar(t) PROVE IInv'
  BY <1>6 DEF ReadVar
<1>7. ASSUME NEW t \in Threads, Publish(t) PROVE IInv'
  <2>0. t \in running
    BY <1>7 DEF Publish
  <2>1. running = {t} /\ cell = {} /\ workers = 0
    BY <2>0
  <2>2. Filled'
    <3>1. workers' = 1
      BY <1>7, <2>1 DEF Publish
    <3>2. \E l : cell' = {l}
      <4> DEFINE logger == [config |-> seen[t], capacity |-> CapacityOf(queue)]
      <4>1. cell' = {logger}
        BY <1>7 DEF Publish
      <4> QED
        BY <4>1
    <3> QED
      BY <3>1, <3>2
  <2>3. pc' = [pc EXCEPT ![t] = "idle"] /\ running' = {}
    BY <1>7, <2>1 DEF Publish
  <2>4. got' = [got EXCEPT ![t] = cell'] /\ cell \subseteq cell'
    BY <1>7, <2>1 DEF Publish
  <2>5. got' \in [Threads -> SUBSET cell']
    BY <2>4
  <2>6. Shape'
    BY <2>3, <2>5
  <2>7. Exclusive'
    BY <2>1, <2>3
  <2> QED
    BY <2>2, <2>6, <2>7
<1>8. ASSUME NEW t \in Threads, SpawnPanics(t) PROVE IInv'
  BY <1>8 DEF SpawnPanics
<1>9. ASSUME NEW t \in Threads, Send(t) PROVE IInv'
  BY <1>9 DEF Send
<1>10. CASE UNCHANGED vars
  BY <1>10 DEF vars
<1> QED
  BY <1>1, <1>2, <1>3, <1>4, <1>5, <1>6, <1>7, <1>8, <1>9, <1>10 DEF Next, Global

LEMMA FilledOne == IInv => OneLogger
<1> SUFFICES ASSUME IInv PROVE OneLogger
  OBVIOUS
<1> USE DEF IInv, Shape, Filled
<1>1. \A t \in Threads : got[t] \subseteq cell
  OBVIOUS
<1>2. CASE cell = {} /\ workers = 0
  BY <1>1, <1>2, FS_EmptySet DEF OneLogger
<1>3. CASE workers = 1 /\ \E l : cell = {l}
  BY <1>1, <1>3, FS_Singleton DEF OneLogger
<1> QED
  BY <1>2, <1>3

\* Every thread gets the same logger and one worker serves it, for any number of
\* threads that use it first at the same time and any failures to start a worker.
THEOREM SingleLogger == Spec => []OneLogger
<1>1. Init => IInv
  BY InitFilled
<1>2. IInv /\ [Next]_vars => IInv'
  BY NextFilled
<1>3. IInv => OneLogger
  BY FilledOne
<1> QED
  BY <1>1, <1>2, <1>3, PTL DEF Spec

-----------------------------------------------------------------------------
(* What the logger was made from *)

Settings == [Vars -> Values \cup {Unset}]

\* How far a thread is with the variables.
AtInv ==
    \A t \in Threads :
        /\ pc[t] \in {"idle", "get"} => at[t] = 0
        /\ pc[t] \in {"set", "read"} => at[t] \in 0..3

\* While nothing overlaps, the environment is the configuration of the last
\* set_config, as far as the one at work has come, and a reader has what it says.
EnvInv ==
    ~torn =>
        /\ \A t, u \in Threads : pc[t] = "set" /\ pc[u] \in {"set", "read"} => t = u
        /\ (\A t \in Threads : pc[t] # "set") => env = current
        /\ \A t \in Threads : pc[t] = "set" =>
              \A i \in 1..at[t] : env[WriteOrder[i]] = config[t][WriteOrder[i]]
        /\ \A t \in Threads : pc[t] = "read" =>
              \A i \in 1..at[t] : seen[t][ReadOrder[i]] = current[ReadOrder[i]]

\* What was expected when the variables had been read is what the logger has, and
\* entries go where the logger says.
MadeInv ==
    /\ \A c \in expected :
          /\ \A t \in Threads : pc[t] = "spawn" => c = seen[t]
          /\ \A l \in cell : c = l.config
    /\ sent \subseteq {Destination(l.config) : l \in cell}

StartInv == TypeOK /\ AtInv /\ EnvInv /\ MadeInv

\* The two orders name every variable once.
LEMMA Orders ==
    /\ Len(WriteOrder) = 4 /\ Len(ReadOrder) = 4
    /\ \A i \in 1..4 : WriteOrder[i] \in Vars /\ ReadOrder[i] \in Vars
    /\ \A v \in Vars : \E i \in 1..4 : v = WriteOrder[i]
    /\ \A v \in Vars : \E i \in 1..4 : v = ReadOrder[i]
    /\ \A i, j \in 1..4 : WriteOrder[i] = WriteOrder[j] => i = j
    /\ \A i, j \in 1..4 : ReadOrder[i] = ReadOrder[j] => i = j
<1>1. WriteOrder = <<"index", "url", "username", "password">>
  BY DEF WriteOrder
<1>2. ReadOrder = <<"url", "index", "username", "password">>
  BY DEF ReadOrder
<1>3. Len(WriteOrder) = 4 /\ Len(ReadOrder) = 4
  BY <1>1, <1>2
<1>4. /\ WriteOrder[1] = "index" /\ WriteOrder[2] = "url"
      /\ WriteOrder[3] = "username" /\ WriteOrder[4] = "password"
  BY <1>1
<1>5. /\ ReadOrder[1] = "url" /\ ReadOrder[2] = "index"
      /\ ReadOrder[3] = "username" /\ ReadOrder[4] = "password"
  BY <1>2
<1>6. 1..4 = {1, 2, 3, 4}
  OBVIOUS
<1>7. \A i \in 1..4 : WriteOrder[i] \in Vars /\ ReadOrder[i] \in Vars
  BY <1>4, <1>5, <1>6 DEF Vars
<1>8. /\ \A v \in Vars : \E i \in 1..4 : v = WriteOrder[i]
      /\ \A v \in Vars : \E i \in 1..4 : v = ReadOrder[i]
  BY <1>4, <1>5, <1>6 DEF Vars
<1>9. /\ \A i, j \in 1..4 : WriteOrder[i] = WriteOrder[j] => i = j
      /\ \A i, j \in 1..4 : ReadOrder[i] = ReadOrder[j] => i = j
  BY <1>4, <1>5, <1>6
<1> QED BY <1>3, <1>7, <1>8, <1>9

\* Two settings that agree on the four variables are the same.
LEMMA SameSettings ==
    ASSUME NEW c \in Settings, NEW d \in Settings,
           \/ \A i \in 1..4 : c[WriteOrder[i]] = d[WriteOrder[i]]
           \/ \A i \in 1..4 : c[ReadOrder[i]] = d[ReadOrder[i]]
    PROVE  c = d
<1>1. \A v \in Vars : c[v] = d[v]
  BY Orders
<1> QED BY <1>1 DEF Settings

\* The channel of the logger has room for an entry, whatever the variable says.
LEMMA RoomForOne ==
    ASSUME NEW parsed \in QueueSettings PROVE CapacityOf(parsed) \in Nat \ {0}
<1>1. parsed \subseteq Nat
  BY InitAssumption
<1>2. CASE parsed \ {0} # {}
  <2>1. (CHOOSE n \in parsed \ {0} : TRUE) \in parsed \ {0}
    BY <1>2
  <2> QED BY <1>1, <1>2, <2>1 DEF CapacityOf
<1>3. CASE parsed \ {0} = {}
  BY <1>3, InitAssumption DEF CapacityOf
<1> QED BY <1>2, <1>3

LEMMA InitStart == Init => StartInv
<1> SUFFICES ASSUME Init PROVE StartInv
  OBVIOUS
<1>1. Nothing \in Settings /\ env \in Settings
  BY InitAssumption DEF Init, Nothing, Settings
<1>2. TypeOK
  <2>1. /\ at \in [Threads -> 0..4] /\ got \in [Threads -> SUBSET Loggers]
        /\ pc \in [Threads -> {"idle", "set", "get", "read", "spawn"}]
    BY DEF Init
  <2>2. /\ config \in [Threads -> Settings] /\ seen \in [Threads -> Settings]
        /\ current \in Settings
    BY <1>1 DEF Init
  <2>3. sets \in 0..MaxSets /\ panics \in 0..MaxPanics /\ workers \in Nat
    BY InitAssumption DEF Init
  <2> QED BY <1>1, <2>1, <2>2, <2>3 DEF Init, TypeOK, Settings
<1>3. AtInv /\ EnvInv /\ MadeInv
  BY DEF Init, AtInv, EnvInv, MadeInv
<1> QED BY <1>2, <1>3 DEF StartInv

\* A thread that returns to its program keeps the types.
LEMMA IdleTypes ==
    ASSUME TypeOK, NEW t \in Threads, Idle(t)
    PROVE  /\ pc' \in [Threads -> {"idle", "set", "get", "read", "spawn"}]
           /\ at' \in [Threads -> 0..4] /\ config' \in [Threads -> Settings]
           /\ seen' \in [Threads -> Settings]
<1>1. Nothing \in Settings
  BY DEF Nothing, Settings
<1> QED BY <1>1 DEF Idle, Goto, TypeOK, Settings

LEMMA TypeStep == TypeOK /\ AtInv /\ [Next]_vars => TypeOK'
<1> SUFFICES ASSUME TypeOK, AtInv, [Next]_vars PROVE TypeOK'
  OBVIOUS
<1> DEFINE Pcs == {"idle", "set", "get", "read", "spawn"}
<1>1. /\ env \in Settings /\ config \in [Threads -> Settings] /\ seen \in [Threads -> Settings]
      /\ current \in Settings /\ expected \in SUBSET Settings
      /\ at \in [Threads -> 0..4] /\ pc \in [Threads -> Pcs]
  BY DEF TypeOK, Settings
<1>2. ASSUME NEW t \in Threads, NEW c \in Configs, SetConfig(t, c) PROVE TypeOK'
  <2>1. c \in Settings
    BY InitAssumption DEF Settings
  <2>2. config' \in [Threads -> Settings] /\ pc' \in [Threads -> Pcs]
    BY <1>1, <1>2, <2>1 DEF SetConfig, Goto
  <2>3. sets' \in 0..MaxSets /\ torn' \in BOOLEAN
    BY <1>2, InitAssumption DEF SetConfig, TypeOK
  <2> QED BY <1>2, <2>2, <2>3 DEF SetConfig, TypeOK, Settings
<1>3. ASSUME NEW t \in Threads, SetVar(t) PROVE TypeOK'
  <2> DEFINE v == WriteOrder[at[t] + 1]
  <2>1. at[t] \in 0..3 /\ v \in Vars
    BY <1>3, Orders DEF SetVar, AtInv
  <2>2. env' = [env EXCEPT ![v] = config[t][v]]
    BY <1>3 DEF SetVar
  <2>3. config[t][v] \in Values \cup {Unset}
    BY <1>1, <2>1 DEF Settings
  <2> HIDE DEF v
  <2>4. env' \in Settings
    BY <1>1, <2>1, <2>2, <2>3 DEF Settings
  <2>5. /\ pc' \in [Threads -> Pcs] /\ at' \in [Threads -> 0..4]
        /\ config' \in [Threads -> Settings] /\ seen' \in [Threads -> Settings]
        /\ current' \in Settings
    <3>1. CASE Idle(t) /\ current' = config[t]
      BY <1>1, <3>1, IdleTypes
    <3>2. CASE at' = [at EXCEPT ![t] = @ + 1] /\ UNCHANGED <<pc, config, seen, current>>
      BY <1>1, <2>1, <3>2
    <3> QED BY <1>3, <3>1, <3>2 DEF SetVar
  <2> QED BY <1>3, <2>4, <2>5 DEF SetVar, TypeOK, Settings
<1>4. ASSUME NEW t \in Threads, Get(t) \/ Found(t) \/ Claim(t) PROVE TypeOK'
  BY <1>4 DEF Get, Found, Claim, Goto, TypeOK
<1>5. ASSUME NEW t \in Threads, ReadVar(t) PROVE TypeOK'
  <2> DEFINE v == ReadOrder[at[t] + 1]
  <2>1. at[t] \in 0..3 /\ v \in Vars
    BY <1>5, Orders DEF ReadVar, AtInv
  <2>2. seen' = [seen EXCEPT ![t] = [seen[t] EXCEPT ![v] = env[v]]]
    BY <1>5 DEF ReadVar
  <2> HIDE DEF v
  <2>3. [seen[t] EXCEPT ![v] = env[v]] \in Settings
    BY <1>1, <2>1 DEF Settings
  <2>4. seen' \in [Threads -> Settings]
    BY <1>1, <2>2, <2>3
  <2>5. at' \in [Threads -> 0..4] /\ pc' \in [Threads -> Pcs]
    BY <1>1, <1>5, <2>1 DEF ReadVar, Goto
  <2>6. expected' \in SUBSET Settings
    BY <1>1, <1>5 DEF ReadVar
  <2> QED BY <1>5, <2>4, <2>5, <2>6 DEF ReadVar, TypeOK, Settings
<1>6. ASSUME NEW t \in Threads, Publish(t) PROVE TypeOK'
  <2> DEFINE logger == [config |-> seen[t], capacity |-> CapacityOf(queue)]
  <2>1. logger \in Loggers
    BY <1>1, RoomForOne DEF TypeOK, Loggers, Settings
  <2>2. cell' = {logger} /\ got' = [got EXCEPT ![t] = cell'] /\ workers' = workers + 1
    BY <1>6 DEF Publish
  <2> HIDE DEF logger
  <2>3. cell' \in SUBSET Loggers /\ got' \in [Threads -> SUBSET Loggers] /\ workers' \in Nat
    BY <2>1, <2>2 DEF TypeOK
  <2>4. /\ pc' \in [Threads -> Pcs] /\ at' \in [Threads -> 0..4]
        /\ config' \in [Threads -> Settings] /\ seen' \in [Threads -> Settings]
    BY <1>6, IdleTypes DEF Publish
  <2> QED BY <1>6, <2>3, <2>4 DEF Publish, TypeOK, Settings
<1>7. ASSUME NEW t \in Threads, SpawnPanics(t) PROVE TypeOK'
  <2>1. /\ pc' \in [Threads -> Pcs] /\ at' \in [Threads -> 0..4]
        /\ config' \in [Threads -> Settings] /\ seen' \in [Threads -> Settings]
    BY <1>7, IdleTypes DEF SpawnPanics
  <2>2. panics' \in 0..MaxPanics
    BY <1>7, InitAssumption DEF SpawnPanics, TypeOK
  <2> QED BY <1>7, <2>1, <2>2 DEF SpawnPanics, TypeOK, Settings
<1>8. ASSUME NEW t \in Threads, Send(t) PROVE TypeOK'
  <2>1. \A l \in got[t] : l.config \in Settings
    BY DEF TypeOK, Loggers, Settings
  <2>2. sent' \in SUBSET {Destination(c) : c \in Settings}
    BY <1>8, <2>1 DEF Send, TypeOK, Settings
  <2> QED BY <1>8, <2>2 DEF Send, TypeOK, Settings
<1>9. CASE UNCHANGED vars
  BY <1>9 DEF vars, TypeOK
<1> QED BY <1>2, <1>3, <1>4, <1>5, <1>6, <1>7, <1>8, <1>9 DEF Next, Global

LEMMA AtStep == TypeOK /\ AtInv /\ [Next]_vars => AtInv'
<1> SUFFICES ASSUME TypeOK, AtInv, [Next]_vars PROVE AtInv'
  OBVIOUS
<1> USE DEF Goto, Idle
<1>1. /\ at \in [Threads -> 0..4] /\ pc \in [Threads -> {"idle", "set", "get", "read", "spawn"}]
  BY DEF TypeOK
<1>2. ASSUME NEW t \in Threads, NEW c \in Configs, SetConfig(t, c) PROVE AtInv'
  BY <1>1, <1>2 DEF SetConfig, AtInv
<1>3. ASSUME NEW t \in Threads, SetVar(t) PROVE AtInv'
  BY <1>1, <1>3, Orders DEF SetVar, AtInv
<1>4. ASSUME NEW t \in Threads, Get(t) \/ Found(t) \/ Claim(t) PROVE AtInv'
  BY <1>1, <1>4 DEF Get, Found, Claim, AtInv
<1>5. ASSUME NEW t \in Threads, ReadVar(t) PROVE AtInv'
  BY <1>1, <1>5, Orders DEF ReadVar, AtInv
<1>6. ASSUME NEW t \in Threads, Publish(t) \/ SpawnPanics(t) PROVE AtInv'
  BY <1>1, <1>6 DEF Publish, SpawnPanics, AtInv
<1>7. ASSUME NEW t \in Threads, Send(t) PROVE AtInv'
  BY <1>7 DEF Send, AtInv
<1>8. CASE UNCHANGED vars
  BY <1>8 DEF vars, AtInv
<1> QED BY <1>2, <1>3, <1>4, <1>5, <1>6, <1>7, <1>8 DEF Next, Global

\* What a reader has read when nothing overlaps.
LEMMA ReadsOn ==
    ASSUME TypeOK, AtInv, EnvInv, NEW t \in Threads, ReadVar(t), ~torn
    PROVE  /\ env = current /\ \A u \in Threads : pc[u] # "set"
           /\ \A i \in 1..(at[t] + 1) : seen'[t][ReadOrder[i]] = current[ReadOrder[i]]
<1> DEFINE n == at[t] + 1
<1>1. seen \in [Threads -> Settings] /\ env \in Settings
  BY DEF TypeOK, Settings
<1>2. /\ pc[t] = "read" /\ at[t] \in 0..3
      /\ seen' = [seen EXCEPT ![t] = [seen[t] EXCEPT ![ReadOrder[n]] = env[ReadOrder[n]]]]
  BY DEF ReadVar, AtInv
<1>3. /\ env = current /\ \A u \in Threads : pc[u] # "set"
      /\ \A i \in 1..at[t] : seen[t][ReadOrder[i]] = current[ReadOrder[i]]
  BY <1>2 DEF EnvInv
<1>4. n \in 1..4 /\ \A i \in 1..n : i = n \/ i \in 1..at[t]
  BY <1>2
<1>5. \A i \in 1..at[t] : i \in 1..4 /\ i # n
  BY <1>2
<1> HIDE DEF n
<1>6. seen'[t] = [seen[t] EXCEPT ![ReadOrder[n]] = env[ReadOrder[n]]]
  BY <1>1, <1>2
<1>7. ReadOrder[n] \in Vars /\ seen'[t][ReadOrder[n]] = env[ReadOrder[n]]
  BY <1>1, <1>4, <1>6, Orders DEF Settings
<1>8. ASSUME NEW i \in 1..at[t] PROVE seen'[t][ReadOrder[i]] = current[ReadOrder[i]]
  <2>1. i \in 1..4 /\ i # n /\ ReadOrder[i] \in Vars /\ ReadOrder[i] # ReadOrder[n]
    BY <1>4, <1>5, Orders
  <2> QED BY <1>1, <1>3, <1>6, <2>1 DEF Settings
<1>9. \A i \in 1..n : seen'[t][ReadOrder[i]] = current[ReadOrder[i]]
  BY <1>3, <1>4, <1>7, <1>8
<1> QED BY <1>3, <1>9 DEF n

LEMMA EnvStep == TypeOK /\ AtInv /\ EnvInv /\ [Next]_vars => EnvInv'
<1> SUFFICES ASSUME TypeOK, AtInv, EnvInv, [Next]_vars, ~torn' PROVE EnvInv'
  BY DEF EnvInv
<1> DEFINE Single == \A t, u \in Threads : pc[t] = "set" /\ pc[u] \in {"set", "read"} => t = u
           Settled == (\A t \in Threads : pc[t] # "set") => env = current
           Written(t) == pc[t] = "set" =>
                            \A i \in 1..at[t] : env[WriteOrder[i]] = config[t][WriteOrder[i]]
           Read(t) == pc[t] = "read" =>
                         \A i \in 1..at[t] : seen[t][ReadOrder[i]] = current[ReadOrder[i]]
<1>1. SUFFICES Single' /\ Settled' /\ \A t \in Threads : Written(t)' /\ Read(t)'
  BY DEF EnvInv
<1>2. ~torn => Single /\ Settled /\ \A t \in Threads : Written(t) /\ Read(t)
  BY DEF EnvInv
<1>3. /\ at \in [Threads -> 0..4] /\ pc \in [Threads -> {"idle", "set", "get", "read", "spawn"}]
      /\ config \in [Threads -> Settings] /\ seen \in [Threads -> Settings]
      /\ env \in Settings /\ current \in Settings
  BY DEF TypeOK, Settings
<1>4. ASSUME NEW t \in Threads, NEW c \in Configs, SetConfig(t, c)
      PROVE  Single' /\ Settled' /\ \A u \in Threads : Written(u)' /\ Read(u)'
  <2>1. /\ \A u \in Threads : pc[u] \notin {"set", "read"}
        /\ pc' = [pc EXCEPT ![t] = "set"] /\ at' = at /\ at[t] = 0
    BY <1>4 DEF SetConfig, Goto, AtInv
  <2>2. \A u \in Threads : (pc'[u] = "set" /\ u = t) \/ pc'[u] \notin {"set", "read"}
    BY <1>3, <2>1
  <2>3. 1..0 = {}
    OBVIOUS
  <2>4. pc'[t] = "set"
    BY <1>3, <2>1
  <2>5. Single' /\ Settled'
    BY <2>2, <2>4
  <2>6. ASSUME NEW u \in Threads PROVE Written(u)' /\ Read(u)'
    BY <2>1, <2>2, <2>3
  <2> QED BY <2>5, <2>6
<1>5. ASSUME NEW t \in Threads, SetVar(t)
      PROVE  Single' /\ Settled' /\ \A u \in Threads : Written(u)' /\ Read(u)'
  <2> DEFINE n == at[t] + 1
  <2>1. /\ pc[t] = "set" /\ ~torn /\ at[t] \in 0..3
        /\ env' = [env EXCEPT ![WriteOrder[n]] = config[t][WriteOrder[n]]]
    BY <1>5 DEF SetVar, AtInv
  <2>2. \A u \in Threads : u # t => pc[u] \notin {"set", "read"}
    BY <1>2, <2>1
  <2>3. n \in 1..4 /\ \A i \in 1..n : i = n \/ i \in 1..at[t]
    BY <2>1
  <2>4. \A i \in 1..at[t] : i \in 1..4 /\ i # n
    BY <2>1
  <2> HIDE DEF n
  <2>5. \A i \in 1..n : env'[WriteOrder[i]] = config[t][WriteOrder[i]]
    <3>1. WriteOrder[n] \in Vars /\ env'[WriteOrder[n]] = config[t][WriteOrder[n]]
      BY <1>3, <2>1, <2>3, Orders DEF Settings
    <3>2. ASSUME NEW i \in 1..at[t] PROVE env'[WriteOrder[i]] = config[t][WriteOrder[i]]
      <4>1. i \in 1..4 /\ i # n /\ WriteOrder[i] \in Vars /\ WriteOrder[i] # WriteOrder[n]
        BY <2>3, <2>4, Orders
      <4>2. env[WriteOrder[i]] = config[t][WriteOrder[i]]
        BY <1>2, <2>1
      <4> QED BY <1>3, <2>1, <4>1, <4>2 DEF Settings
    <3> QED BY <2>3, <3>1, <3>2
  <2>6. CASE n = 4
    <3>1. /\ pc' = [pc EXCEPT ![t] = "idle"] /\ current' = config[t]
      BY <1>5, <2>6, Orders DEF SetVar, Idle, Goto, n
    <3>2. env' \in Settings
      BY <1>3, <2>1, <2>3, Orders DEF Settings
    <3>3. env' = config[t]
      BY <1>3, <2>5, <2>6, <3>2, SameSettings
    <3>4. \A u \in Threads : pc'[u] \notin {"set", "read"}
      BY <1>3, <2>2, <3>1
    <3> QED BY <3>1, <3>3, <3>4
  <2>7. CASE n # 4
    <3>1. at' = [at EXCEPT ![t] = n] /\ UNCHANGED <<pc, config, seen, current>>
      BY <1>5, <2>7, Orders DEF SetVar, n
    <3>2. at'[t] = n
      BY <1>3, <3>1
    <3>3. Single'
      BY <1>2, <2>1, <3>1
    <3>4. Settled'
      BY <2>1, <3>1
    <3>5. ASSUME NEW u \in Threads PROVE Written(u)' /\ Read(u)'
      BY <2>1, <2>2, <2>5, <3>1, <3>2
    <3> QED BY <3>3, <3>4, <3>5
  <2> QED BY <2>6, <2>7
<1>6. ASSUME NEW t \in Threads, Claim(t)
      PROVE  Single' /\ Settled' /\ \A u \in Threads : Written(u)' /\ Read(u)'
  <2>1. /\ ~torn /\ \A u \in Threads : pc[u] # "set"
        /\ pc' = [pc EXCEPT ![t] = "read"] /\ at[t] = 0
        /\ UNCHANGED <<env, current, at, seen>>
    BY <1>6 DEF Claim, Goto, AtInv
  <2>2. \A u \in Threads : pc'[u] # "set" /\ (u = t \/ pc'[u] = pc[u])
    BY <1>3, <2>1
  <2>3. 1..0 = {}
    OBVIOUS
  <2>4. ASSUME NEW u \in Threads PROVE Written(u)' /\ Read(u)'
    <3>1. Written(u)'
      BY <2>2
    <3>2. CASE u = t
      BY <2>1, <2>3, <3>1, <3>2
    <3>3. CASE u # t
      BY <1>2, <2>1, <2>2, <3>1, <3>3
    <3> QED BY <3>2, <3>3
  <2> QED BY <1>2, <2>1, <2>2, <2>4
<1>7. ASSUME NEW t \in Threads, ReadVar(t)
      PROVE  Single' /\ Settled' /\ \A u \in Threads : Written(u)' /\ Read(u)'
  <2>1. /\ pc[t] = "read" /\ ~torn /\ at' = [at EXCEPT ![t] = at[t] + 1]
        /\ UNCHANGED <<env, current>>
        /\ pc' = pc \/ pc' = [pc EXCEPT ![t] = "spawn"]
    BY <1>7 DEF ReadVar, Goto
  <2>2. /\ env = current /\ \A u \in Threads : pc[u] # "set"
        /\ \A i \in 1..(at[t] + 1) : seen'[t][ReadOrder[i]] = current[ReadOrder[i]]
    BY <1>7, <2>1, ReadsOn
  <2>3. \A u \in Threads : pc'[u] # "set" /\ (pc'[u] = "read" => pc[u] = "read")
    BY <1>3, <2>1, <2>2
  <2>4. at'[t] = at[t] + 1 /\ \A u \in Threads \ {t} : at'[u] = at[u]
    BY <1>3, <2>1
  <2>5. \A u \in Threads \ {t} : seen'[u] = seen[u]
    BY <1>3, <1>7 DEF ReadVar
  <2>6. ASSUME NEW u \in Threads PROVE Read(u)'
    <3>1. CASE u = t
      BY <2>1, <2>2, <2>4, <3>1
    <3>2. CASE u # t
      BY <1>2, <2>1, <2>3, <2>4, <2>5, <3>2
    <3> QED BY <3>1, <3>2
  <2> QED BY <2>1, <2>2, <2>3, <2>6
<1>8. ASSUME NEW t \in Threads, Get(t) \/ Found(t) \/ Publish(t) \/ SpawnPanics(t)
      PROVE  Single' /\ Settled' /\ \A u \in Threads : Written(u)' /\ Read(u)'
  <2>1. /\ pc[t] \notin {"set", "read"} /\ UNCHANGED <<env, current, torn>>
        /\ pc' = [pc EXCEPT ![t] = "get"] \/ pc' = [pc EXCEPT ![t] = "idle"]
    BY <1>8 DEF Get, Found, Publish, SpawnPanics, Idle, Goto
  <2>2. \A u \in Threads \ {t} : at'[u] = at[u] /\ config'[u] = config[u] /\ seen'[u] = seen[u]
    BY <1>3, <1>8 DEF Get, Found, Publish, SpawnPanics, Idle
  <2>3. /\ \A u \in Threads \ {t} : pc'[u] = pc[u]
        /\ pc'[t] \notin {"set", "read"}
    BY <1>3, <2>1
  <2>4. Single' /\ Settled'
    BY <1>2, <2>1, <2>3
  <2>5. ASSUME NEW u \in Threads PROVE Written(u)' /\ Read(u)'
    BY <1>2, <2>1, <2>2, <2>3
  <2> QED BY <2>4, <2>5
<1>9. ASSUME NEW t \in Threads, Send(t)
      PROVE  Single' /\ Settled' /\ \A u \in Threads : Written(u)' /\ Read(u)'
  BY <1>2, <1>9 DEF Send
<1>10. CASE UNCHANGED vars
  BY <1>2, <1>10 DEF vars
<1> QED BY <1>4, <1>5, <1>6, <1>7, <1>8, <1>9, <1>10 DEF Next, Global

LEMMA MadeStep == IInv /\ StartInv /\ [Next]_vars => MadeInv'
<1> SUFFICES ASSUME IInv, StartInv, [Next]_vars PROVE MadeInv'
  OBVIOUS
<1> USE DEF StartInv
<1>1. /\ \A c \in expected : /\ \A t \in Threads : pc[t] = "spawn" => c = seen[t]
                             /\ \A l \in cell : c = l.config
      /\ sent \subseteq {Destination(l.config) : l \in cell}
  BY DEF MadeInv
<1>2. /\ at \in [Threads -> 0..4] /\ pc \in [Threads -> {"idle", "set", "get", "read", "spawn"}]
      /\ seen \in [Threads -> Settings]
  BY DEF TypeOK, Settings
<1>3. \A t \in Threads : pc[t] \in {"read", "spawn"} =>
         cell = {} /\ \A u \in Threads : pc[u] \in {"read", "spawn"} => u = t
  BY DEF IInv, Exclusive
<1>4. ASSUME UNCHANGED <<expected, cell, sent>>,
             \A t \in Threads : pc'[t] = "spawn" => pc[t] = "spawn" /\ seen'[t] = seen[t]
      PROVE  MadeInv'
  BY <1>1, <1>4 DEF MadeInv
<1>5. ASSUME NEW t \in Threads, NEW c \in Configs, SetConfig(t, c) PROVE MadeInv'
  BY <1>2, <1>4, <1>5 DEF SetConfig, Goto
<1>6. ASSUME NEW t \in Threads, SetVar(t) \/ SpawnPanics(t) PROVE MadeInv'
  <2>1. UNCHANGED <<expected, cell, sent>> /\ (Idle(t) \/ UNCHANGED <<pc, seen>>)
    BY <1>6 DEF SetVar, SpawnPanics
  <2>2. \A u \in Threads : pc'[u] = "spawn" => pc[u] = "spawn" /\ seen'[u] = seen[u]
    BY <1>2, <2>1 DEF Idle, Goto
  <2> QED BY <1>4, <2>1, <2>2
<1>7. ASSUME NEW t \in Threads, Get(t) \/ Found(t) \/ Claim(t) PROVE MadeInv'
  BY <1>2, <1>4, <1>7 DEF Get, Found, Claim, Goto
<1>8. ASSUME NEW t \in Threads, ReadVar(t) PROVE MadeInv'
  <2>1. /\ pc[t] = "read" /\ cell = {} /\ \A u \in Threads \ {t} : pc[u] # "spawn"
        /\ UNCHANGED <<cell, sent>>
    BY <1>3, <1>8 DEF ReadVar
  <2>2. CASE at'[t] # 4
    <3>1. UNCHANGED <<pc, expected>>
      BY <1>8, <2>2, Orders DEF ReadVar
    <3> QED BY <1>1, <2>1, <3>1 DEF MadeInv
  <2>3. CASE at'[t] = 4
    <3>1. pc' = [pc EXCEPT ![t] = "spawn"] /\ expected' = IF torn THEN {} ELSE {current}
      BY <1>8, <2>3, Orders DEF ReadVar, Goto
    <3>2. ~torn => seen'[t] = current
      <4> SUFFICES ASSUME ~torn PROVE seen'[t] = current
        OBVIOUS
      <4>1. at[t] + 1 = 4
        BY <1>2, <1>8, <2>3 DEF ReadVar
      <4>2. \A i \in 1..4 : seen'[t][ReadOrder[i]] = current[ReadOrder[i]]
        BY <1>8, <4>1, ReadsOn
      <4>3. TypeOK'
        BY TypeStep
      <4>4. seen'[t] \in Settings /\ current \in Settings
        BY <4>3 DEF TypeOK, Settings
      <4> QED BY <4>2, <4>4, SameSettings
    <3>3. \A u \in Threads : pc'[u] = "spawn" => u = t
      BY <1>2, <2>1, <3>1
    <3> QED BY <1>1, <2>1, <3>1, <3>2, <3>3 DEF MadeInv
  <2> QED BY <2>2, <2>3
<1>9. ASSUME NEW t \in Threads, Publish(t) PROVE MadeInv'
  <2> DEFINE logger == [config |-> seen[t], capacity |-> CapacityOf(queue)]
  <2>1. /\ pc[t] = "spawn" /\ cell = {} /\ cell' = {logger} /\ UNCHANGED <<sent, expected>>
        /\ pc' = [pc EXCEPT ![t] = "idle"]
    BY <1>3, <1>9 DEF Publish, Idle, Goto
  <2>2. logger.config = seen[t]
    OBVIOUS
  <2> HIDE DEF logger
  <2>3. \A u \in Threads : pc'[u] # "spawn"
    BY <1>2, <1>3, <2>1
  <2>4. \A c \in expected : c = logger.config
    BY <1>1, <2>1, <2>2
  <2>5. sent = {}
    BY <1>1, <2>1
  <2> QED BY <2>1, <2>3, <2>4, <2>5 DEF MadeInv
<1>10. ASSUME NEW t \in Threads, Send(t) PROVE MadeInv'
  <2>1. /\ UNCHANGED <<expected, cell, pc, seen>> /\ got[t] \subseteq cell
        /\ sent' = sent \cup {Destination(l.config) : l \in got[t]}
    BY <1>10 DEF Send, IInv, Shape
  <2>2. sent' \subseteq {Destination(l.config) : l \in cell}
    BY <1>1, <2>1
  <2> QED BY <1>1, <2>1, <2>2 DEF MadeInv
<1>11. CASE UNCHANGED vars
  BY <1>4, <1>11 DEF vars
<1> QED BY <1>5, <1>6, <1>7, <1>8, <1>9, <1>10, <1>11 DEF Next, Global

LEMMA Started == Spec => [](IInv /\ StartInv)
<1>1. IInv /\ StartInv /\ [Next]_vars => IInv' /\ StartInv'
  BY NextFilled, TypeStep, AtStep, EnvStep, MadeStep DEF StartInv
<1> QED BY <1>1, InitFilled, InitStart, PTL DEF Spec

\* Every variable keeps its type, and the channel of a logger always has room for an
\* entry, whatever the variable for its capacity says.
THEOREM InitTypeCorrect == Spec => []TypeOK
<1>1. StartInv => TypeOK
  BY DEF StartInv
<1> QED BY <1>1, Started, PTL

\* Entries go where the last set_config before the first use said, whatever threads
\* configure and use the logger later, and however often its start failed.
THEOREM ConfigTakesEffect == Spec => []TakesEffect
<1>1. StartInv => TakesEffect
  <2> SUFFICES ASSUME StartInv, NEW c \in expected PROVE sent \subseteq {Destination(c)}
    BY DEF TakesEffect
  <2>1. \A l \in cell : l.config = c
    BY DEF StartInv, MadeInv
  <2> QED BY <2>1 DEF StartInv, MadeInv
<1> QED BY <1>1, Started, PTL
=============================================================================
