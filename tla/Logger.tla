------------------------------- MODULE Logger -------------------------------
(***************************************************************************)
(* The logger of src/logger.rs: threads that call Logger::log, the bounded *)
(* channel, the worker thread, and the Elasticsearch request it waits for. *)
(* The fallback file is one step here; FallbackFile has its inside.         *)
(*                                                                          *)
(* An entry is named by its thread and the number of the call.              *)
(***************************************************************************)
EXTENDS Integers, Sequences, FiniteSets

CONSTANTS
    Threads,        \* application threads
    MaxCalls,       \* bound: calls of log() per thread
    Capacity,       \* queue_capacity
    NoticeEvery,    \* 1000: every so many dropped entries one notice
    Oversized,      \* entries whose record is larger than logs.txt may be
    MaxRestarts     \* bound: times the process ends and starts again

ASSUME LoggerAssumption ==
    /\ IsFiniteSet(Threads)
    /\ MaxCalls \in Nat
    /\ Capacity \in Nat \ {0}
    /\ NoticeEvery \in Nat \ {0}
    /\ Oversized \subseteq Threads \X (1..MaxCalls)
    /\ MaxRestarts \in Nat

VARIABLES
    url,         \* elastic_url is set and not empty
    pc,          \* per thread: the step log() is at, "idle" outside
    calls,       \* per thread: calls of log() so far
    got,         \* per thread: what fetch_add returned, plus one
    queue,       \* the channel
    wpc,         \* the step the worker is at, "dead" once it panicked
    current,     \* <<entry>> while the worker handles one, <<>> otherwise
    dropped,     \* dropped_count
    stdoutOk,    \* println! succeeds; otherwise it panics
    stderrOk,    \* eprintln! succeeds; otherwise it panics
    inflight,    \* entries sent to the server and not indexed (yet)
    indexed,     \* entries Elasticsearch holds
    notices,     \* history: numbers the "dropped" notices printed
    accepted,    \* history: entries the channel took, in order
    refused,     \* history: entries this process found the channel full for
    outcome,     \* history: per entry, what the worker did with it
    restarts     \* times the process was replaced (bounded by MaxRestarts)

caller  == <<pc, calls, got>>
worker  == <<wpc, current>>
stdio   == <<stdoutOk, stderrOk>>
server  == <<inflight, indexed>>
vars    == <<url, caller, queue, worker, dropped, stdio, server,
             notices, accepted, refused, outcome, restarts>>

Entry == Threads \X (1..MaxCalls)

\* The entry of the call thread t is in.
Mine(t) == <<t, calls[t]>>

\* Accepted entries the worker is not done with, oldest first.
Backlog == current \o queue

Alive == wpc # "dead"

Init ==
    /\ url \in BOOLEAN
    /\ pc = [t \in Threads |-> "idle"] /\ calls = [t \in Threads |-> 0]
    /\ got = [t \in Threads |-> 0]
    /\ queue = <<>> /\ wpc = "recv" /\ current = <<>>
    /\ dropped = 0 /\ stdoutOk = TRUE /\ stderrOk = TRUE
    /\ inflight = {} /\ indexed = {}
    /\ notices = <<>> /\ accepted = <<>> /\ refused = {}
    /\ outcome = [e \in Entry |-> "none"] /\ restarts = 0

-----------------------------------------------------------------------------
(* Logger::log *)

Goto(t, step) == pc' = [pc EXCEPT ![t] = step]

Call(t) ==
    /\ pc[t] = "idle" /\ calls[t] < MaxCalls
    /\ calls' = [calls EXCEPT ![t] = @ + 1] /\ Goto(t, "print")
    /\ UNCHANGED <<url, got, queue, worker, dropped, stdio, server,
                   notices, accepted, refused, outcome, restarts>>

\* println!: the entry is not sent when it panics.
PrintEntry(t) ==
    /\ pc[t] = "print" /\ Goto(t, IF stdoutOk THEN "send" ELSE "idle")
    /\ UNCHANGED <<url, calls, got, queue, worker, dropped, stdio, server,
                   notices, accepted, refused, outcome, restarts>>

Enqueue(t) == queue' = Append(queue, Mine(t)) /\ accepted' = Append(accepted, Mine(t))

\* Mutant: send() instead of try_send(): the caller waits for room.
BlockingSend(t) ==
    /\ pc[t] = "send" /\ (Alive => Len(queue) < Capacity)
    /\ IF Alive
       THEN Enqueue(t) /\ Goto(t, "idle")
       ELSE Goto(t, "closed") /\ UNCHANGED <<queue, accepted>>
    /\ UNCHANGED <<url, calls, got, worker, dropped, stdio, server,
                   notices, refused, outcome, restarts>>

\* Mutant: channel() instead of sync_channel(): the queue has no limit.
UnboundedSend(t) ==
    /\ pc[t] = "send"
    /\ IF Alive
       THEN Enqueue(t) /\ Goto(t, "idle")
       ELSE Goto(t, "closed") /\ UNCHANGED <<queue, accepted>>
    /\ UNCHANGED <<url, calls, got, worker, dropped, stdio, server,
                   notices, refused, outcome, restarts>>

\* Mutant: one entry short of the capacity already counts as full.
EagerlyFullSend(t) ==
    /\ pc[t] = "send"
    /\ IF Alive /\ Len(queue) + 1 < Capacity
       THEN Enqueue(t) /\ Goto(t, "idle") /\ UNCHANGED refused
       ELSE /\ Goto(t, IF Alive THEN "count" ELSE "closed")
            /\ refused' = IF Alive THEN refused \cup {Mine(t)} ELSE refused
            /\ UNCHANGED <<queue, accepted>>
    /\ UNCHANGED <<url, calls, got, worker, dropped, stdio, server,
                   notices, outcome, restarts>>

\* try_send: Ok, Full or Disconnected.
TrySend(t) ==
    /\ pc[t] = "send"
    /\ \/ /\ Alive /\ Len(queue) < Capacity
          /\ Enqueue(t) /\ Goto(t, "idle") /\ UNCHANGED refused
       \/ /\ Alive /\ Len(queue) = Capacity
          /\ refused' = refused \cup {Mine(t)} /\ Goto(t, "count")
          /\ UNCHANGED <<queue, accepted>>
       \/ /\ ~Alive
          /\ Goto(t, "closed") /\ UNCHANGED <<queue, accepted, refused>>
    /\ UNCHANGED <<url, calls, got, worker, dropped, stdio, server,
                   notices, outcome, restarts>>

Due(n) == n = 1 \/ n % NoticeEvery = 0

\* Mutant: the counter is only kept when a notice is due.
CountWhenDue(t) ==
    /\ pc[t] = "count"
    /\ got' = [got EXCEPT ![t] = dropped + 1]
    /\ dropped' = IF Due(dropped + 1) THEN dropped + 1 ELSE dropped
    /\ Goto(t, IF Due(dropped + 1) THEN "notice" ELSE "idle")
    /\ UNCHANGED <<url, calls, queue, worker, stdio, server,
                   notices, accepted, refused, outcome, restarts>>

\* dropped_count.fetch_add(1) + 1, and whether a notice is due.
Count(t) ==
    /\ pc[t] = "count"
    /\ dropped' = dropped + 1 /\ got' = [got EXCEPT ![t] = dropped + 1]
    /\ Goto(t, IF Due(dropped + 1) THEN "notice" ELSE "idle")
    /\ UNCHANGED <<url, calls, queue, worker, stdio, server,
                   notices, accepted, refused, outcome, restarts>>

\* Mutant: the notice reads the counter again.
NoticeReloads(t) ==
    /\ pc[t] = "notice" /\ Goto(t, "idle")
    /\ notices' = IF stderrOk THEN Append(notices, dropped) ELSE notices
    /\ UNCHANGED <<url, calls, got, queue, worker, dropped, stdio, server,
                   accepted, refused, outcome, restarts>>

\* eprintln! of the number this thread's fetch_add returned.
Notice(t) ==
    /\ pc[t] = "notice" /\ Goto(t, "idle")
    /\ notices' = IF stderrOk THEN Append(notices, got[t]) ELSE notices
    /\ UNCHANGED <<url, calls, got, queue, worker, dropped, stdio, server,
                   accepted, refused, outcome, restarts>>

\* eprintln! "channel closed"; it too may panic, and the call ends either way.
ReportClosed(t) ==
    /\ pc[t] = "closed" /\ Goto(t, "idle")
    /\ UNCHANGED <<url, calls, got, queue, worker, dropped, stdio, server,
                   notices, accepted, refused, outcome, restarts>>

-----------------------------------------------------------------------------
(* worker_loop *)

\* The worker is done with its entry.
Done(kind) ==
    /\ outcome' = [outcome EXCEPT ![current[1]] = kind]
    /\ wpc' = "recv" /\ current' = <<>>

\* Mutant: the newest entry is received first.
ReceiveNewest ==
    /\ wpc = "recv" /\ queue # <<>>
    /\ current' = <<queue[Len(queue)]>> /\ queue' = SubSeq(queue, 1, Len(queue) - 1)
    /\ wpc' = IF url THEN "post" ELSE "fallback"
    /\ UNCHANGED <<url, caller, dropped, stdio, server,
                   notices, accepted, refused, outcome, restarts>>

\* `for fields in receiver`, and send_to_elastic's test of elastic_url.
Receive ==
    /\ wpc = "recv" /\ queue # <<>>
    /\ current' = <<Head(queue)>> /\ queue' = Tail(queue)
    /\ wpc' = IF url THEN "post" ELSE "fallback"
    /\ UNCHANGED <<url, caller, dropped, stdio, server,
                   notices, accepted, refused, outcome, restarts>>

Post ==
    /\ wpc = "post" /\ wpc' = "await" /\ inflight' = inflight \cup {current[1]}
    /\ UNCHANGED <<url, caller, queue, current, dropped, stdio, indexed,
                   notices, accepted, refused, outcome, restarts>>

\* A success status arrives.
Answered ==
    /\ wpc = "await" /\ current[1] \in indexed /\ Done("answered")
    /\ UNCHANGED <<url, caller, queue, dropped, stdio, server,
                   notices, accepted, refused, restarts>>

\* Mutant: an entry whose request failed is forgotten.
FailedForgotten ==
    /\ wpc = "await" /\ wpc' = "recv" /\ current' = <<>>
    /\ UNCHANGED <<url, caller, queue, dropped, stdio, server,
                   notices, accepted, refused, outcome, restarts>>

\* Mutant: without the global timeout only an answer of the server ends the wait.
FailedWithoutTimeout ==
    /\ wpc = "await" /\ current[1] \in indexed /\ wpc' = "fallback"
    /\ UNCHANGED <<url, caller, queue, current, dropped, stdio, server,
                   notices, accepted, refused, outcome, restarts>>

\* Any other status, an I/O error, or the global timeout of 5 s: the server may
\* have indexed the entry, or may yet.
Failed ==
    /\ wpc = "await" /\ wpc' = "fallback"
    /\ UNCHANGED <<url, caller, queue, current, dropped, stdio, server,
                   notices, accepted, refused, outcome, restarts>>

\* write_fallback returns: Ok for a record that is too large, which it skips; Ok
\* for one it stored, or an error to report.
Fallback ==
    /\ wpc = "fallback"
    /\ \/ current[1] \in Oversized /\ Done("skipped")
       \/ current[1] \notin Oversized /\ Done("stored")
       \/ /\ current[1] \notin Oversized
          /\ wpc' = "report" /\ UNCHANGED <<current, outcome>>
    /\ UNCHANGED <<url, caller, queue, dropped, stdio, server,
                   notices, accepted, refused, restarts>>

\* The end of every entry the process holds.
LoseBacklog ==
    /\ outcome' = [e \in Entry |->
                      IF \E i \in 1..Len(Backlog) : Backlog[i] = e THEN "lost" ELSE outcome[e]]
    /\ queue' = <<>> /\ current' = <<>>

\* Mutant: the worker unwraps the error of write_fallback.
ReportUnwraps ==
    /\ wpc = "report" /\ wpc' = "dead" /\ LoseBacklog
    /\ UNCHANGED <<url, caller, dropped, stdio, server,
                   notices, accepted, refused, restarts>>

\* eprintln! of the error; when it panics the worker ends and the channel with it.
Report ==
    /\ wpc = "report"
    /\ IF stderrOk
       THEN Done("reported") /\ UNCHANGED queue
       ELSE wpc' = "dead" /\ LoseBacklog
    /\ UNCHANGED <<url, caller, dropped, stdio, server,
                   notices, accepted, refused, restarts>>

-----------------------------------------------------------------------------
(* The environment *)

\* The server indexes a request it received, however late.  One that is lost or
\* rejected stays in `inflight` for ever.
Index(e) ==
    /\ e \in inflight /\ inflight' = inflight \ {e} /\ indexed' = indexed \cup {e}
    /\ UNCHANGED <<url, caller, queue, worker, dropped, stdio,
                   notices, accepted, refused, outcome, restarts>>

\* The reader of a standard stream goes away.
BreakStdio ==
    /\ \/ stdoutOk /\ stdoutOk' = FALSE /\ UNCHANGED stderrOk
       \/ stderrOk /\ stderrOk' = FALSE /\ UNCHANGED stdoutOk
    /\ UNCHANGED <<url, caller, queue, worker, dropped, server,
                   notices, accepted, refused, outcome, restarts>>

\* The process ends, by exit or crash, and starts again: there is no flush.
Restart ==
    /\ restarts < MaxRestarts /\ restarts' = restarts + 1
    /\ pc' = [t \in Threads |-> "idle"] /\ got' = [t \in Threads |-> 0]
    /\ LoseBacklog /\ wpc' = "recv" /\ dropped' = 0
    /\ stdoutOk' = TRUE /\ stderrOk' = TRUE
    /\ notices' = <<>> /\ refused' = {}
    /\ UNCHANGED <<url, calls, server, accepted>>

-----------------------------------------------------------------------------
InCall(t) == PrintEntry(t) \/ TrySend(t) \/ Count(t) \/ Notice(t) \/ ReportClosed(t)

Worker == Receive \/ Post \/ Answered \/ Failed \/ Fallback \/ Report

Environment == (\E e \in inflight : Index(e)) \/ BreakStdio \/ Restart

Next == (\E t \in Threads : Call(t) \/ InCall(t)) \/ Worker \/ Environment

Spec == Init /\ [][Next]_vars

\* Callers are scheduled; nothing is assumed of the worker or the server.
CallerSpec == Spec /\ \A t \in Threads : WF_vars(InCall(t))

-----------------------------------------------------------------------------
(* Properties *)

\* Every variable of the logger has its type, and the channel its capacity.
TypeOK ==
    /\ url \in BOOLEAN /\ stdoutOk \in BOOLEAN /\ stderrOk \in BOOLEAN
    /\ pc \in [Threads -> {"idle", "print", "send", "count", "notice", "closed"}]
    /\ calls \in [Threads -> 0..MaxCalls] /\ got \in [Threads -> Nat]
    /\ queue \in Seq(Entry) /\ Len(queue) <= Capacity
    /\ wpc \in {"recv", "post", "await", "fallback", "report", "dead"}
    /\ current \in Seq(Entry)
    /\ Len(current) = IF wpc \in {"recv", "dead"} THEN 0 ELSE 1
    /\ dropped \in Nat
    /\ inflight \in SUBSET Entry /\ indexed \in SUBSET Entry
    /\ notices \in Seq(Nat) /\ accepted \in Seq(Entry) /\ refused \in SUBSET Entry
    /\ outcome \in [Entry -> {"none", "answered", "stored", "skipped", "reported", "lost"}]
    /\ restarts \in 0..MaxRestarts

\* Entries are handled in the order the channel accepted them: what the worker
\* holds and what is queued are always the last entries accepted.
QueueOrder ==
    LET settled == Len(accepted) - Len(Backlog)
    IN  /\ settled >= 0
        /\ \A i \in 1..Len(Backlog) : Backlog[i] = accepted[settled + i]

\* No accepted entry vanishes and none is handled twice: it waits, or exactly one
\* outcome was recorded, and an outcome that relies on Elasticsearch is true.
NothingVanishes ==
    /\ \A i \in 1..Len(accepted) :
          outcome[accepted[i]] = "none" <=> \E j \in 1..Len(Backlog) : Backlog[j] = accepted[i]
    /\ \A e \in Entry : outcome[e] = "answered" => e \in indexed

\* An accepted entry ends without being delivered, stored or reported for three
\* causes only: its record is larger than logs.txt may be (skipped with Ok), the
\* process ended, or the worker died of an error it could not report.
LostOnlyWithCause ==
    \A e \in Entry : outcome[e] \in {"lost", "skipped"} =>
        \/ outcome[e] = "skipped" /\ e \in Oversized
        \/ outcome[e] = "lost" /\ (restarts > 0 \/ (wpc = "dead" /\ ~stderrOk))

\* dropped_count is the number of entries refused, up to the callers that are
\* between try_send and fetch_add.
DropsCounted ==
    dropped + Cardinality({t \in Threads : pc[t] = "count"}) = Cardinality(refused)

\* However callers interleave between fetch_add and eprintln!, the first drop and
\* every NoticeEvery-th are announced once each and no other number is.
NoticesExact ==
    LET said    == {notices[i] : i \in 1..Len(notices)}
        pending == {got[t] : t \in {u \in Threads : pc[u] = "notice"}}
    IN  /\ Cardinality(said) = Len(notices)
        /\ said \cap pending = {}
        /\ stderrOk => said \cup pending = {n \in 1..dropped : Due(n)}

\* A call of log() ends whatever the worker and the server do (try_send).
NonBlocking == \A t \in Threads : pc[t] # "idle" ~> pc[t] = "idle"

\* Every accepted entry reaches an outcome, though no server ever answers.
Drains ==
    \A e \in Entry : (\E i \in 1..Len(Backlog) : Backlog[i] = e) ~> outcome[e] # "none"

\* The logger implements the lossy queue.
Abstract ==
    INSTANCE LossyQueue WITH
        Entries <- Entry,
        backlog <- Backlog,
        settled <- {e \in Entry : outcome[e] \notin {"none", "lost"}},
        open    <- Alive

IsLossyQueue == Abstract!Spec
=============================================================================
