---------------------------- MODULE LoggerSystem ----------------------------
(***************************************************************************)
(* The logger with its file: Logger with the calls of write_fallback that  *)
(* FallbackFile describes in the place of the step Fallback.  The process  *)
(* may end inside such a call, and what it leaves of logs.txt and logs.tmp *)
(* is what the next process finds.                                         *)
(***************************************************************************)
EXTENDS Logger

CONSTANTS Max, Sizes, MaxWrites, MaxFaults   \* as in FallbackFile

ASSUME SystemAssumption ==
    /\ Max \in Nat \ {0} /\ Sizes \subseteq Nat \ {0}
    /\ MaxWrites \in Nat /\ MaxFaults \in Nat

VARIABLES
    fpc,      \* pc of FallbackFile; the other variables have their names
    size, result, exists, file, bytes, src, tmp, tmpBytes, removed, toFree,
    stream, faulted, writes, faults,
    writing,  \* the worker is in write_fallback
    place     \* history, per entry: the bytes <<from, to>> of its record in the stream

F == INSTANCE FallbackFile WITH pc <- fpc

fileVars == <<fpc, size, result, exists, file, bytes, src, tmp, tmpBytes, removed,
              toFree, stream, faulted, writes, faults>>
systemVars == <<vars, fileVars, writing, place>>

SystemInit ==
    /\ Init /\ F!Init /\ writing = FALSE
    /\ place = [e \in Entry |-> {}]

\* The step A of the logger alone.
Alone(A) == A /\ UNCHANGED <<fileVars, writing, place>>

\* The worker calls write_fallback with the record of its entry.
BeginFallback ==
    /\ wpc = "fallback" /\ ~writing /\ writing' = TRUE
    /\ \E n \in Sizes : (n > Max <=> current[1] \in Oversized) /\ F!Begin(n)
    /\ UNCHANGED <<vars, place>>

\* write_fallback goes on, by itself or disturbed by a failing system call.
InFallback(A) ==
    /\ writing /\ A
    /\ place' = IF fpc = "append" /\ result' = "ok"
                THEN [place EXCEPT ![current[1]] = @ \cup {<<stream, stream'>>}]
                ELSE place
    /\ UNCHANGED <<vars, writing>>

\* Mutant: the result is ignored.
EndFallbackIgnored ==
    /\ writing /\ fpc = "idle" /\ writing' = FALSE
    /\ wpc = "fallback" /\ Done("stored")
    /\ UNCHANGED <<url, caller, queue, dropped, stdio, server, notices, accepted,
                   refused, restarts, fileVars, place>>

\* Mutant: an error drops the entry without a report.
EndFallbackSilent ==
    /\ writing /\ fpc = "idle" /\ writing' = FALSE
    /\ wpc = "fallback"
    /\ \/ result = "ok" /\ Done("stored")
       \/ result = "skipped" /\ Done("skipped")
       \/ result = "err" /\ wpc' = "recv" /\ current' = <<>> /\ UNCHANGED outcome
    /\ UNCHANGED <<url, caller, queue, dropped, stdio, server, notices, accepted,
                   refused, restarts, fileVars, place>>

\* It returns to worker_loop, which reports an error.
EndFallback ==
    /\ writing /\ fpc = "idle" /\ writing' = FALSE
    /\ wpc = "fallback"
    /\ \/ result = "ok" /\ Done("stored")
       \/ result = "skipped" /\ Done("skipped")
       \/ result = "err" /\ wpc' = "report" /\ UNCHANGED <<current, outcome>>
    /\ UNCHANGED <<url, caller, queue, dropped, stdio, server, notices, accepted,
                   refused, restarts, fileVars, place>>

\* Somebody removes logs.txt.
DeleteFile == F!DeleteFile /\ UNCHANGED <<vars, writing, place>>

\* The process ends, perhaps inside write_fallback, and starts again.
SystemRestart ==
    /\ Restart /\ writing' = FALSE /\ UNCHANGED place
    /\ IF fpc = "idle" THEN UNCHANGED fileVars ELSE F!Crash

-----------------------------------------------------------------------------
SystemWorker ==
    \/ Alone(Receive \/ Post \/ Answered \/ Failed \/ Report)
    \/ BeginFallback \/ InFallback(F!Step) \/ EndFallback

SystemNext ==
    \/ \E t \in Threads : Alone(Call(t) \/ InCall(t))
    \/ SystemWorker
    \/ InFallback(F!IOError \/ \E n \in 1..Max, utf8 \in BOOLEAN : F!TornAppend(n, utf8))
    \/ Alone((\E e \in inflight : Index(e)) \/ BreakStdio)
    \/ DeleteFile \/ SystemRestart

SystemSpec == SystemInit /\ [][SystemNext]_systemVars

\* The worker thread is scheduled; its request has a timeout, and no call of the
\* file system hangs.
FairSystemSpec == SystemSpec /\ WF_systemVars(SystemWorker)

-----------------------------------------------------------------------------
(* Properties *)

\* Besides these, Drains of Logger: every accepted entry reaches an outcome, now
\* through every step of write_fallback.

\* With the whole of write_fallback in its place, the logger still behaves like
\* Logger, where that is a single step: what holds there holds here.
IsLogger == Spec

\* An entry counted as stored was written whole, and no record is ever cut: it is
\* in one line of logs.txt, or none of it is there any more, whatever torn writes,
\* trims, crashes and deletions came later.
StoredIsWhole ==
    \A e \in Entry :
        /\ outcome[e] = "stored" => place[e] # {}
        /\ \A r \in place[e] :
              \/ file = <<>> \/ r[2] <= file[1].from
              \/ \E i \in 1..Len(file) : file[i].from <= r[1] /\ r[2] <= file[i].to

\* Server and file together: an entry is written to logs.txt at most once, never
\* after the server confirmed it, and in the order in which entries were accepted.
WrittenOnceInOrder ==
    /\ \A e \in Entry :
          /\ Cardinality(place[e]) <= 1
          /\ place[e] # {} => outcome[e] \in {"none", "stored", "lost"}
    /\ \A i, j \in 1..Len(accepted) : i < j =>
          \A r \in place[accepted[i]], s \in place[accepted[j]] : r[2] <= s[1]
=============================================================================
