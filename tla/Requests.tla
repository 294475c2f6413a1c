------------------------------ MODULE Requests ------------------------------
(***************************************************************************)
(* Requests on their way through the library: the Axum middleware of       *)
(* src/axum_middleware_impl.rs and the tonic interceptor and wrappers of   *)
(* src/grpc_impl.rs.  Both give a request a context with an id and a list  *)
(* of target calls, which the handler and the tasks it spawns share, and   *)
(* hand one entry to Logger::log when the handler has answered.            *)
(*                                                                         *)
(* A step is what a request's task does between two awaits, split where a  *)
(* task that holds the context can come between.  A context, and the UUID  *)
(* generated for it, is named by the request it was made for.              *)
(***************************************************************************)
EXTENDS Integers, Sequences, FiniteSets, SequencesExt

CONSTANTS
    Requests,     \* requests the process serves
    ClientIds,    \* ids clients send
    NoId,         \* no x-request-id, or one that to_str refuses
    Blank,        \* the empty string
    MaxTargets,   \* MAX_TARGET_LOGS
    MaxPushes     \* bound: target calls recorded per context

ASSUME RequestsAssumption ==
    /\ IsFiniteSet(Requests)
    /\ ClientIds \cap Requests = {}
    /\ {NoId, Blank} \cap (ClientIds \cup Requests) = {} /\ NoId # Blank
    /\ MaxTargets \in Nat \ {0} /\ MaxPushes \in Nat

VARIABLES
    pc,         \* per request: the step it is at
    route,      \* per request: who serves it, see Routes
    sent,       \* per request: the id the client sent
    header,     \* per request: x-request-id as the handler sees it
    context,    \* per request: {its context}, or {} while it has none
    answer,     \* per request: what the handler answered
    entries,    \* per request: entries handed to Logger::log
    replyId,    \* per request: x-request-id the library put on the response
    id,         \* per context: request_id
    clientLog,  \* per context: client_log
    taken,      \* per request: what it took out of client_log
    pushes,     \* history, per context: calls of log_axum_client or log_grpc_client
    refused,    \* history, per context: those that found client_log full
    before      \* history, per request: pushes when it took client_log

contexts == <<id, clientLog, pushes, refused>>
vars == <<pc, route, sent, header, context, answer, entries, replyId,
          contexts, taken, before>>

\* "axum": behind WelogLayer; "grpc": wrapper and interceptor; "bare": wrapper
\* without interceptor; "nested": a wrapper called by a handler that passes its
\* own extensions on.
Routes == {"axum", "grpc", "bare", "nested"}

\* Of an answer: Ok or Err, and whether the body of an Ok ends, which only the
\* middleware can tell.
Answers == {"ok", "endless", "error"}

Context(r) == CHOOSE c \in context[r] : TRUE

Init ==
    /\ pc = [r \in Requests |-> "new"] /\ route \in [Requests -> Routes]
    /\ sent = [r \in Requests |-> NoId] /\ header = sent
    /\ context = [r \in Requests |-> {}]
    /\ answer = [r \in Requests |-> "none"]
    /\ entries = [r \in Requests |-> <<>>]
    /\ replyId = [r \in Requests |-> NoId]
    /\ id = [r \in Requests |-> NoId]
    /\ clientLog = [r \in Requests |-> <<>>]
    /\ taken = [r \in Requests |-> <<>>]
    /\ pushes = [r \in Requests |-> 0] /\ refused = [r \in Requests |-> {}]
    /\ before = [r \in Requests |-> 0]

Goto(r, step) == pc' = [pc EXCEPT ![r] = step]

\* A request reaches the service.  A nested one comes from a handler at work and
\* brings that handler's context along.
Arrive(r, i) ==
    /\ pc[r] = "new"
    /\ sent' = [sent EXCEPT ![r] = i] /\ header' = [header EXCEPT ![r] = i]
    /\ IF route[r] = "nested"
       THEN \E caller \in Requests :
               /\ pc[caller] = "handler" /\ route[caller] # "axum"
               /\ context' = [context EXCEPT ![r] = context[caller]]
       ELSE UNCHANGED context
    /\ Goto(r, CASE route[r] = "axum" -> "read"
                 [] route[r] = "grpc" -> "intercept"
                 [] OTHER             -> "wrap")
    /\ UNCHANGED <<route, answer, entries, replyId, contexts, taken, before>>

-----------------------------------------------------------------------------
(* Entering *)

\* Mutant: one id for the whole process.
FreshOnce(r) == CHOOSE q \in Requests : TRUE

\* Uuid::new_v4
Fresh(r) == r

\* The context of r, with the id i and an empty list.
NewContext(r, i) ==
    /\ context' = [context EXCEPT ![r] = {r}]
    /\ id' = [id EXCEPT ![r] = i]
    /\ clientLog' = [clientLog EXCEPT ![r] = <<>>]
    /\ UNCHANGED <<pushes, refused>>

\* Mutant: the id is not written back to the request parts.
EnterAxumUnheaded(r) ==
    /\ pc[r] = "read"
    /\ NewContext(r, IF sent[r] = NoId THEN Fresh(r) ELSE sent[r])
    /\ Goto(r, "handler")
    /\ UNCHANGED <<route, sent, header, answer, entries, replyId, taken, before>>

\* WelogMiddleware::call, from the captured request body to the inner service: an
\* id the client sent is kept, an empty one too.
EnterAxum(r) ==
    /\ pc[r] = "read"
    /\ LET i == IF sent[r] = NoId THEN Fresh(r) ELSE sent[r]
       IN  NewContext(r, i) /\ header' = [header EXCEPT ![r] = i]
    /\ Goto(r, "handler")
    /\ UNCHANGED <<route, sent, answer, entries, replyId, taken, before>>

\* fetch_request_id: an id that is missing or unreadable is empty.
FetchRequestId(r) == IF sent[r] = NoId THEN Blank ELSE sent[r]

\* set_request_id on the metadata of r, which replaces an id that is there.
SetRequestId(metadata, r, i) == [metadata EXCEPT ![r] = i]

\* WelogGrpcInterceptor::call: an empty id counts as missing.
Intercept(r) ==
    /\ pc[r] = "intercept"
    /\ LET i == IF FetchRequestId(r) = Blank THEN Fresh(r) ELSE FetchRequestId(r)
       IN  NewContext(r, i) /\ header' = SetRequestId(header, r, i)
    /\ Goto(r, "wrap")
    /\ UNCHANGED <<route, sent, answer, entries, replyId, taken, before>>

\* with_grpc_unary_logging and with_grpc_stream_logging up to the handler:
\* ensure_context takes the context it finds, or makes one with whatever id the
\* metadata has.
Wrap(r) ==
    /\ pc[r] = "wrap" /\ Goto(r, "handler")
    /\ IF context[r] # {}
       THEN UNCHANGED <<context, contexts>>
       ELSE NewContext(r, FetchRequestId(r))
    /\ UNCHANGED <<route, sent, header, answer, entries, replyId, taken, before>>

-----------------------------------------------------------------------------
(* The handler *)

\* Mutant: nothing limits client_log.
RecordTargetUnlimited(c) ==
    /\ \E r \in Requests : context[r] = {c} /\ pc[r] \notin {"read", "intercept", "wrap"}
    /\ pushes[c] < MaxPushes /\ pushes' = [pushes EXCEPT ![c] = @ + 1]
    /\ clientLog' = [clientLog EXCEPT ![c] = Append(@, pushes[c] + 1)]
    /\ UNCHANGED <<pc, route, sent, header, context, answer, entries, replyId,
                   id, refused, taken, before>>

\* Mutant: the newest target call is put first.
RecordTargetFirst(c) ==
    /\ \E r \in Requests : context[r] = {c} /\ pc[r] \notin {"read", "intercept", "wrap"}
    /\ pushes[c] < MaxPushes /\ pushes' = [pushes EXCEPT ![c] = @ + 1]
    /\ IF Len(clientLog[c]) < MaxTargets
       THEN /\ clientLog' = [clientLog EXCEPT ![c] = <<pushes[c] + 1>> \o @]
            /\ UNCHANGED refused
       ELSE /\ refused' = [refused EXCEPT ![c] = @ \cup {pushes[c] + 1}]
            /\ UNCHANGED clientLog
    /\ UNCHANGED <<pc, route, sent, header, context, answer, entries, replyId,
                   id, taken, before>>

\* log_axum_client or log_grpc_client, by the handler or by a task it gave the
\* context to, which may go on after the handler: test and push under the lock.
RecordTarget(c) ==
    /\ \E r \in Requests : context[r] = {c} /\ pc[r] \notin {"read", "intercept", "wrap"}
    /\ pushes[c] < MaxPushes /\ pushes' = [pushes EXCEPT ![c] = @ + 1]
    /\ IF Len(clientLog[c]) < MaxTargets
       THEN /\ clientLog' = [clientLog EXCEPT ![c] = Append(@, pushes[c] + 1)]
            /\ UNCHANGED refused
       ELSE /\ refused' = [refused EXCEPT ![c] = @ \cup {pushes[c] + 1}]
            /\ UNCHANGED clientLog
    /\ UNCHANGED <<pc, route, sent, header, context, answer, entries, replyId,
                   id, taken, before>>

\* Mutant: `?` on the result of a gRPC handler.
AnswerUnlogged(r, a) ==
    /\ pc[r] = "handler" /\ (a = "endless" => route[r] = "axum")
    /\ answer' = [answer EXCEPT ![r] = a]
    /\ Goto(r, IF a = "error" THEN "done"
               ELSE IF route[r] = "axum" THEN "capture" ELSE "take")
    /\ UNCHANGED <<route, sent, header, context, entries, replyId, contexts, taken, before>>

\* The handler returns.  The middleware passes an Err of the inner service on at
\* once; a wrapper logs it like an Ok.  It does not wait for a response stream.
Answer(r, a) ==
    /\ pc[r] = "handler" /\ (a = "endless" => route[r] = "axum")
    /\ answer' = [answer EXCEPT ![r] = a]
    /\ Goto(r, IF route[r] # "axum" THEN "take"
               ELSE IF a = "error" THEN "done" ELSE "capture")
    /\ UNCHANGED <<route, sent, header, context, entries, replyId, contexts, taken, before>>

\* to_bytes on the body of the response: the whole of it, or nothing after an
\* error; it does not return while the body goes on.
CaptureResponse(r) ==
    /\ pc[r] = "capture" /\ answer[r] # "endless" /\ Goto(r, "take")
    /\ UNCHANGED <<route, sent, header, context, answer, entries, replyId,
                   contexts, taken, before>>

\* The task is dropped at an await (the client went away), or the handler panics.
Drop(r) ==
    /\ pc[r] \in {"read", "handler", "capture"} /\ Goto(r, "gone")
    /\ UNCHANGED <<route, sent, header, context, answer, entries, replyId,
                   contexts, taken, before>>

-----------------------------------------------------------------------------
(* Logging *)

\* Mutant: client_log is cloned.
TakeCopy(r) ==
    /\ pc[r] = "take" /\ Goto(r, "log")
    /\ taken' = [taken EXCEPT ![r] = clientLog[Context(r)]]
    /\ before' = [before EXCEPT ![r] = pushes[Context(r)]]
    /\ UNCHANGED <<route, sent, header, context, answer, entries, replyId, contexts>>

\* Mutant: waits until no task holds the context any more.
TakeUnshared(r) ==
    /\ pc[r] = "take" /\ pushes[Context(r)] = MaxPushes /\ Goto(r, "log")
    /\ taken' = [taken EXCEPT ![r] = clientLog[Context(r)]]
    /\ clientLog' = [clientLog EXCEPT ![Context(r)] = <<>>]
    /\ before' = [before EXCEPT ![r] = pushes[Context(r)]]
    /\ UNCHANGED <<route, sent, header, context, answer, entries, replyId,
                   id, pushes, refused>>

\* mem::take under the lock, in log_axum or read_client_log.
TakeTargets(r) ==
    /\ pc[r] = "take" /\ Goto(r, "log")
    /\ taken' = [taken EXCEPT ![r] = clientLog[Context(r)]]
    /\ clientLog' = [clientLog EXCEPT ![Context(r)] = <<>>]
    /\ before' = [before EXCEPT ![r] = pushes[Context(r)]]
    /\ UNCHANGED <<route, sent, header, context, answer, entries, replyId,
                   id, pushes, refused>>

Entry(r) == [id |-> id[Context(r)], target |-> taken[r]]

\* Logger::log, and the response goes out: a wrapper has put the id of the context
\* on an Ok, the middleware returns the response as it was.
Log(r) ==
    /\ pc[r] = "log" /\ Goto(r, "done")
    /\ entries' = [entries EXCEPT ![r] = Append(@, Entry(r))]
    /\ replyId' = IF route[r] # "axum" /\ answer[r] # "error"
                  THEN SetRequestId(replyId, r, id[Context(r)]) ELSE replyId
    /\ UNCHANGED <<route, sent, header, context, answer, contexts, taken, before>>

\* println! in Logger::log panics: no entry, and no response.
LogPanics(r) ==
    /\ pc[r] = "log" /\ Goto(r, "gone")
    /\ UNCHANGED <<route, sent, header, context, answer, entries, replyId,
                   contexts, taken, before>>

-----------------------------------------------------------------------------
Library(r) ==
    \/ EnterAxum(r) \/ Intercept(r) \/ Wrap(r)
    \/ CaptureResponse(r) \/ TakeTargets(r) \/ Log(r)

Environment(r) ==
    \/ \E i \in ClientIds \cup {NoId, Blank} : Arrive(r, i)
    \/ \E a \in Answers : Answer(r, a)
    \/ RecordTarget(r) \/ Drop(r) \/ LogPanics(r)

Next == \E r \in Requests : Library(r) \/ Environment(r)

Spec == Init /\ [][Next]_vars

\* The runtime polls a request's task until it ends or is dropped; nothing is
\* assumed of clients, handlers and their tasks.
FairSpec == Spec /\ \A r \in Requests : WF_vars(Library(r))

-----------------------------------------------------------------------------
(* Properties *)

Ids == ClientIds \cup Requests \cup {Blank}

\* Every variable has its type, and no list of target calls exceeds its limit.
TypeOK ==
    /\ pc \in [Requests -> {"new", "read", "intercept", "wrap", "handler", "capture",
                            "take", "log", "done", "gone"}]
    /\ route \in [Requests -> Routes]
    /\ sent \in [Requests -> ClientIds \cup {NoId, Blank}]
    /\ header \in [Requests -> Ids \cup {NoId}] /\ replyId \in [Requests -> Ids \cup {NoId}]
    /\ context \in [Requests -> SUBSET Requests] /\ id \in [Requests -> Ids \cup {NoId}]
    /\ answer \in [Requests -> Answers \cup {"none"}]
    /\ clientLog \in [Requests -> Seq(1..MaxPushes)] /\ taken \in [Requests -> Seq(1..MaxPushes)]
    /\ \A r \in Requests : Len(clientLog[r]) <= MaxTargets /\ Len(taken[r]) <= MaxTargets
    /\ entries \in [Requests -> Seq([id : Ids, target : Seq(1..MaxPushes)])]
    /\ pushes \in [Requests -> 0..MaxPushes] /\ before \in [Requests -> 0..MaxPushes]
    /\ refused \in [Requests -> SUBSET (1..MaxPushes)]

\* A request is answered if and only if it was logged, once, before the answer;
\* but an error of the inner service passes the middleware unlogged, and a request
\* that is dropped on the way, or whose log entry cannot be printed, leaves no trace.
LoggedOnce ==
    \A r \in Requests :
        Len(entries[r]) =
            IF pc[r] = "done" /\ ~(route[r] = "axum" /\ answer[r] = "error") THEN 1 ELSE 0

\* A list that was full when call n came.
FullBefore(list, n) == Len(list) = MaxTargets /\ \A k \in ToSet(list) : k < n

\* However handlers and the tasks they left behind interleave with the logging of
\* requests that share their context, a target call meets one fate: it was refused,
\* because a list was full; or it is in the list and came later than whatever has been
\* taken, so that it goes unread if no request is left to take it; or one request took
\* it, whose one entry tells it, unless that request is about to log or its entry
\* could not be printed.
TargetsKept ==
    \A c \in Requests : \A n \in 1..pushes[c] :
        LET sharers  == {r \in Requests : context[r] = {c}}
            tellers  == {r \in sharers : \E i \in 1..Len(entries[r]) :
                                            n \in ToSet(entries[r][i].target)}
            carriers == {r \in sharers : pc[r] \in {"log", "gone"} /\ n \in ToSet(taken[r])}
            listed   == n \in ToSet(clientLog[c])
        IN  \/ /\ n \in refused[c] /\ ~listed /\ tellers = {} /\ carriers = {}
               /\ \E list \in {clientLog[c]} \cup {taken[r] : r \in sharers} : FullBefore(list, n)
            \/ /\ n \notin refused[c] /\ listed /\ tellers = {} /\ carriers = {}
               /\ \A r \in sharers : n > before[r]
            \/ /\ n \notin refused[c] /\ ~listed
               /\ \E r \in sharers : {tellers, carriers} = {{r}, {}}

\* An entry has its target calls in the order they were recorded, and what is left
\* in the list was recorded after every entry built from it.
TargetsInTime ==
    \A r \in Requests : pc[r] \in {"log", "done"} /\ entries[r] # <<>> =>
        /\ \A m, n \in 1..Len(taken[r]) : m < n => taken[r][m] < taken[r][n]
        /\ \A n \in ToSet(taken[r]) : n <= before[r]
        /\ \A n \in ToSet(clientLog[Context(r)]) : n > before[r]

\* Every entry, and every gRPC response, has the id of the context it was made in:
\* the id of the client of the request c that the context was made for (the caller,
\* if r is a nested call, whatever id r itself came with), or else a fresh one, and
\* the handler of c sees it in the header; but without the interceptor a missing id
\* is the empty one, which only the interceptor does not accept from a client.
IdsAgree ==
    \A r \in Requests : entries[r] # <<>> =>
        LET c == Context(r)
            i == entries[r][1].id
        IN  /\ c = r <=> route[r] # "nested"
            /\ \A q \in Requests :
                  entries[q] # <<>> /\ context[q] = context[r] => entries[q][1].id = i
            /\ route[r] # "axum" /\ answer[r] # "error" => replyId[r] = i
            /\ sent[c] \in ClientIds => i = sent[c]
            /\ route[c] \in {"axum", "grpc"} => i = header[c]
            /\ i = Blank <=> \/ sent[c] = Blank /\ route[c] # "grpc"
                             \/ sent[c] = NoId /\ route[c] = "bare"

\* Two entries have the same id only if they share a context, or their clients
\* chose it, or it is empty.
EntriesCorrelate ==
    \A r, q \in Requests : entries[r] # <<>> /\ entries[q] # <<>> =>
        \/ entries[r][1].id # entries[q][1].id
        \/ context[r] = context[q]
        \/ entries[r][1].id \in ClientIds \cup {Blank}

\* A request whose handler has answered gets its response, unless it is dropped,
\* whatever the tasks that share its context do; an endless body never passes the
\* middleware.
AnswersGoOut ==
    \A r \in Requests :
        pc[r] \in {"capture", "take", "log"} /\ ~(pc[r] = "capture" /\ answer[r] = "endless")
            ~> pc[r] \in {"done", "gone"}

-----------------------------------------------------------------------------
(* What the documentation says and the code does not do *)

\* "the value is added back to the response headers"
ResponseCarriesId ==
    \A r \in Requests :
        route[r] = "axum" /\ pc[r] = "done" /\ answer[r] # "error" => replyId[r] = id[Context(r)]
=============================================================================
