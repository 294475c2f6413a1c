------------------------------ MODULE Document ------------------------------
(***************************************************************************)
(* The JSON document of a log entry: the fields the Axum middleware and    *)
(* the gRPC wrappers build from a request (log_axum, log_grpc_unary,       *)
(* log_grpc_stream, build_target_log_fields), or that the application      *)
(* passes to Logger::log itself, and what enrich_with_ecs adds to them.    *)
(*                                                                         *)
(* A document is a function from paths, the tuples of keys that lead to a  *)
(* value, to values <<kind, contents>>.  The members of an object that     *)
(* enrichment may open are paths of their own; other objects and arrays    *)
(* keep their contents.  A string that is a timestamp has the kind "time"  *)
(* and an integer for the instant.                                         *)
(***************************************************************************)
EXTENDS Integers, Sequences, FiniteSets, SequencesExt, TLC

CONSTANTS
    UserFields,   \* <<path, value>>: fields an application may log
    MaxFields,    \* bound: fields, or target calls, of one entry
    Calls,        \* requests: see AxumEntry and GrpcCommon
    TargetCalls,  \* target calls: see BuildTargetLogFields
    MaxTargets,   \* MAX_TARGET_LOGS
    BinaryNames,  \* metadata keys that end in -bin
    Base64,       \* general_purpose::STANDARD.encode, of the values that occur
    Now,          \* Local::now() in enrich_with_ecs
    MaxNanos,     \* i64::MAX nanoseconds, 292 years
    MaxTime,      \* the end of DateTime, 262000 years
    MaxDelta      \* TimeDelta::MAX, 292 million years

ASSUME DocumentAssumption ==
    /\ MaxFields \in Nat /\ Now \in Nat /\ MaxTargets \in Nat \ {0}
    /\ MaxNanos \in Nat /\ MaxTime \in Nat /\ MaxDelta \in Nat
    /\ MaxNanos < MaxTime /\ MaxTime < MaxDelta
    /\ \A f \in UserFields : f[2][1] = "time" => f[2][2] \in Int
    /\ \A q \in Calls : /\ q.kind \in {"axum", "unary", "stream"} /\ q.time \in Int
                        /\ DOMAIN q.headers = 1..Len(q.headers) /\ Len(q.headers) \in Nat
                        \* measured while the server runs
                        /\ q.latency \in 0..MaxNanos
    /\ \A t \in TargetCalls : t.latency \in Nat /\ t.timestamp \in Int /\ t.timestamp <= MaxTime

VARIABLES
    call,      \* {} or {the request that is logged}
    calls,     \* target calls recorded for it
    targets,   \* client_log
    panicked,  \* log_axum_client or log_grpc_client panicked
    doc,       \* the fields given to Logger::log
    out        \* {} or {the document that is printed and sent}

vars == <<call, calls, targets, panicked, doc, out>>

Str(s)  == <<"string", s>>
Num(n)  == <<"number", n>>
Arr(s)  == <<"array", s>>
Obj(f)  == <<"object", f>>
Time(n) == <<"time", n>>
Object  == Obj(<<>>)

IsObject(v) == v[1] = "object"

Fields(r) == [p \in {<<f>> : f \in DOMAIN r} |-> r[p[1]]]

\* What d has, or else what e has.
OrElse(d, e) == [p \in DOMAIN d \cup DOMAIN e |-> IF p \in DOMAIN d THEN d[p] ELSE e[p]]
At(path, v) == [p \in {path} |-> v]

-----------------------------------------------------------------------------
(* Headers: sequences of <<name, value>> *)

\* A value that is not visible ASCII, and to_str of a value.
Opaque == "\\xff"
ToStr(v) == IF v = Opaque THEN "" ELSE v

Names(hs) == {hs[i][1] : i \in DOMAIN hs}

\* The headers of a name, in order.
Named(hs, name) ==
    LET upTo[n \in 0..Len(hs)] ==
            IF n = 0 THEN <<>>
            ELSE IF hs[n][1] = name THEN Append(upTo[n - 1], hs[n]) ELSE upTo[n - 1]
    IN  upTo[Len(hs)]

\* header_to_map: the last value of a name.
HeaderToMap(hs) == [n \in Names(hs) |-> Str(ToStr(Last(Named(hs, n))[2]))]

\* Mutant: the last value, as in header_to_map.
HeaderToStringLast(hs, name) ==
    IF name \in Names(hs) THEN ToStr(Last(Named(hs, name))[2]) ELSE ""

\* header_to_string: the first.
HeaderToString(hs, name) ==
    IF name \in Names(hs) THEN ToStr(Named(hs, name)[1][2]) ELSE ""

\* extract_client_ip: the first of these that is there and readable, even if empty.
Readable(hs, name) == name \in Names(hs) /\ Named(hs, name)[1][2] # Opaque
IpHeaders == <<"x-real-ip", "x-forwarded-for", "x-client-ip">>
ClientIp(hs) ==
    IF Readable(hs, IpHeaders[1]) THEN Named(hs, IpHeaders[1])[1][2]
    ELSE IF Readable(hs, IpHeaders[2]) THEN Named(hs, IpHeaders[2])[1][2]
    ELSE IF Readable(hs, IpHeaders[3]) THEN Named(hs, IpHeaders[3])[1][2]
    ELSE ""

\* metadata_value_string for text.  as_encoded_bytes gives a binary value as it is
\* on the wire, which is base64 already, and it is encoded once more.
MetadataValue(name, v) == IF name \in BinaryNames THEN Base64[v] ELSE ToStr(v)

\* Mutant: the last value of a name, as in header_to_map.
MetadataToMapLast(md) == [n \in Names(md) |-> Str(MetadataValue(n, Last(Named(md, n))[2]))]

\* metadata_to_map: all values of a name, an array if there are several.
MetadataToMap(md) ==
    [n \in Names(md) |->
        LET values == [i \in DOMAIN Named(md, n) |-> MetadataValue(n, Named(md, n)[i][2])]
        IN  IF Len(values) = 1 THEN Str(values[1]) ELSE Arr(values)]

-----------------------------------------------------------------------------
(* Entries built from requests.  A body is an object or a string. *)

BodyFields(body) == IF IsObject(body) THEN body ELSE Object
BodyString(body) == Str(body[2])

\* Duration::from_std(latency), or zero if that fails.
FromStd(latency) == IF latency <= MaxDelta THEN latency ELSE 0

\* Mutant: latencies beyond what num_nanoseconds can tell count as zero.
ResponseTimeNanos(t) == t.timestamp + IF t.latency <= MaxNanos THEN t.latency ELSE 0

\* The end of a target call.
ResponseTime(t) == t.timestamp + FromStd(t.latency)

BuildTargetLogFields(t) ==
    [targetRequestBody        |-> BodyFields(t.body),
     targetRequestBodyString  |-> BodyString(t.body),
     targetRequestContentType |-> Str("json"),
     targetRequestHeader      |-> Obj(t.header),
     targetRequestMethod      |-> Str("GET"),
     targetRequestTimestamp   |-> Time(t.timestamp),
     targetRequestURL         |-> Str(t.url),
     targetResponseBody       |-> BodyFields(t.reply),
     targetResponseBodyString |-> BodyString(t.reply),
     targetResponseHeader     |-> Obj(t.header),
     targetResponseLatency    |-> <<"latency", t.latency>>,
     targetResponseStatus     |-> Num(t.status),
     targetResponseTimestamp  |-> Time(ResponseTime(t))]

\* log_axum for the request q.
AxumEntry(q) ==
    [requestAgent       |-> Str(HeaderToString(q.headers, "user-agent")),
     requestBody        |-> BodyFields(q.body),
     requestBodyString  |-> BodyString(q.body),
     requestContentType |-> Str(HeaderToString(q.headers, "content-type")),
     requestHeader      |-> Obj(HeaderToMap(q.headers)),
     requestHostName    |-> Str(HeaderToString(q.headers, "host")),
     requestId          |-> Str(q.id),
     requestIp          |-> Str(ClientIp(q.headers)),
     requestMethod      |-> Str("GET"),
     requestProtocol    |-> Str("HTTP/1.1"),
     requestTimestamp   |-> Time(q.time),
     requestUrl         |-> Str("/"),
     responseBody       |-> BodyFields(q.reply),
     responseBodyString |-> BodyString(q.reply),
     responseHeader     |-> Obj(HeaderToMap(q.replyHeaders)),
     responseLatency    |-> <<"latency", q.latency>>,
     responseStatus     |-> Num(q.status),
     responseTimestamp  |-> Time(q.time + FromStd(q.latency)),
     responseUser       |-> Str("user"),
     target             |-> Arr(targets)]

\* Mutant: the end of a call is not logged.
GrpcCommonEndless(q) ==
    [grpcMethod        |-> Str("/s/m"),
     grpcRequest       |-> BodyFields(q.body),
     grpcRequestString |-> BodyString(q.body),
     grpcRequestMeta   |-> Obj(MetadataToMap(q.headers)),
     grpcPeer          |-> Str("peer"),
     grpcStatusCode    |-> Str(q.status),
     grpcError         |-> Str(q.error),
     requestId         |-> Str(q.id),
     requestTimestamp  |-> Time(q.time),
     responseLatency   |-> <<"latency", q.latency>>,
     responseUser      |-> Str("user"),
     target            |-> Arr(targets)]

\* What log_grpc_unary and log_grpc_stream have in common.
GrpcCommon(q) ==
    [grpcMethod        |-> Str("/s/m"),
     grpcRequest       |-> BodyFields(q.body),
     grpcRequestString |-> BodyString(q.body),
     grpcRequestMeta   |-> Obj(MetadataToMap(q.headers)),
     grpcPeer          |-> Str("peer"),
     grpcStatusCode    |-> Str(q.status),
     grpcError         |-> Str(q.error),
     requestId         |-> Str(q.id),
     requestTimestamp  |-> Time(q.time),
     responseTimestamp |-> Time(q.time + FromStd(q.latency)),
     responseLatency   |-> <<"latency", q.latency>>,
     responseUser      |-> Str("user"),
     target            |-> Arr(targets)]

\* A call that fails has no response: {} and "".
UnaryEntry(q) ==
    OrElse(GrpcCommon(q),
           [grpcResponse       |-> IF q.error = "" THEN BodyFields(q.reply) ELSE Object,
            grpcResponseString |-> IF q.error = "" THEN BodyString(q.reply) ELSE Str("")])

StreamEntry(q) ==
    OrElse(GrpcCommon(q), [grpcIsClientStream |-> <<"bool", q.clientStream>>,
                           grpcIsServerStream |-> <<"bool", q.serverStream>>])

EntryOf(q) ==
    Fields(CASE q.kind = "axum"   -> AxumEntry(q)
             [] q.kind = "unary"  -> UnaryEntry(q)
             [] q.kind = "stream" -> StreamEntry(q))

-----------------------------------------------------------------------------
(* enrich_with_ecs *)

\* The objects a path goes through.
Above(path) == {SubSeq(path, 1, n) : n \in 1..(Len(path) - 1)}

\* Mutant: an object on the way is replaced as well.
InsertFresh(d, path, v) ==
    LET kept == [p \in {q \in DOMAIN d : \A pre \in Above(path) : ~IsPrefix(pre, q)} |-> d[p]]
    IN  IF path \in DOMAIN d THEN d
        ELSE OrElse(kept, OrElse([p \in Above(path) |-> Object], At(path, v)))

\* Mutant: a value that is there is replaced.
InsertOver(d, path, v) ==
    LET opened == [p \in Above(path) |->
                      IF p \in DOMAIN d /\ IsObject(d[p]) THEN d[p] ELSE Object]
    IN  OrElse(At(path, v), OrElse(opened, d))

\* Mutant: a value on the way that is not an object is kept.
InsertBelow(d, path, v) ==
    OrElse(d, OrElse([p \in Above(path) |-> Object], At(path, v)))

\* insert_nested_if_absent and ensure_object: what is on the way and is not an
\* object becomes an empty one; a value that is there is kept.
InsertNested(d, path, v) ==
    LET opened == [p \in Above(path) |->
                      IF p \in DOMAIN d /\ IsObject(d[p]) THEN d[p] ELSE Object]
    IN  OrElse(opened, OrElse(d, At(path, v)))

\* The value of the field f, as a set: {} if it is not there or of another kind.
Field(d, f, kinds) == {d[p] : p \in {q \in DOMAIN d : q = <<f>> /\ d[q][1] \in kinds}}
Strings(d, f) == Field(d, f, {"string", "time"})
Objects(d, f) == Field(d, f, {"object"})

\* parse_timestamp
Instant(d, f) == {v[2] : v \in Field(d, f, {"time"})}

\* Mutant: a missing start is now.
DurationFromNow(start, end) ==
    LET since == IF start = {} THEN {Now} ELSE start
    IN  {n \in {e - s : s \in since, e \in end} : n \in 0..MaxNanos}

\* duration_nanos
Duration(start, end) == {n \in {e - s : s \in start, e \in end} : n \in 0..MaxNanos}

\* The fields of the Elastic Common Schema, each with the values it may get.
EcsFields(d, now) ==
    LET start == Instant(d, "requestTimestamp")
        end   == Instant(d, "responseTimestamp")
        stamp == {Time(n) : n \in IF start = {} THEN {now} ELSE start}
        id    == Strings(d, "requestId")
        NotEmpty(vs) == {v \in vs : v # Str("")}
    IN  << <<<<"@timestamp">>, stamp>>,
           <<<<"ecs", "version">>, {Str("8.11.0")}>>,
           <<<<"log", "level">>, {Str("info")}>>,
           <<<<"event", "dataset">>, {Str("welog")}>>,
           <<<<"event", "module">>, {Str("welog_rs")}>>,
           <<<<"event", "start">>, stamp>>,
           <<<<"event", "end">>, {Time(n) : n \in end}>>,
           <<<<"event", "duration">>, {Num(n) : n \in Duration(start, end)}>>,
           <<<<"http", "request", "method">>, Strings(d, "requestMethod")>>,
           <<<<"http", "request", "mime_type">>, Strings(d, "requestContentType")>>,
           <<<<"http", "request", "body", "content">>, Strings(d, "requestBodyString")>>,
           <<<<"http", "request", "headers">>, Objects(d, "requestHeader")>>,
           <<<<"http", "version">>, Strings(d, "requestProtocol")>>,
           <<<<"url", "full">>, Strings(d, "requestUrl")>>,
           <<<<"url", "domain">>, NotEmpty(Strings(d, "requestHostName"))>>,
           <<<<"client", "ip">>, NotEmpty(Strings(d, "requestIp"))>>,
           <<<<"user_agent", "original">>, Strings(d, "requestAgent")>>,
           <<<<"http", "request", "id">>, id>>,
           <<<<"labels">>, {Object : v \in id}>>,
           <<<<"labels", "request_id">>,
             IF <<"labels">> \in DOMAIN d /\ ~IsObject(d[<<"labels">>]) THEN {} ELSE id>>,
           <<<<"http", "response", "status_code">>,
             Field(d, "responseStatus", {"number"})>>,
           <<<<"http", "response", "body", "content">>, Strings(d, "responseBodyString")>>,
           <<<<"http", "response", "headers">>, Objects(d, "responseHeader")>>,
           <<<<"user", "name">>, Strings(d, "responseUser")>> >>

\* A field <<path, values>> that gets no value is left out.
InsertField(d, field) ==
    IF field[2] = {} THEN d ELSE InsertNested(d, field[1], CHOOSE v \in field[2] : TRUE)

\* The fields are inserted in this order.
EnrichWithEcs(d, now) ==
    LET fields == EcsFields(d, now)
        after[n \in 0..Len(fields)] ==
            IF n = 0 THEN d ELSE InsertField(after[n - 1], fields[n])
    IN  after[Len(fields)]

\* build_fallback_bytes: what logs.txt gets, with the error that led there in place
\* of a field of that name.
BuildFallback(d) == OrElse(At(<<"hook_error">>, Str("error")), d)

-----------------------------------------------------------------------------
Init == call = {} /\ calls = <<>> /\ targets = <<>> /\ panicked = FALSE
        /\ doc = <<>> /\ out = {}

\* The application builds an entry of its own, from fields it has not set yet.
AddField(path, v) ==
    /\ call = {} /\ calls = <<>> /\ out = {} /\ Cardinality(DOMAIN doc) < MaxFields
    /\ path \notin DOMAIN doc
    /\ \A p \in Above(path) : p \in DOMAIN doc /\ IsObject(doc[p])
    /\ doc' = OrElse(doc, At(path, v))
    /\ UNCHANGED <<call, calls, targets, panicked, out>>

\* log_axum_client or log_grpc_client.  The fields are built first, which panics if
\* the response time is no DateTime; then they are pushed, unless the list is full.
RecordTarget(t) ==
    /\ call = {} /\ doc = <<>> /\ ~panicked /\ Len(calls) < MaxFields
    /\ calls' = Append(calls, t)
    /\ \/ ResponseTime(t) > MaxTime /\ panicked' = TRUE /\ UNCHANGED targets
       \/ /\ ResponseTime(t) <= MaxTime /\ UNCHANGED panicked
          /\ targets' = IF Len(targets) < MaxTargets
                        THEN Append(targets, BuildTargetLogFields(t)) ELSE targets
    /\ UNCHANGED <<call, doc, out>>

\* The handler has answered: log_axum, log_grpc_unary or log_grpc_stream.
BuildEntry(q) ==
    /\ call = {} /\ doc = <<>> /\ out = {} /\ ~panicked
    /\ call' = {q} /\ doc' = EntryOf(q)
    /\ UNCHANGED <<calls, targets, panicked, out>>

\* Logger::log
Log ==
    /\ out = {} /\ (call = {} => calls = <<>>) /\ out' = {EnrichWithEcs(doc, Now)}
    /\ UNCHANGED <<call, calls, targets, panicked, doc>>

Next ==
    \/ \E f \in UserFields : AddField(f[1], f[2])
    \/ \E t \in TargetCalls : RecordTarget(t)
    \/ \E q \in Calls : BuildEntry(q)
    \/ Log

Spec == Init /\ [][Next]_vars

-----------------------------------------------------------------------------
(* Properties *)

\* A document is a JSON document: what has members is an object.
IsTree(d) == \A path \in DOMAIN d : \A p \in Above(path) : p \in DOMAIN d /\ IsObject(d[p])

TypeOK == \A d \in {doc} \cup out : IsTree(d)

\* Enrichment keeps every field it is given, whatever its type and depth, except
\* where it needs an object for a field of its own and finds something else.
FieldsKept ==
    \A o \in out : \A p \in DOMAIN doc :
        \/ p \in DOMAIN o /\ o[p] = doc[p]
        \/ /\ ~IsObject(doc[p]) /\ o[p] = Object
           /\ \E q \in DOMAIN o \ DOMAIN doc : p \in Above(q)

\* A document that is logged again later, perhaps from logs.txt, stays as it is.
Idempotent ==
    \A o \in out : \A d \in {o, BuildFallback(o)} : EnrichWithEcs(d, Now + 1) = d

\* Each of these fields that the application did not set itself tells the times of
\* the request: an event starts at requestTimestamp, or now if that is no time; it
\* has an end exactly if responseTimestamp is a time, and that one; it has a duration
\* exactly if both are times (never counting from now) and an i64 can hold what is
\* between them, which is not negative, and that one.
TimesAgree ==
    \A o \in out :
        LET start  == Instant(doc, "requestTimestamp")
            end    == Instant(doc, "responseTimestamp")
            End    == <<"event", "end">>
            Length == <<"event", "duration">>
        IN  /\ \A p \in {<<"@timestamp">>, <<"event", "start">>} \ DOMAIN doc :
                  /\ p \in DOMAIN o /\ \A s \in start : o[p] = Time(s)
                  /\ start = {} => o[p] = Time(Now)
            /\ End \notin DOMAIN doc =>
                  /\ End \in DOMAIN o <=> end # {}
                  /\ \A e \in end : o[End] = Time(e)
            /\ Length \notin DOMAIN doc =>
                  /\ Length \in DOMAIN o <=> \E s \in start, e \in end : e - s \in 0..MaxNanos
                  /\ \A s \in start, e \in end : Length \in DOMAIN o => o[Length] = Num(e - s)

\* How many of the target calls are logged.
Logged == IF Len(calls) < MaxTargets THEN Len(calls) ELSE MaxTargets

\* From the request to the document: whoever serves it, its id is in both places,
\* its latency is the duration of the event, its time is the time stamp, and its
\* target calls are listed up to the limit.
RequestTold ==
    \A o \in out, q \in call :
        /\ o[<<"http", "request", "id">>] = Str(q.id)
        /\ o[<<"labels", "request_id">>] = Str(q.id)
        /\ <<"event", "duration">> \in DOMAIN o
        /\ o[<<"event", "duration">>] = Num(q.latency)
        /\ o[<<"@timestamp">>] = Time(q.time)
        /\ Len(o[<<"target">>][2]) = Logged

\* Every value of every metadata key has its place in the document, in the order of
\* the call: readable text as it is, a binary value as the base64 form of what was on
\* the wire; of text that cannot be read only the place is left, as an empty string.
MetadataTold ==
    \A o \in out, q \in call : q.kind # "axum" =>
        LET told == o[<<"grpcRequestMeta">>][2]
        IN  /\ DOMAIN told = Names(q.headers)
            /\ \A n \in Names(q.headers) :
                  LET values == Named(q.headers, n)
                      Place(i) == IF Len(values) > 1 THEN told[n][2][i] ELSE told[n][2]
                  IN  /\ told[n][1] = IF Len(values) > 1 THEN "array" ELSE "string"
                      /\ \A i \in DOMAIN values :
                            /\ n \in BinaryNames => Place(i) = Base64[values[i][2]]
                            /\ n \notin BinaryNames =>
                                  Place(i) = IF values[i][2] = Opaque THEN "" ELSE values[i][2]

\* A header that is sent more than once is told in two ways: the map of all headers
\* has its last value, the fields that come from one header its first; unreadable
\* ones are empty in both.  The client's address is the first value of the first of
\* the three headers that is there with a readable first value, and the event has it
\* unless it is empty.
HeadersAgree ==
    \A o \in out, q \in call : q.kind = "axum" =>
        LET hs  == q.headers
            map == o[<<"requestHeader">>][2]
            First(i) == \A j \in 1..(i - 1) : hs[j][1] # hs[i][1]
            Final(i) == \A j \in (i + 1)..Len(hs) : hs[j][1] # hs[i][1]
            Tells(k, i) == hs[i][1] = IpHeaders[k] /\ First(i) /\ hs[i][2] # Opaque
            found == {k \in 1..3 : \E i \in DOMAIN hs : Tells(k, i)}
        IN  /\ DOMAIN map = Names(hs)
            /\ \A i \in DOMAIN hs :
                  /\ Final(i) => map[hs[i][1]] = Str(ToStr(hs[i][2]))
                  /\ First(i) /\ hs[i][1] = "user-agent" =>
                        o[<<"requestAgent">>] = Str(ToStr(hs[i][2]))
                  /\ First(i) /\ hs[i][1] = "host" =>
                        o[<<"requestHostName">>] = Str(ToStr(hs[i][2]))
                  /\ \A k \in found : Tells(k, i) /\ (\A m \in found : k <= m) =>
                        o[<<"requestIp">>] = Str(hs[i][2])
            /\ found = {} => o[<<"requestIp">>] = Str("")
            /\ <<"client", "ip">> \in DOMAIN o <=> o[<<"requestIp">>] # Str("")

\* The target calls logged are the first ones, up to the limit.  Each keeps its
\* latency: its response time is that much later than its request, or no later if a
\* TimeDelta cannot hold the latency; the handler panics, even over a full list, only
\* if a TimeDelta can and the sum is beyond the calendar.
TargetsTold ==
    /\ \A i \in DOMAIN targets : targets[i].targetResponseLatency[2] = calls[i].latency
    /\ \A i \in DOMAIN targets :
          targets[i].targetResponseTimestamp[2] - targets[i].targetRequestTimestamp[2] =
              IF calls[i].latency <= MaxDelta THEN calls[i].latency ELSE 0
    /\ panicked => LET t == Last(calls) IN t.latency <= MaxDelta /\ t.timestamp + t.latency > MaxTime
    /\ ~panicked => Len(targets) = Logged
=============================================================================
