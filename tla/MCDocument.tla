----------------------------- MODULE MCDocument -----------------------------
\* Document with fields that collide with those of enrichment, times in every
\* order, repeated and unreadable headers, and latencies beyond each limit.
EXTENDS Document

MCUserFields ==
    {<<<<"requestTimestamp">>, Time(3)>>, <<<<"requestTimestamp">>, Str("x")>>,
     <<<<"responseTimestamp">>, Time(1)>>, <<<<"responseTimestamp">>, Time(5)>>,
     <<<<"responseTimestamp">>, Time(9)>>, <<<<"responseTimestamp">>, Num(5)>>,
     <<<<"@timestamp">>, Time(0)>>, <<<<"requestId">>, Str("i")>>,
     <<<<"labels">>, Str("x")>>, <<<<"labels">>, Object>>,
     <<<<"labels", "request_id">>, Str("j")>>,
     <<<<"event">>, Str("x")>>, <<<<"event">>, Object>>, <<<<"event", "start">>, Time(2)>>,
     <<<<"http">>, Object>>, <<<<"http", "request">>, Num(1)>>,
     <<<<"http", "request">>, Object>>, <<<<"http", "request", "id">>, Arr(<<>>)>>,
     <<<<"requestMethod">>, Num(1)>>, <<<<"requestIp">>, Str("")>>,
     <<<<"requestHeader">>, Obj("h" :> Str("v"))>>, <<<<"responseStatus">>, Str("200")>>}

\* Headers, also as metadata.
MCHeaders ==
    {<<>>,
     <<<<"host", "h">>, <<"user-agent", "a">>, <<"user-agent", "b">>>>,
     <<<<"user-agent", Opaque>>, <<"x-real-ip", Opaque>>, <<"x-client-ip", "c">>>>,
     <<<<"x-forwarded-for", "f">>, <<"x-client-ip", "c">>, <<"x-real-ip", "">>>>,
     <<<<"k-bin", "AAE">>, <<"x-client-ip", "c">>, <<"k-bin", Opaque>>, <<"x-client-ip", "d">>>>}

\* Of "AAE", which is the bytes 0 and 1 on the wire, and of a byte that is no text.
MCBinaryNames == {"k-bin"}
MCBase64 == "AAE" :> "QUFF" @@ Opaque :> "/w=="

MCCalls ==
    [kind : {"axum"}, id : {"i", ""}, headers : MCHeaders, replyHeaders : {<<>>},
     body : {Str("x")}, reply : {Object}, status : {200}, time : {1}, latency : {0, 2}]
    \cup
    [kind : {"unary", "stream"}, id : {"i"}, headers : MCHeaders, body : {Object},
     reply : {Str("x")}, status : {"OK"}, error : {"", "e"}, time : {1}, latency : {2},
     clientStream : {TRUE}, serverStream : {FALSE}]

MCTargetCalls ==
    [timestamp : {1}, latency : {2, 5, 8, 11}, body : {Str("x")}, reply : {Object},
     header : {<<>>}, url : {"u"}, status : {200}]
=============================================================================
