--------------------------- MODULE RequestsProofs ---------------------------
(***************************************************************************)
(* For every number of requests on any route, every set of client ids and   *)
(* every limit of the lists: a request is logged once, with its own id and  *)
(* the target calls of its context, none lost, doubled or out of order.     *)
(*                                                                          *)
(* A context is named by the request it was made for.  What the proofs need *)
(* beside the properties is that this owner has it itself, that it is made  *)
(* before anything is recorded in it, and that it is never replaced.        *)
(***************************************************************************)
EXTENDS Requests, SequenceTheorems, FiniteSetTheorems, TLAPS

Steps == {"new", "read", "intercept", "wrap", "handler", "capture", "take", "log", "done", "gone"}

\* Who has a context, and from which step on.
ContextInv ==
    \A r \in Requests :
        /\ context[r] # {} => \E c \in Requests : context[r] = {c} /\ context[c] = {c}
        /\ pc[r] \in {"new", "read", "intercept"} => context[r] = {}
        /\ pc[r] \in {"handler", "capture", "take", "log", "done"} => context[r] # {}
        /\ pc[r] = "wrap" /\ route[r] # "bare" => context[r] # {}
        /\ context[r] # {} => (context[r] = {r} <=> route[r] # "nested")
        /\ pc[r] \in {"read", "capture"} => route[r] = "axum"
        /\ pc[r] = "intercept" => route[r] = "grpc"
        /\ pc[r] = "wrap" => route[r] # "axum"

\* The id a context of c may have.
IdOf(c, i) ==
    /\ i \in Ids
    /\ route[c] \in {"axum", "grpc"} => i = header[c]
    /\ sent[c] \in ClientIds => i = sent[c]
    /\ i = Blank <=> \/ sent[c] = Blank /\ route[c] # "grpc"
                     \/ sent[c] = NoId /\ route[c] = "bare"

\* Where the id of a context comes from.
IdInv ==
    \A c \in Requests :
        /\ id[c] \in Requests => id[c] = c
        /\ context[c] = {c} => IdOf(c, id[c])

CoreInv == TypeOK /\ ContextInv /\ IdInv

Logged(r) == pc[r] = "done" /\ ~(route[r] = "axum" /\ answer[r] = "error")

\* What was handed to the logger and put on the response, and when.
Told(r) ==
    /\ entries[r] = IF Logged(r) THEN <<Entry(r)>> ELSE <<>>
    /\ pc[r] \in {"capture", "take", "log"} => ~(route[r] = "axum" /\ answer[r] = "error")
    /\ pc[r] = "done" /\ route[r] # "axum" /\ answer[r] # "error" => replyId[r] = Entry(r).id

EntryInv == \A r \in Requests : Told(r)

Increasing(s) == \A m, n \in 1..Len(s) : m < n => s[m] < s[n]

\* Nothing is recorded in a context that is not made, and nothing is taken before
\* TakeTargets; a list is in the order of recording, and newer than what was taken.
ListInv ==
    /\ \A c \in Requests :
          /\ context[c] # {c} => pushes[c] = 0 /\ refused[c] = {} /\ clientLog[c] = <<>>
          /\ ToSet(clientLog[c]) \subseteq 1..pushes[c] /\ refused[c] \subseteq 1..pushes[c]
          /\ Increasing(clientLog[c])
    /\ \A r \in Requests :
          /\ pc[r] \notin {"log", "done", "gone"} => taken[r] = <<>> /\ before[r] = 0
          /\ context[r] = {} => taken[r] = <<>> /\ before[r] = 0
          /\ Increasing(taken[r]) /\ \A n \in ToSet(taken[r]) : n <= before[r]
          /\ \A c \in Requests : context[r] = {c} =>
                /\ before[r] <= pushes[c]
                /\ \A n \in ToSet(clientLog[c]) : n > before[r]

\* Every target call is in a list of its context or was refused, and in one place;
\* what was refused found a list full, which is still as it was.
KeptInv ==
    \A c \in Requests :
        /\ \A n \in 1..pushes[c] :
              \/ n \in refused[c] \cup ToSet(clientLog[c])
              \/ \E r \in Requests : context[r] = {c} /\ n \in ToSet(taken[r])
        /\ refused[c] \cap ToSet(clientLog[c]) = {}
        /\ \A r \in Requests : context[r] = {c} =>
              /\ refused[c] \cap ToSet(taken[r]) = {}
              /\ \A q \in Requests \ {r} :
                    context[q] = {c} => ToSet(taken[r]) \cap ToSet(taken[q]) = {}
        /\ \A n \in refused[c] :
              \/ FullBefore(clientLog[c], n)
              \/ \E r \in Requests : context[r] = {c} /\ FullBefore(taken[r], n)

\* The middleware takes no list for the error of an inner service, which it does
\* not log.
UntoldInv ==
    \A r \in Requests : pc[r] = "done" /\ ~Logged(r) => taken[r] = <<>>

-----------------------------------------------------------------------------
(* Types and contexts *)

LEMMA ContextIs ==
    ASSUME NEW r \in Requests, NEW c \in Requests, context[r] = {c} PROVE Context(r) = c
BY DEF Context

\* A context is made with an id of the client, the empty one, or its own.
LEMMA NewIds ==
    ASSUME TypeOK, NEW r \in Requests
    PROVE  /\ FetchRequestId(r) \in ClientIds \cup {Blank}
           /\ sent[r] \in ClientIds => FetchRequestId(r) = sent[r]
           /\ FetchRequestId(r) = Blank <=> sent[r] \in {NoId, Blank}
           /\ Fresh(r) = r
BY RequestsAssumption DEF TypeOK, FetchRequestId, Fresh

LEMMA InitCore == Init => CoreInv
<1> SUFFICES ASSUME Init PROVE CoreInv
  OBVIOUS
<1> USE RequestsAssumption
<1>1. /\ <<>> \in Seq(1..MaxPushes) /\ <<>> \in Seq([id : Ids, target : Seq(1..MaxPushes)])
      /\ Len(<<>>) = 0
  BY EmptySeq
<1>2. TypeOK
  BY <1>1 DEF Init, TypeOK, Ids
<1>3. ContextInv
  BY DEF Init, ContextInv
<1>4. IdInv
  BY DEF Init, IdInv
<1> QED BY <1>2, <1>3, <1>4 DEF CoreInv

\* A request gets a context of its own.
LEMMA EnterCore ==
    ASSUME CoreInv, NEW r \in Requests, NEW i \in Ids, NEW h \in Ids \cup {NoId},
           NewContext(r, i), header' = [header EXCEPT ![r] = h],
           context[r] = {}, route[r] # "nested", i \in Requests => i = r,
           route[r] \in {"axum", "grpc"} => i = h,
           sent[r] \in ClientIds => i = sent[r],
           i = Blank <=> \/ sent[r] = Blank /\ route[r] # "grpc"
                         \/ sent[r] = NoId /\ route[r] = "bare",
           NEW step \in {"wrap", "handler"}, Goto(r, step), step = "wrap" => route[r] # "axum",
           UNCHANGED <<route, sent, answer, entries, replyId, taken, before>>
    PROVE  CoreInv'
<1> USE DEF CoreInv
<1>1. /\ context' = [context EXCEPT ![r] = {r}] /\ id' = [id EXCEPT ![r] = i]
      /\ clientLog' = [clientLog EXCEPT ![r] = <<>>] /\ UNCHANGED <<pushes, refused>>
      /\ pc' = [pc EXCEPT ![r] = step]
  BY DEF NewContext, Goto
<1>2. <<>> \in Seq(1..MaxPushes) /\ Len(<<>>) = 0
  BY EmptySeq
<1>3. TypeOK'
  <2>1. pc' \in [Requests -> Steps] /\ header' \in [Requests -> Ids \cup {NoId}]
    BY <1>1 DEF TypeOK, Steps
  <2>2. context' \in [Requests -> SUBSET Requests] /\ id' \in [Requests -> Ids \cup {NoId}]
    BY <1>1 DEF TypeOK
  <2>3. /\ clientLog' \in [Requests -> Seq(1..MaxPushes)]
        /\ \A q \in Requests : Len(clientLog'[q]) <= MaxTargets
    BY <1>1, <1>2, RequestsAssumption DEF TypeOK
  <2> QED BY <1>1, <2>1, <2>2, <2>3 DEF TypeOK, Steps
<1>4. \A q \in Requests : context'[q] = IF q = r THEN {r} ELSE context[q]
  BY <1>1 DEF TypeOK
<1>5. \A q \in Requests : id'[q] = IF q = r THEN i ELSE id[q]
  BY <1>1 DEF TypeOK
<1>6. \A q \in Requests : header'[q] = IF q = r THEN h ELSE header[q]
  BY DEF TypeOK
<1>7. \A q \in Requests : pc'[q] = IF q = r THEN step ELSE pc[q]
  BY <1>1 DEF TypeOK
<1>8. UNCHANGED <<route, sent>>
  OBVIOUS
<1>9. ContextInv'
  <2> SUFFICES ASSUME NEW q \in Requests
               PROVE  /\ context'[q] # {} => \E c \in Requests : context'[q] = {c} /\ context'[c] = {c}
                      /\ pc'[q] \in {"new", "read", "intercept"} => context'[q] = {}
                      /\ pc'[q] \in {"handler", "capture", "take", "log", "done"} => context'[q] # {}
                      /\ pc'[q] = "wrap" /\ route[q] # "bare" => context'[q] # {}
                      /\ context'[q] # {} => (context'[q] = {q} <=> route[q] # "nested")
                      /\ pc'[q] \in {"read", "capture"} => route[q] = "axum"
                      /\ pc'[q] = "intercept" => route[q] = "grpc"
                      /\ pc'[q] = "wrap" => route[q] # "axum"
    BY <1>8, ZenonT(60) DEF ContextInv
  <2>1. CASE q = r
    BY <1>4, <1>7, <2>1
  <2>2. CASE q # r
    BY <1>4, <1>7, <2>2 DEF ContextInv
  <2> QED BY <2>1, <2>2
<1>10. IdInv'
  <2> SUFFICES ASSUME NEW q \in Requests
               PROVE  /\ id'[q] \in Requests => id'[q] = q
                      /\ context'[q] = {q} => IdOf(q, id[q])'
    BY DEF IdInv
  <2>1. CASE q = r
    <3>1. id'[q] = i /\ header'[q] = h /\ sent'[q] = sent[q] /\ route'[q] = route[q] /\ q = r
      BY <1>5, <1>6, <1>8, <2>1
    <3>2. /\ i \in Ids
          /\ route[q] \in {"axum", "grpc"} => i = h
          /\ sent[q] \in ClientIds => i = sent[q]
          /\ i = Blank <=> \/ sent[q] = Blank /\ route[q] # "grpc"
                           \/ sent[q] = NoId /\ route[q] = "bare"
      BY <2>1
    <3>3. IdOf(q, id[q])'
      BY ONLY <3>1, <3>2 DEF IdOf
    <3> QED BY <3>1, <3>3
  <2>2. CASE q # r
    BY <1>4, <1>5, <1>6, <1>8, <2>2 DEF IdInv, IdOf
  <2> QED BY <2>1, <2>2
<1> QED BY <1>3, <1>9, <1>10

LEMMA ArriveCore ==
    ASSUME CoreInv, NEW r \in Requests, NEW i \in ClientIds \cup {NoId, Blank}, Arrive(r, i)
    PROVE  CoreInv'
<1> USE DEF CoreInv
<1>1. /\ pc[r] = "new" /\ context[r] = {}
      /\ sent' = [sent EXCEPT ![r] = i] /\ header' = [header EXCEPT ![r] = i]
      /\ UNCHANGED <<route, answer, entries, replyId, contexts, taken, before>>
  BY DEF Arrive, ContextInv
<1>2. PICK step \in {"read", "intercept", "wrap"} :
         /\ pc' = [pc EXCEPT ![r] = step]
         /\ step = "read" <=> route[r] = "axum"
         /\ step = "intercept" <=> route[r] = "grpc"
  <2> DEFINE step == CASE route[r] = "axum" -> "read"
                       [] route[r] = "grpc" -> "intercept"
                       [] OTHER             -> "wrap"
  <2>1. pc' = [pc EXCEPT ![r] = step]
    BY DEF Arrive, Goto
  <2>2. step \in {"read", "intercept", "wrap"}
    OBVIOUS
  <2>3. (step = "read" <=> route[r] = "axum") /\ (step = "intercept" <=> route[r] = "grpc")
    OBVIOUS
  <2> HIDE DEF step
  <2> QED BY <2>1, <2>2, <2>3
<1>3. PICK shared \in SUBSET Requests :
         /\ context' = [context EXCEPT ![r] = shared]
         /\ shared # {} <=> route[r] = "nested"
         /\ shared # {} => \E c \in Requests : shared = {c} /\ context[c] = {c}
  <2>1. CASE route[r] = "nested"
    <3>1. PICK caller \in Requests :
             pc[caller] = "handler" /\ context' = [context EXCEPT ![r] = context[caller]]
      BY <2>1 DEF Arrive
    <3>2. context[caller] \in SUBSET Requests
      BY DEF TypeOK
    <3>3. context[caller] # {} /\ \E c \in Requests : context[caller] = {c} /\ context[c] = {c}
      BY <3>1 DEF ContextInv
    <3> QED BY <2>1, <3>1, <3>2, <3>3
  <2>2. CASE route[r] # "nested"
    <3>1. context' = [context EXCEPT ![r] = {}]
      BY <1>1, <2>2 DEF Arrive, TypeOK
    <3> QED BY <2>2, <3>1
  <2> QED BY <2>1, <2>2
<1>4. \A q \in Requests : context'[q] = IF q = r THEN shared ELSE context[q]
  BY <1>3 DEF TypeOK
<1>5. \A q \in Requests : pc'[q] = IF q = r THEN step ELSE pc[q]
  BY <1>2 DEF TypeOK
<1>6. /\ \A q \in Requests : q # r => sent'[q] = sent[q] /\ header'[q] = header[q]
      /\ UNCHANGED <<route, id>>
  BY <1>1 DEF TypeOK, contexts
<1>7. TypeOK'
  <2>1. pc' \in [Requests -> Steps] /\ context' \in [Requests -> SUBSET Requests]
    BY <1>2, <1>3 DEF TypeOK, Steps
  <2>2. /\ sent' \in [Requests -> ClientIds \cup {NoId, Blank}]
        /\ header' \in [Requests -> Ids \cup {NoId}]
    BY <1>1 DEF TypeOK, Ids
  <2> QED BY <1>1, <2>1, <2>2 DEF TypeOK, Steps, contexts
<1>8. ContextInv'
  <2> SUFFICES ASSUME NEW q \in Requests
               PROVE  /\ context'[q] # {} => \E c \in Requests : context'[q] = {c} /\ context'[c] = {c}
                      /\ pc'[q] \in {"new", "read", "intercept"} => context'[q] = {}
                      /\ pc'[q] \in {"handler", "capture", "take", "log", "done"} => context'[q] # {}
                      /\ pc'[q] = "wrap" /\ route[q] # "bare" => context'[q] # {}
                      /\ context'[q] # {} => (context'[q] = {q} <=> route[q] # "nested")
                      /\ pc'[q] \in {"read", "capture"} => route[q] = "axum"
                      /\ pc'[q] = "intercept" => route[q] = "grpc"
                      /\ pc'[q] = "wrap" => route[q] # "axum"
    BY <1>6 DEF ContextInv
  <2>1. \A c \in Requests : context[c] = {c} => context'[c] = {c}
    BY <1>1, <1>4
  <2>2. CASE q = r
    <3>1. pc'[q] = step /\ context'[q] = shared /\ context[q] = {}
      BY <1>1, <1>4, <1>5, <2>2
    <3>2. shared # {q}
      BY <1>3, <3>1
    <3>3. step = "wrap" => route[q] \in {"bare", "nested"}
      BY <1>2, <2>2 DEF TypeOK, Routes
    <3> QED BY <1>2, <1>3, <2>1, <2>2, <3>1, <3>2, <3>3
  <2>3. CASE q # r
    BY <1>4, <1>5, <2>1, <2>3 DEF ContextInv
  <2> QED BY <2>2, <2>3
<1>9. IdInv'
  <2> SUFFICES ASSUME NEW c \in Requests
               PROVE  /\ id[c] \in Requests => id[c] = c
                      /\ context'[c] = {c} => IdOf(c, id[c])'
    BY <1>6 DEF IdInv
  <2>1. CASE c = r
    BY <1>1, <1>3, <1>4, <2>1 DEF IdInv
  <2>2. CASE c # r
    BY <1>4, <1>6, <2>2 DEF IdInv, IdOf
  <2> QED BY <2>1, <2>2
<1> QED BY <1>7, <1>8, <1>9

\* A request goes on with the context it has.
LEMMA MoveCore ==
    ASSUME CoreInv, TypeOK', NEW r \in Requests,
           NEW step \in {"handler", "capture", "take", "log", "done", "gone"}, Goto(r, step),
           context[r] # {} \/ step = "gone", step = "capture" => route[r] = "axum",
           UNCHANGED <<context, id, header, sent, route>>
    PROVE  CoreInv'
<1> USE DEF CoreInv
<1>1. \A q \in Requests : pc'[q] = IF q = r THEN step ELSE pc[q]
  BY DEF TypeOK, Goto
<1>2. ContextInv'
  BY <1>1 DEF ContextInv
<1>3. IdInv'
  BY DEF IdInv, IdOf
<1> QED BY <1>2, <1>3

LEMMA EntersCore ==
    ASSUME CoreInv, NEW r \in Requests, EnterAxum(r) \/ Intercept(r) \/ Wrap(r)
    PROVE  CoreInv'
<1> USE RequestsAssumption DEF CoreInv
<1>1. /\ FetchRequestId(r) \in ClientIds \cup {Blank}
      /\ sent[r] \in ClientIds => FetchRequestId(r) = sent[r]
      /\ FetchRequestId(r) = Blank <=> sent[r] \in {NoId, Blank}
      /\ Fresh(r) = r
  BY NewIds
<1>2. CASE EnterAxum(r)
  <2> DEFINE i == IF sent[r] = NoId THEN Fresh(r) ELSE sent[r]
  <2>1. /\ i \in Ids /\ (i \in Requests => i = r) /\ (sent[r] \in ClientIds => i = sent[r])
        /\ i = Blank <=> sent[r] = Blank
    BY <1>1 DEF TypeOK, Ids
  <2>2. pc[r] = "read" /\ context[r] = {} /\ route[r] = "axum"
    BY <1>2 DEF EnterAxum, ContextInv
  <2>3. /\ NewContext(r, i) /\ header' = [header EXCEPT ![r] = i] /\ Goto(r, "handler")
        /\ UNCHANGED <<route, sent, answer, entries, replyId, taken, before>>
    BY <1>2 DEF EnterAxum
  <2> HIDE DEF i
  <2> QED BY <2>1, <2>2, <2>3, EnterCore
<1>3. CASE Intercept(r)
  <2> DEFINE i == IF FetchRequestId(r) = Blank THEN Fresh(r) ELSE FetchRequestId(r)
  <2>1. /\ i \in Ids /\ (i \in Requests => i = r) /\ (sent[r] \in ClientIds => i = sent[r])
        /\ i # Blank
    BY <1>1 DEF Ids
  <2>2. pc[r] = "intercept" /\ context[r] = {} /\ route[r] = "grpc"
    BY <1>3 DEF Intercept, ContextInv
  <2>3. /\ NewContext(r, i) /\ header' = [header EXCEPT ![r] = i] /\ Goto(r, "wrap")
        /\ UNCHANGED <<route, sent, answer, entries, replyId, taken, before>>
    BY <1>3 DEF Intercept, SetRequestId
  <2> HIDE DEF i
  <2> QED BY <2>1, <2>2, <2>3, EnterCore
<1>4. CASE Wrap(r)
  <2>1. /\ pc[r] = "wrap" /\ Goto(r, "handler") /\ route[r] # "axum"
        /\ UNCHANGED <<route, sent, header, answer, entries, replyId, taken, before>>
    BY <1>4 DEF Wrap, ContextInv
  <2>2. CASE context[r] # {}
    <3>1. UNCHANGED <<context, contexts>>
      BY <1>4, <2>2 DEF Wrap
    <3>2. TypeOK'
      BY <2>1, <3>1 DEF TypeOK, contexts, Goto
    <3> QED BY <2>1, <2>2, <3>1, <3>2, MoveCore DEF contexts
  <2>3. CASE context[r] = {}
    <3> DEFINE i == FetchRequestId(r)
               h == header[r]
    <3>1. NewContext(r, i)
      BY <1>4, <2>3 DEF Wrap
    <3>2. header' = [header EXCEPT ![r] = h] /\ h \in Ids \cup {NoId}
      BY <2>1 DEF TypeOK
    <3>3. /\ i \in Ids /\ i \notin Requests /\ (sent[r] \in ClientIds => i = sent[r])
          /\ i = Blank <=> sent[r] \in {NoId, Blank}
      BY <1>1 DEF Ids
    <3>4. route[r] = "bare"
      BY <2>1, <2>3 DEF ContextInv
    <3> HIDE DEF i, h
    <3> QED BY <2>1, <2>3, <3>1, <3>2, <3>3, <3>4, EnterCore
  <2> QED BY <2>2, <2>3
<1> QED BY <1>2, <1>3, <1>4

\* log_axum_client and log_grpc_client keep to the limit of the list.
LEMMA RecordCore == ASSUME CoreInv, NEW c \in Requests, RecordTarget(c) PROVE CoreInv'
<1> USE RequestsAssumption DEF CoreInv
<1> DEFINE n == pushes[c] + 1
<1>1. /\ pushes[c] < MaxPushes /\ pushes' = [pushes EXCEPT ![c] = n] /\ n \in 1..MaxPushes
      /\ UNCHANGED <<pc, route, sent, header, context, answer, entries, replyId,
                     id, taken, before>>
  BY SMTT(20) DEF RecordTarget, TypeOK
<1> HIDE DEF n
<1>2. pushes' \in [Requests -> 0..MaxPushes]
  BY <1>1 DEF TypeOK
<1>3. CASE clientLog' = [clientLog EXCEPT ![c] = Append(@, n)] /\ Len(clientLog[c]) < MaxTargets
           /\ UNCHANGED refused
  <2>1. clientLog[c] \in Seq(1..MaxPushes) /\ Len(clientLog[c]) \in Nat
    BY LenProperties DEF TypeOK
  <2>2. /\ Append(clientLog[c], n) \in Seq(1..MaxPushes)
        /\ Len(Append(clientLog[c], n)) = Len(clientLog[c]) + 1
    BY <1>1, <2>1, AppendProperties
  <2>3. Len(Append(clientLog[c], n)) <= MaxTargets
    BY <1>3, <2>1, <2>2
  <2>4. /\ clientLog' \in [Requests -> Seq(1..MaxPushes)]
        /\ \A q \in Requests : Len(clientLog'[q]) <= MaxTargets
    BY <1>3, <2>2, <2>3 DEF TypeOK
  <2>5. TypeOK'
    BY <1>1, <1>2, <1>3, <2>4 DEF TypeOK
  <2> QED BY <1>1, <2>5 DEF ContextInv, IdInv, IdOf
<1>4. CASE refused' = [refused EXCEPT ![c] = @ \cup {n}] /\ UNCHANGED clientLog
  <2>1. refused' \in [Requests -> SUBSET (1..MaxPushes)]
    BY <1>1, <1>4 DEF TypeOK
  <2>2. TypeOK'
    BY <1>1, <1>2, <1>4, <2>1 DEF TypeOK
  <2> QED BY <1>1, <2>2 DEF ContextInv, IdInv, IdOf
<1> QED BY <1>3, <1>4 DEF RecordTarget, n

\* The entry of a request that has a context has an id.
LEMMA EntryType ==
    ASSUME CoreInv, NEW r \in Requests, context[r] # {}
    PROVE  /\ Context(r) \in Requests /\ context[r] = {Context(r)}
           /\ context[Context(r)] = {Context(r)} /\ id[Context(r)] \in Ids
           /\ Entry(r) \in [id : Ids, target : Seq(1..MaxPushes)]
<1> USE DEF CoreInv
<1>1. PICK c \in Requests : context[r] = {c} /\ context[c] = {c}
  BY DEF ContextInv
<1>2. Context(r) = c
  BY <1>1, ContextIs
<1>3. id[c] \in Ids /\ taken[r] \in Seq(1..MaxPushes)
  BY <1>1 DEF IdInv, IdOf, TypeOK
<1> QED BY <1>1, <1>2, <1>3 DEF Entry

\* The steps after the handler.
LEMMA LeaveCore ==
    ASSUME CoreInv, NEW r \in Requests,
           \/ \E a \in Answers : Answer(r, a)
           \/ CaptureResponse(r) \/ Drop(r) \/ TakeTargets(r) \/ Log(r) \/ LogPanics(r)
    PROVE  CoreInv'
<1> USE DEF CoreInv
<1>1. CASE \E a \in Answers : Answer(r, a)
  <2>1. PICK a \in Answers : Answer(r, a)
    BY <1>1
  <2>2. /\ pc[r] = "handler" /\ answer' = [answer EXCEPT ![r] = a]
        /\ UNCHANGED <<route, sent, header, context, entries, replyId, contexts, taken, before>>
    BY <2>1 DEF Answer
  <2>3. PICK step \in {"take", "done", "capture"} :
           pc' = [pc EXCEPT ![r] = step] /\ (step = "capture" => route[r] = "axum")
    <3> DEFINE step == IF route[r] # "axum" THEN "take"
                       ELSE IF a = "error" THEN "done" ELSE "capture"
    <3>1. pc' = [pc EXCEPT ![r] = step]
      BY <2>1 DEF Answer, Goto
    <3>2. step \in {"take", "done", "capture"} /\ (step = "capture" => route[r] = "axum")
      OBVIOUS
    <3> HIDE DEF step
    <3> QED BY <3>1, <3>2
  <2>4. TypeOK'
    BY <2>2, <2>3 DEF TypeOK, contexts
  <2>5. context[r] # {}
    BY <2>2 DEF ContextInv
  <2> QED BY <2>2, <2>3, <2>4, <2>5, MoveCore DEF Goto, contexts
<1>2. CASE CaptureResponse(r) \/ Drop(r) \/ LogPanics(r)
  <2>1. /\ UNCHANGED <<route, sent, header, context, answer, entries, replyId,
                       contexts, taken, before>>
        /\ \/ pc[r] = "capture" /\ pc' = [pc EXCEPT ![r] = "take"]
           \/ pc' = [pc EXCEPT ![r] = "gone"]
    BY <1>2 DEF CaptureResponse, Drop, LogPanics, Goto
  <2>2. TypeOK'
    BY <2>1 DEF TypeOK, contexts
  <2>3. pc[r] = "capture" => context[r] # {}
    BY DEF ContextInv
  <2> QED BY <2>1, <2>2, <2>3, MoveCore DEF Goto, contexts
<1>3. CASE TakeTargets(r)
  <2>1. context[r] # {} /\ pc' = [pc EXCEPT ![r] = "log"]
    BY <1>3 DEF TakeTargets, Goto, ContextInv
  <2>2. Context(r) \in Requests
    BY <2>1, EntryType
  <2>3. <<>> \in Seq(1..MaxPushes) /\ Len(<<>>) = 0
    BY EmptySeq
  <2>4. pc' \in [Requests -> Steps]
    BY <2>1 DEF TypeOK, Steps
  <2>5. /\ clientLog' \in [Requests -> Seq(1..MaxPushes)]
        /\ \A q \in Requests : Len(clientLog'[q]) <= MaxTargets
    BY <1>3, <2>2, <2>3, RequestsAssumption DEF TakeTargets, TypeOK
  <2>6. /\ taken' \in [Requests -> Seq(1..MaxPushes)]
        /\ \A q \in Requests : Len(taken'[q]) <= MaxTargets
    BY <1>3, <2>2 DEF TakeTargets, TypeOK
  <2>7. before' \in [Requests -> 0..MaxPushes]
    BY <1>3, <2>2 DEF TakeTargets, TypeOK
  <2>8. TypeOK'
    BY <1>3, <2>4, <2>5, <2>6, <2>7 DEF TakeTargets, TypeOK, Steps
  <2> QED BY <1>3, <2>1, <2>8, MoveCore DEF TakeTargets
<1>4. CASE Log(r)
  <2>1. context[r] # {} /\ pc' = [pc EXCEPT ![r] = "done"]
    BY <1>4 DEF Log, Goto, ContextInv
  <2>2. id[Context(r)] \in Ids /\ Entry(r) \in [id : Ids, target : Seq(1..MaxPushes)]
    BY <2>1, EntryType
  <2>3. pc' \in [Requests -> Steps]
    BY <2>1 DEF TypeOK, Steps
  <2>4. entries' \in [Requests -> Seq([id : Ids, target : Seq(1..MaxPushes)])]
    <3> DEFINE E == [id : Ids, target : Seq(1..MaxPushes)]
    <3>1. entries \in [Requests -> Seq(E)] /\ entries[r] \in Seq(E) /\ Entry(r) \in E
      BY <2>2 DEF TypeOK
    <3> HIDE DEF E
    <3>2. Append(entries[r], Entry(r)) \in Seq(E)
      BY <3>1, AppendProperties
    <3>3. entries' \in [Requests -> Seq(E)]
      BY <1>4, <3>1, <3>2 DEF Log
    <3> QED BY <3>3 DEF E
  <2>5. replyId' \in [Requests -> Ids \cup {NoId}]
    BY <1>4, <2>2 DEF Log, SetRequestId, TypeOK
  <2>6. TypeOK'
    BY <1>4, <2>3, <2>4, <2>5 DEF Log, contexts, TypeOK, Steps
  <2> QED BY <1>4, <2>1, <2>6, MoveCore DEF Log, contexts
<1> QED BY <1>1, <1>2, <1>3, <1>4

LEMMA NextCore == CoreInv /\ [Next]_vars => CoreInv'
<1> SUFFICES ASSUME CoreInv, [Next]_vars PROVE CoreInv'
  OBVIOUS
<1>1. ASSUME NEW r \in Requests, Library(r) \/ Environment(r) PROVE CoreInv'
  <2>1. CASE \E i \in ClientIds \cup {NoId, Blank} : Arrive(r, i)
    BY <2>1, ArriveCore
  <2>2. CASE EnterAxum(r) \/ Intercept(r) \/ Wrap(r)
    BY <2>2, EntersCore
  <2>3. CASE RecordTarget(r)
    BY <2>3, RecordCore
  <2>4. CASE \/ \E a \in Answers : Answer(r, a)
             \/ CaptureResponse(r) \/ Drop(r) \/ TakeTargets(r) \/ Log(r) \/ LogPanics(r)
    BY <2>4, LeaveCore
  <2> QED BY <1>1, <2>1, <2>2, <2>3, <2>4 DEF Library, Environment
<1>2. CASE UNCHANGED vars
  <2>1. TypeOK'
    BY <1>2 DEF vars, contexts, CoreInv, TypeOK
  <2>2. ContextInv' /\ IdInv'
    BY <1>2 DEF vars, contexts, CoreInv, ContextInv, IdInv, IdOf
  <2> QED BY <2>1, <2>2 DEF CoreInv
<1> QED BY <1>1, <1>2 DEF Next

LEMMA Core == Spec => []CoreInv
BY InitCore, NextCore, PTL DEF Spec

\* Every variable keeps its type and no list of target calls exceeds its limit, for
\* any number of requests and calls.
THEOREM RequestsTypeCorrect == Spec => []TypeOK
<1>1. CoreInv => TypeOK
  BY DEF CoreInv
<1> QED BY <1>1, Core, PTL

-----------------------------------------------------------------------------
(* Entries and ids *)

\* A step of one request leaves the others where they are.
LEMMA OthersStay ==
    ASSUME CoreInv, NEW q \in Requests, Library(q) \/ Environment(q),
           NEW r \in Requests, r # q
    PROVE  /\ pc'[r] = pc[r] /\ context'[r] = context[r] /\ answer'[r] = answer[r]
           /\ entries'[r] = entries[r] /\ replyId'[r] = replyId[r]
           /\ taken'[r] = taken[r] /\ before'[r] = before[r]
<1> USE DEF CoreInv, TypeOK
<1>1. CASE \E i \in ClientIds \cup {NoId, Blank} : Arrive(q, i)
  <2>1. /\ pc'[r] = pc[r] /\ context'[r] = context[r]
    BY <1>1 DEF Arrive, Goto
  <2> QED BY <1>1, <2>1 DEF Arrive
<1>2. CASE EnterAxum(q) \/ Intercept(q) \/ Wrap(q)
  <2>1. CASE EnterAxum(q)
    BY <2>1 DEF EnterAxum, NewContext, Goto
  <2>2. CASE Intercept(q)
    BY <2>2 DEF Intercept, NewContext, Goto
  <2>3. CASE Wrap(q)
    BY <2>3 DEF Wrap, NewContext, Goto
  <2> QED BY <1>2, <2>1, <2>2, <2>3
<1>3. CASE RecordTarget(q)
  BY <1>3 DEF RecordTarget
<1>4. CASE \E a \in Answers : Answer(q, a)
  BY <1>4 DEF Answer, Goto
<1>5. CASE CaptureResponse(q) \/ Drop(q) \/ LogPanics(q)
  BY <1>5 DEF CaptureResponse, Drop, LogPanics, Goto
<1>6. CASE TakeTargets(q)
  BY <1>6 DEF TakeTargets, Goto
<1>7. CASE Log(q)
  BY <1>7 DEF Log, Goto, SetRequestId
<1> QED BY <1>1, <1>2, <1>3, <1>4, <1>5, <1>6, <1>7 DEF Library, Environment

\* A request that has a context keeps it, and the context keeps its id.
LEMMA ContextStays ==
    ASSUME CoreInv, NEW q \in Requests, Library(q) \/ Environment(q),
           NEW r \in Requests, NEW c \in Requests, context[r] = {c}
    PROVE  context'[r] = {c} /\ id'[c] = id[c]
<1> USE DEF CoreInv
<1>1. context[c] = {c}
  BY DEF ContextInv
<1>2. ASSUME UNCHANGED <<context, id>> PROVE context'[r] = {c} /\ id'[c] = id[c]
  BY <1>2
<1>3. CASE \E i \in ClientIds \cup {NoId, Blank} : Arrive(q, i)
  <2>1. pc[q] = "new" /\ UNCHANGED id
    BY <1>3 DEF Arrive, contexts
  <2>2. r # q
    BY <2>1 DEF ContextInv
  <2> QED BY <2>1, <2>2, OthersStay
<1>4. ASSUME NEW i, NewContext(q, i), context[q] = {} PROVE context'[r] = {c} /\ id'[c] = id[c]
  BY <1>1, <1>4 DEF NewContext, TypeOK
<1>5. CASE EnterAxum(q) \/ Intercept(q) \/ Wrap(q)
  BY <1>2, <1>4, <1>5 DEF EnterAxum, Intercept, Wrap, ContextInv, contexts
<1>6. CASE RecordTarget(q) \/ \E a \in Answers : Answer(q, a)
  BY <1>2, <1>6 DEF RecordTarget, Answer, contexts
<1>7. CASE CaptureResponse(q) \/ Drop(q) \/ LogPanics(q) \/ TakeTargets(q) \/ Log(q)
  BY <1>2, <1>7 DEF CaptureResponse, Drop, LogPanics, TakeTargets, Log, contexts
<1> QED BY <1>3, <1>5, <1>6, <1>7 DEF Library, Environment

\* The entry of a request whose lists are taken stays what it is.
LEMMA EntryStays ==
    ASSUME CoreInv, NEW q \in Requests, Library(q) \/ Environment(q),
           NEW r \in Requests, context[r] # {}, taken'[r] = taken[r]
    PROVE  Entry(r)' = Entry(r)
<1>1. Context(r) \in Requests /\ context[r] = {Context(r)}
  BY EntryType
<1>2. context'[r] = {Context(r)} /\ id'[Context(r)] = id[Context(r)]
  BY <1>1, ContextStays
<1>3. Context(r)' = Context(r)
  BY <1>2 DEF Context
<1> QED BY <1>2, <1>3 DEF Entry

LEMMA RouteStays == ASSUME CoreInv, [Next]_vars PROVE UNCHANGED route
BY DEF Next, vars, contexts, Library, Environment, Arrive, EnterAxum, Intercept, Wrap, RecordTarget, Answer,
       CaptureResponse, Drop, TakeTargets, Log, LogPanics

LEMMA ToldOthers ==
    ASSUME CoreInv, NEW q \in Requests, Library(q) \/ Environment(q),
           NEW r \in Requests, r # q, Told(r)
    PROVE  Told(r)'
<1>1. UNCHANGED route
  BY RouteStays DEF Next
<1>2. /\ pc'[r] = pc[r] /\ answer'[r] = answer[r] /\ entries'[r] = entries[r]
      /\ replyId'[r] = replyId[r] /\ taken'[r] = taken[r]
  BY OthersStay
<1>3. pc[r] = "done" => context[r] # {}
  BY DEF CoreInv, ContextInv
<1>4. pc[r] = "done" => Entry(r)' = Entry(r)
  BY <1>2, <1>3, EntryStays
<1>5. Logged(r)' <=> Logged(r)
  BY <1>1, <1>2 DEF Logged
<1>6. (entries[r] = IF Logged(r) THEN <<Entry(r)>> ELSE <<>>)'
  BY <1>2, <1>4, <1>5 DEF Told, Logged
<1> QED BY <1>1, <1>2, <1>4, <1>6 DEF Told

LEMMA ToldItself ==
    ASSUME CoreInv, NEW r \in Requests, Library(r) \/ Environment(r), Told(r)
    PROVE  Told(r)'
<1> USE DEF CoreInv
<1>1. UNCHANGED route
  BY RouteStays DEF Next
<1>2. ASSUME UNCHANGED entries, pc[r] # "done", pc'[r] \notin {"capture", "take", "log", "done"}
      PROVE  Told(r)'
  BY <1>2 DEF Told, Logged
<1>3. CASE \E i \in ClientIds \cup {NoId, Blank} : Arrive(r, i)
  BY <1>2, <1>3 DEF Arrive, Goto, TypeOK
<1>4. CASE EnterAxum(r) \/ Intercept(r) \/ Wrap(r)
  BY <1>2, <1>4 DEF EnterAxum, Intercept, Wrap, Goto, TypeOK
<1>5. CASE RecordTarget(r)
  <2>1. UNCHANGED <<pc, context, answer, entries, replyId, id, taken>>
    BY <1>5 DEF RecordTarget
  <2>2. Entry(r)' = Entry(r) /\ (Logged(r)' <=> Logged(r))
    BY <1>1, <2>1 DEF Entry, Context, Logged
  <2> QED BY <1>1, <2>1, <2>2 DEF Told
<1>6. CASE \E a \in Answers : Answer(r, a)
  <2>1. PICK a \in Answers : Answer(r, a)
    BY <1>6
  <2>2. pc[r] = "handler" /\ answer'[r] = a /\ entries'[r] = <<>> /\ UNCHANGED <<replyId, id>>
    BY <2>1 DEF Answer, Told, Logged, contexts, TypeOK
  <2>3. \/ pc'[r] \in {"take", "capture"} /\ ~(route[r] = "axum" /\ a = "error")
        \/ pc'[r] = "done" /\ route[r] = "axum" /\ a = "error"
    BY <2>1 DEF Answer, Goto, TypeOK
  <2>4. ~Logged(r)'
    BY <1>1, <2>2, <2>3 DEF Logged
  <2> QED BY <1>1, <2>2, <2>3, <2>4 DEF Told
<1>7. CASE CaptureResponse(r) \/ TakeTargets(r)
  <2>1. /\ pc[r] \in {"capture", "take"} /\ pc'[r] \in {"take", "log"}
        /\ UNCHANGED <<answer, entries>>
    BY <1>7 DEF CaptureResponse, TakeTargets, Goto, TypeOK
  <2> QED BY <1>1, <2>1 DEF Told, Logged
<1>8. CASE Drop(r) \/ LogPanics(r)
  BY <1>2, <1>8 DEF Drop, LogPanics, Goto, TypeOK
<1>9. CASE Log(r)
  <2>1. /\ pc[r] = "log" /\ pc'[r] = "done" /\ UNCHANGED <<answer, context, id, taken>>
        /\ ~(route[r] = "axum" /\ answer[r] = "error") /\ entries[r] = <<>>
    BY <1>9 DEF Log, Goto, contexts, TypeOK, Told, Logged
  <2>2. Entry(r)' = Entry(r) /\ Logged(r)'
    BY <1>1, <2>1 DEF Entry, Context, Logged
  <2>3. entries'[r] = <<Entry(r)>>
    <3>1. entries'[r] = Append(entries[r], Entry(r))
      BY <1>9 DEF Log, TypeOK
    <3> QED BY <2>1, <3>1
  <2>4. route[r] # "axum" /\ answer[r] # "error" => replyId'[r] = Entry(r).id
    BY <1>9 DEF Log, SetRequestId, TypeOK, Entry
  <2>5. (entries[r] = IF Logged(r) THEN <<Entry(r)>> ELSE <<>>)'
    BY <2>2, <2>3
  <2>6. ~(pc'[r] \in {"capture", "take", "log"})
    BY <2>1
  <2>7. (pc[r] = "done" /\ route[r] # "axum" /\ answer[r] # "error" => replyId[r] = Entry(r).id)'
    BY <1>1, <2>1, <2>2, <2>4
  <2> QED BY <2>5, <2>6, <2>7 DEF Told
<1> QED BY <1>3, <1>4, <1>5, <1>6, <1>7, <1>8, <1>9 DEF Library, Environment

LEMMA Entries == Spec => [](CoreInv /\ EntryInv)
<1>1. Init => EntryInv
  BY DEF Init, EntryInv, Told, Logged
<1>2. CoreInv /\ EntryInv /\ [Next]_vars => EntryInv'
  <2> SUFFICES ASSUME CoreInv, EntryInv, [Next]_vars, NEW r \in Requests PROVE Told(r)'
    BY DEF EntryInv
  <2>1. Told(r)
    BY DEF EntryInv
  <2>2. ASSUME NEW q \in Requests, Library(q) \/ Environment(q) PROVE Told(r)'
    BY <2>1, <2>2, ToldItself, ToldOthers
  <2>3. CASE UNCHANGED vars
    BY <2>1, <2>3 DEF vars, contexts, Told, Logged, Entry, Context
  <2> QED BY <2>2, <2>3 DEF Next
<1> QED BY <1>1, <1>2, Core, PTL DEF Spec

\* Every request that is answered is logged, once and before the answer, on every
\* route, whatever other requests and the tasks that share its context do.
THEOREM EachLoggedOnce == Spec => []LoggedOnce
<1>1. EntryInv => LoggedOnce
  <2> SUFFICES ASSUME EntryInv, NEW r \in Requests
               PROVE  Len(entries[r]) = IF Logged(r) THEN 1 ELSE 0
    BY DEF LoggedOnce, Logged
  <2>1. entries[r] = IF Logged(r) THEN <<Entry(r)>> ELSE <<>>
    BY DEF EntryInv, Told
  <2> QED BY <2>1
<1> QED BY <1>1, Entries, PTL

\* The entry of a request that was logged.
LEMMA LoggedEntry ==
    ASSUME CoreInv, EntryInv, NEW r \in Requests, entries[r] # <<>>
    PROVE  /\ pc[r] = "done" /\ entries[r][1].id = id[Context(r)]
           /\ entries[r][1].id = Entry(r).id
           /\ Context(r) \in Requests /\ context[r] = {Context(r)}
           /\ context[Context(r)] = {Context(r)}
<1>1. Logged(r) /\ entries[r] = <<Entry(r)>>
  BY DEF EntryInv, Told
<1>2. pc[r] = "done" /\ context[r] # {}
  BY <1>1 DEF Logged, CoreInv, ContextInv
<1>3. entries[r][1] = Entry(r)
  BY <1>1
<1> QED BY <1>2, <1>3, EntryType DEF Entry

\* Entries and gRPC responses have the id of their context, which is the one its client
\* sent or else a fresh one that its handler sees too; a nested call has its caller's,
\* and only without the interceptor is an id ever empty.
THEOREM IdsAlwaysAgree == Spec => []IdsAgree
<1>1. CoreInv /\ EntryInv => IdsAgree
  <2> SUFFICES ASSUME CoreInv, EntryInv, NEW r \in Requests, entries[r] # <<>>
               PROVE  LET c == Context(r)
                          i == entries[r][1].id
                      IN  /\ c = r <=> route[r] # "nested"
                          /\ \A q \in Requests :
                                entries[q] # <<>> /\ context[q] = context[r] => entries[q][1].id = i
                          /\ route[r] # "axum" /\ answer[r] # "error" => replyId[r] = i
                          /\ sent[c] \in ClientIds => i = sent[c]
                          /\ route[c] \in {"axum", "grpc"} => i = header[c]
                          /\ i = Blank <=> \/ sent[c] = Blank /\ route[c] # "grpc"
                                           \/ sent[c] = NoId /\ route[c] = "bare"
    BY DEF IdsAgree
  <2> DEFINE c == Context(r)
             i == entries[r][1].id
  <2>1. /\ pc[r] = "done" /\ i = id[c] /\ i = Entry(r).id
        /\ c \in Requests /\ context[r] = {c} /\ context[c] = {c}
    BY LoggedEntry
  <2> HIDE DEF c, i
  <2>2. c = r <=> route[r] # "nested"
    BY <2>1 DEF CoreInv, ContextInv
  <2>3. ASSUME NEW q \in Requests, entries[q] # <<>>, context[q] = context[r]
        PROVE  entries[q][1].id = i
    <3>1. entries[q][1].id = id[Context(q)] /\ context[q] = {Context(q)}
      BY <2>3, LoggedEntry
    <3> QED BY <2>1, <2>3, <3>1
  <2>4. route[r] # "axum" /\ answer[r] # "error" => replyId[r] = i
    BY <2>1 DEF EntryInv, Told
  <2>5. /\ sent[c] \in ClientIds => i = sent[c]
        /\ route[c] \in {"axum", "grpc"} => i = header[c]
        /\ i = Blank <=> \/ sent[c] = Blank /\ route[c] # "grpc"
                         \/ sent[c] = NoId /\ route[c] = "bare"
    BY <2>1 DEF CoreInv, IdInv, IdOf
  <2> QED BY <2>2, <2>3, <2>4, <2>5 DEF c, i
<1> QED BY <1>1, Entries, PTL

\* Entries of different contexts have different ids, unless clients chose them.
THEOREM EntriesAlwaysCorrelate == Spec => []EntriesCorrelate
<1>1. CoreInv /\ EntryInv => EntriesCorrelate
  <2> SUFFICES ASSUME CoreInv, EntryInv, NEW r \in Requests, NEW q \in Requests,
                      entries[r] # <<>>, entries[q] # <<>>,
                      entries[r][1].id = entries[q][1].id, context[r] # context[q]
               PROVE  entries[r][1].id \in ClientIds \cup {Blank}
    BY DEF EntriesCorrelate
  <2> DEFINE c == Context(r)
             d == Context(q)
  <2>1. /\ c \in Requests /\ d \in Requests /\ c # d /\ context[c] = {c}
        /\ entries[r][1].id = id[c] /\ id[c] = id[d]
    BY LoggedEntry
  <2> HIDE DEF c, d
  <2>2. id[c] \notin Requests /\ id[c] \in Ids
    BY <2>1 DEF CoreInv, IdInv, IdOf
  <2> QED BY <2>1, <2>2 DEF Ids
<1> QED BY <1>1, Entries, PTL
-----------------------------------------------------------------------------
(* Target calls *)

LEMMA ToSetEmpty == ToSet(<<>>) = {} /\ Increasing(<<>>)
BY DEF ToSet, Increasing

LEMMA ToSetAppend ==
    ASSUME NEW S, NEW s \in Seq(S), NEW e \in S
    PROVE  ToSet(Append(s, e)) = ToSet(s) \cup {e}
<1>1. /\ Append(s, e) \in Seq(S) /\ Len(Append(s, e)) = Len(s) + 1 /\ Len(s) \in Nat
      /\ \A i \in 1..Len(s) : Append(s, e)[i] = s[i]
      /\ Append(s, e)[Len(s) + 1] = e
  BY AppendProperties, LenProperties
<1>2. DOMAIN s = 1..Len(s) /\ DOMAIN Append(s, e) = 1..(Len(s) + 1)
  BY <1>1, LenProperties
<1>3. ToSet(Append(s, e)) \subseteq ToSet(s) \cup {e}
  BY <1>1, <1>2 DEF ToSet
<1>4. ToSet(s) \subseteq ToSet(Append(s, e))
  BY <1>1, <1>2 DEF ToSet
<1>5. e \in ToSet(Append(s, e))
  <2>1. Len(s) + 1 \in DOMAIN Append(s, e)
    BY <1>1, <1>2
  <2> QED BY <1>1, <2>1 DEF ToSet
<1> QED BY <1>3, <1>4, <1>5

\* What is recorded later is greater, so the list stays in order.
LEMMA IncreasingAppend ==
    ASSUME NEW s \in Seq(Nat), NEW e \in Nat, Increasing(s), \A n \in ToSet(s) : n < e
    PROVE  Increasing(Append(s, e))
<1>1. /\ Len(Append(s, e)) = Len(s) + 1 /\ Len(s) \in Nat
      /\ \A i \in 1..Len(s) : Append(s, e)[i] = s[i]
      /\ Append(s, e)[Len(s) + 1] = e
  BY AppendProperties, LenProperties
<1>2. \A i \in 1..Len(s) : s[i] < e
  BY LenProperties DEF ToSet
<1> SUFFICES ASSUME NEW m \in 1..(Len(s) + 1), NEW n \in 1..(Len(s) + 1), m < n
             PROVE  Append(s, e)[m] < Append(s, e)[n]
  BY <1>1 DEF Increasing
<1>3. m \in 1..Len(s)
  BY <1>1
<1>4. CASE n \in 1..Len(s)
  BY <1>1, <1>3, <1>4 DEF Increasing
<1>5. CASE n = Len(s) + 1
  BY <1>1, <1>2, <1>3, <1>5
<1> QED BY <1>1, <1>4, <1>5

\* Beside RecordTarget and TakeTargets, a step only gives a request a context that
\* had none, and no request goes back before TakeTargets.
LEMMA ListSteps ==
    ASSUME CoreInv, ListInv, [Next]_vars
    PROVE  \/ \E r \in Requests : RecordTarget(r) \/ TakeTargets(r)
           \/ /\ UNCHANGED <<clientLog, taken, pushes, refused, before>>
              /\ \A q \in Requests :
                    /\ context[q] # {} => context'[q] = context[q]
                    /\ pc[q] \in {"log", "done", "gone"} => pc'[q] \in {"log", "done", "gone"}
<1> USE DEF CoreInv
<1> DEFINE Late(step) == step \in {"log", "done", "gone"}
           Shares == /\ UNCHANGED <<clientLog, taken, pushes, refused, before>>
                     /\ \A q \in Requests : /\ context[q] # {} => context'[q] = context[q]
                                            /\ Late(pc[q]) => Late(pc'[q])
<1>1. ASSUME NEW r \in Requests, Library(r) \/ Environment(r)
      PROVE  RecordTarget(r) \/ TakeTargets(r) \/ Shares
  <2>1. \A q \in Requests : context[q] # {} => context'[q] = context[q]
    <3> SUFFICES ASSUME NEW q \in Requests, context[q] # {} PROVE context'[q] = context[q]
      OBVIOUS
    <3>1. PICK c \in Requests : context[q] = {c}
      BY DEF ContextInv
    <3> QED BY <1>1, <3>1, ContextStays
  <2>2. ASSUME UNCHANGED <<clientLog, taken, pushes, refused, before>>,
               Late(pc[r]) => Late(pc'[r])
        PROVE  Shares
    <3>1. \A q \in Requests : Late(pc[q]) => Late(pc'[q])
      BY <1>1, <2>2, OthersStay
    <3> QED BY <2>1, <2>2, <3>1
  <2> HIDE DEF Shares
  <2>3. CASE \E i \in ClientIds \cup {NoId, Blank} : Arrive(r, i)
    BY <2>2, <2>3 DEF Arrive, contexts
  <2>4. ASSUME NEW i, NewContext(r, i), context[r] = {}
        PROVE  UNCHANGED <<clientLog, pushes, refused>>
    <3>1. clientLog[r] = <<>>
      BY <2>4 DEF ListInv
    <3> QED BY <2>4, <3>1 DEF NewContext, TypeOK
  <2>5. CASE EnterAxum(r) \/ Intercept(r) \/ Wrap(r)
    BY <2>2, <2>4, <2>5 DEF EnterAxum, Intercept, Wrap, ContextInv, contexts
  <2>6. CASE \E a \in Answers : Answer(r, a)
    BY <2>2, <2>6 DEF Answer, contexts
  <2>7. CASE CaptureResponse(r)
    BY <2>2, <2>7 DEF CaptureResponse, contexts
  <2>8. CASE Drop(r) \/ LogPanics(r)
    BY <2>2, <2>8 DEF Drop, LogPanics, Goto, TypeOK, contexts
  <2>9. CASE Log(r)
    BY <2>2, <2>9 DEF Log, Goto, TypeOK, contexts
  <2> QED BY <1>1, <2>3, <2>5, <2>6, <2>7, <2>8, <2>9 DEF Library, Environment
<1>2. CASE UNCHANGED vars
  BY <1>2 DEF vars, contexts
<1> QED BY <1>1, <1>2 DEF Next

\* The list a target call is recorded in, or that is full.
LEMMA Recorded ==
    ASSUME CoreInv, ListInv, NEW c \in Requests, RecordTarget(c)
    PROVE  LET n == pushes[c] + 1
           IN  /\ context[c] = {c} /\ n \in 1..MaxPushes
               /\ pushes' = [pushes EXCEPT ![c] = n]
               /\ UNCHANGED <<pc, context, taken, before>>
               /\ \A d \in Requests \ {c} :
                     clientLog'[d] = clientLog[d] /\ refused'[d] = refused[d]
               /\ \/ /\ clientLog'[c] = Append(clientLog[c], n)
                     /\ ToSet(clientLog'[c]) = ToSet(clientLog[c]) \cup {n}
                     /\ refused'[c] = refused[c] /\ Len(clientLog[c]) < MaxTargets
                  \/ /\ clientLog'[c] = clientLog[c] /\ Len(clientLog[c]) = MaxTargets
                     /\ refused'[c] = refused[c] \cup {n}
<1> USE DEF CoreInv
<1> DEFINE n == pushes[c] + 1
<1>1. context[c] = {c}
  BY ZenonT(60) DEF RecordTarget, ContextInv
<1>2. /\ n \in 1..MaxPushes /\ pushes' = [pushes EXCEPT ![c] = n]
      /\ UNCHANGED <<pc, context, taken, before>>
  BY RequestsAssumption, SMTT(20) DEF RecordTarget, TypeOK
<1>3. clientLog[c] \in Seq(1..MaxPushes) /\ Len(clientLog[c]) \in Nat /\ Len(clientLog[c]) <= MaxTargets
  BY LenProperties DEF TypeOK
<1>4. CASE Len(clientLog[c]) < MaxTargets
  <2>1. clientLog' = [clientLog EXCEPT ![c] = Append(@, n)] /\ UNCHANGED refused
    BY <1>4 DEF RecordTarget
  <2> HIDE DEF n
  <2>2. ToSet(Append(clientLog[c], n)) = ToSet(clientLog[c]) \cup {n}
    <3> DEFINE S == 1..MaxPushes
    <3>1. clientLog[c] \in Seq(S) /\ n \in S
      BY <1>2, <1>3
    <3> HIDE DEF S
    <3> QED BY ONLY <3>1, ToSetAppend
  <2>3. /\ clientLog'[c] = Append(clientLog[c], n)
        /\ \A d \in Requests \ {c} : clientLog'[d] = clientLog[d] /\ refused'[d] = refused[d]
    BY <2>1 DEF TypeOK
  <2>4. ToSet(clientLog'[c]) = ToSet(clientLog[c]) \cup {n}
    BY <2>2, <2>3
  <2> QED BY <1>1, <1>2, <1>4, <2>1, <2>3, <2>4 DEF n
<1>5. CASE ~(Len(clientLog[c]) < MaxTargets)
  <2>1. refused' = [refused EXCEPT ![c] = @ \cup {n}] /\ UNCHANGED clientLog
    BY <1>5 DEF RecordTarget
  <2>2. Len(clientLog[c]) = MaxTargets
    BY <1>3, <1>5, RequestsAssumption
  <2> HIDE DEF n
  <2>3. /\ refused'[c] = refused[c] \cup {n}
        /\ \A d \in Requests \ {c} : refused'[d] = refused[d]
    BY <2>1 DEF TypeOK
  <2> QED BY <1>1, <1>2, <2>1, <2>2, <2>3 DEF n
<1> QED BY <1>4, <1>5

\* The list that goes into the entry is the whole list of the context, which is
\* empty after it.
LEMMA Taken ==
    ASSUME CoreInv, ListInv, NEW r \in Requests, TakeTargets(r)
    PROVE  \E c \in Requests :
              /\ context[r] = {c} /\ context[c] = {c} /\ pc[r] = "take"
              /\ taken[r] = <<>> /\ before[r] = 0
              /\ UNCHANGED <<context, pushes, refused>>
              /\ \A q \in Requests : pc'[q] = IF q = r THEN "log" ELSE pc[q]
              /\ \A q \in Requests : taken'[q] = IF q = r THEN clientLog[c] ELSE taken[q]
              /\ \A q \in Requests : before'[q] = IF q = r THEN pushes[c] ELSE before[q]
              /\ \A d \in Requests : clientLog'[d] = IF d = c THEN <<>> ELSE clientLog[d]
<1> USE DEF CoreInv
<1>1. pc[r] = "take" /\ context[r] # {}
  BY DEF TakeTargets, ContextInv
<1>2. PICK c \in Requests : c = Context(r) /\ context[r] = {c} /\ context[c] = {c}
  BY <1>1, EntryType
<1>3. /\ pc' = [pc EXCEPT ![r] = "log"] /\ UNCHANGED <<context, pushes, refused>>
      /\ taken' = [taken EXCEPT ![r] = clientLog[c]]
      /\ before' = [before EXCEPT ![r] = pushes[c]]
      /\ clientLog' = [clientLog EXCEPT ![c] = <<>>]
  BY <1>2 DEF TakeTargets, Goto
<1>4. taken[r] = <<>> /\ before[r] = 0
  BY <1>1 DEF ListInv
<1>5. /\ \A q \in Requests : pc'[q] = IF q = r THEN "log" ELSE pc[q]
      /\ \A q \in Requests : taken'[q] = IF q = r THEN clientLog[c] ELSE taken[q]
  BY <1>3 DEF TypeOK
<1>6. /\ \A q \in Requests : before'[q] = IF q = r THEN pushes[c] ELSE before[q]
      /\ \A d \in Requests : clientLog'[d] = IF d = c THEN <<>> ELSE clientLog[d]
  BY <1>3 DEF TypeOK
<1> QED BY <1>1, <1>2, <1>3, <1>4, <1>5, <1>6

LEMMA ListTypes ==
    ASSUME TypeOK, NEW c \in Requests
    PROVE  /\ clientLog[c] \in Seq(Nat) /\ taken[c] \in Seq(Nat)
           /\ ToSet(clientLog[c]) \subseteq 1..MaxPushes /\ ToSet(taken[c]) \subseteq 1..MaxPushes
           /\ pushes[c] \in Nat /\ before[c] \in Nat /\ refused[c] \subseteq 1..MaxPushes
<1>1. clientLog[c] \in Seq(1..MaxPushes) /\ taken[c] \in Seq(1..MaxPushes)
  BY DEF TypeOK
<1>2. \A s \in Seq(1..MaxPushes) : s \in Seq(Nat) /\ ToSet(s) \subseteq 1..MaxPushes
  <2> SUFFICES ASSUME NEW s \in Seq(1..MaxPushes)
               PROVE  s \in Seq(Nat) /\ ToSet(s) \subseteq 1..MaxPushes
    OBVIOUS
  <2>1. DOMAIN s = 1..Len(s) /\ \A i \in 1..Len(s) : s[i] \in 1..MaxPushes
    BY ElementOfSeq, LenProperties
  <2>2. s \in Seq(Nat)
    BY RequestsAssumption, SeqMonotonic
  <2> QED BY <2>1, <2>2 DEF ToSet
<1>3. pushes[c] \in Nat /\ before[c] \in Nat /\ refused[c] \subseteq 1..MaxPushes
  BY RequestsAssumption DEF TypeOK
<1> QED BY <1>1, <1>2, <1>3

LEMMA ListStep == CoreInv /\ ListInv /\ [Next]_vars => ListInv'
<1> SUFFICES ASSUME CoreInv, CoreInv', ListInv, [Next]_vars PROVE ListInv'
  BY NextCore
<1> DEFINE OfContext(c) ==
              /\ context[c] # {c} => pushes[c] = 0 /\ refused[c] = {} /\ clientLog[c] = <<>>
              /\ ToSet(clientLog[c]) \subseteq 1..pushes[c] /\ refused[c] \subseteq 1..pushes[c]
              /\ Increasing(clientLog[c])
           OfPair(r, c) == context[r] = {c} =>
                              /\ before[r] <= pushes[c]
                              /\ \A n \in ToSet(clientLog[c]) : n > before[r]
           OfRequest(r) ==
              /\ pc[r] \notin {"log", "done", "gone"} => taken[r] = <<>> /\ before[r] = 0
              /\ context[r] = {} => taken[r] = <<>> /\ before[r] = 0
              /\ Increasing(taken[r]) /\ \A n \in ToSet(taken[r]) : n <= before[r]
              /\ \A c \in Requests : OfPair(r, c)
<1> USE DEF CoreInv
<1>1. \A q \in Requests : OfContext(q) /\ OfRequest(q)
  BY DEF ListInv
<1>2. SUFFICES \A q \in Requests : OfContext(q)' /\ OfRequest(q)'
  BY DEF ListInv
<1>3. \A q \in Requests : pushes[q] \in Nat /\ before[q] \in Nat
  BY ListTypes
<1>4. ASSUME NEW r \in Requests, RecordTarget(r)
      PROVE  \A q \in Requests : OfContext(q)' /\ OfRequest(q)'
  <2> DEFINE n == pushes[r] + 1
  <2>1. /\ context[r] = {r} /\ n \in 1..MaxPushes /\ pushes' = [pushes EXCEPT ![r] = n]
        /\ UNCHANGED <<pc, context, taken, before>>
        /\ \A d \in Requests \ {r} : clientLog'[d] = clientLog[d] /\ refused'[d] = refused[d]
        /\ \/ /\ clientLog'[r] = Append(clientLog[r], n)
              /\ ToSet(clientLog'[r]) = ToSet(clientLog[r]) \cup {n}
              /\ refused'[r] = refused[r]
           \/ clientLog'[r] = clientLog[r] /\ refused'[r] = refused[r] \cup {n}
    BY <1>4, Recorded
  <2>2. \A d \in Requests : pushes'[d] = IF d = r THEN n ELSE pushes[d]
    BY <2>1 DEF TypeOK
  <2>3. n = pushes[r] + 1 /\ pushes[r] \in Nat
    BY <1>3
  <2> HIDE DEF n
  <2>4. OfContext(r)'
    <3>1. ToSet(clientLog'[r]) \subseteq 1..n /\ refused'[r] \subseteq 1..n
      BY <1>1, <2>1, <2>3
    <3>2. Increasing(clientLog'[r])
      <4>1. clientLog[r] \in Seq(Nat) /\ \A m \in ToSet(clientLog[r]) : m < n
        BY <1>1, <2>3, ListTypes
      <4>2. Increasing(Append(clientLog[r], n))
        BY <1>1, <2>3, <4>1, IncreasingAppend
      <4> QED BY <1>1, <2>1, <4>2
    <3> QED BY <2>1, <2>2, <3>1, <3>2
  <2>5. ASSUME NEW q \in Requests, q # r PROVE OfContext(q)'
    BY <1>1, <2>1, <2>2, <2>5
  <2>6. ASSUME NEW q \in Requests, NEW c \in Requests PROVE OfPair(q, c)'
    <3>1. OfPair(q, c)
      BY <1>1
    <3>2. CASE c = r
      <4>1. \A m \in ToSet(clientLog'[r]) : m \in ToSet(clientLog[r]) \/ m = n
        BY <2>1
      <4> QED BY <1>3, <2>1, <2>2, <2>3, <3>1, <3>2, <4>1
    <3>3. CASE c # r
      BY <2>1, <2>2, <3>1, <3>3
    <3> QED BY <3>2, <3>3
  <2>7. ASSUME NEW q \in Requests PROVE OfRequest(q)'
    BY <1>1, <2>1, <2>6
  <2> QED BY <2>4, <2>5, <2>7
<1>5. ASSUME NEW r \in Requests, TakeTargets(r)
      PROVE  \A q \in Requests : OfContext(q)' /\ OfRequest(q)'
  <2>1. PICK c \in Requests :
           /\ context[r] = {c} /\ context[c] = {c} /\ pc[r] = "take"
           /\ taken[r] = <<>> /\ before[r] = 0
           /\ UNCHANGED <<context, pushes, refused>>
           /\ \A q \in Requests : pc'[q] = IF q = r THEN "log" ELSE pc[q]
           /\ \A q \in Requests : taken'[q] = IF q = r THEN clientLog[c] ELSE taken[q]
           /\ \A q \in Requests : before'[q] = IF q = r THEN pushes[c] ELSE before[q]
           /\ \A d \in Requests : clientLog'[d] = IF d = c THEN <<>> ELSE clientLog[d]
    BY <1>5, Taken
  <2>2. ToSet(<<>>) = {} /\ Increasing(<<>>)
    BY ToSetEmpty
  <2>3. ASSUME NEW q \in Requests PROVE OfContext(q)'
    BY <1>1, <2>1, <2>2
  <2>4. ASSUME NEW q \in Requests, NEW d \in Requests PROVE OfPair(q, d)'
    <3>1. OfPair(q, d)
      BY <1>1
    <3>2. CASE q = r
      <4>1. context'[q] = {d} => d = c
        BY <2>1, <3>2
      <4> QED BY <1>3, <2>1, <2>2, <3>2, <4>1
    <3>3. CASE q # r
      BY <2>1, <2>2, <3>1, <3>3
    <3> QED BY <3>2, <3>3
  <2>5. ASSUME NEW q \in Requests PROVE OfRequest(q)'
    <3>1. CASE q = r
      <4>1. pc'[q] = "log" /\ context'[q] # {} /\ taken'[q] = clientLog[c] /\ before'[q] = pushes[c]
        BY <2>1, <3>1
      <4>2. Increasing(clientLog[c]) /\ \A n \in ToSet(clientLog[c]) : n <= pushes[c]
        BY <1>1, <1>3
      <4> QED BY <2>4, <4>1, <4>2
    <3>2. CASE q # r
      BY <1>1, <2>1, <2>4, <3>2
    <3> QED BY <3>1, <3>2
  <2> QED BY <2>3, <2>5
<1>6. CASE /\ UNCHANGED <<clientLog, taken, pushes, refused, before>>
           /\ \A q \in Requests :
                 /\ context[q] # {} => context'[q] = context[q]
                 /\ pc[q] \in {"log", "done", "gone"} => pc'[q] \in {"log", "done", "gone"}
  <2>1. ASSUME NEW q \in Requests PROVE OfContext(q)'
    <3>1. context'[q] # {q} => context[q] # {q}
      BY <1>6
    <3> QED BY <1>1, <1>6, <3>1
  <2>2. ASSUME NEW q \in Requests, NEW c \in Requests PROVE OfPair(q, c)'
    <3>1. OfPair(q, c) /\ OfContext(c) /\ OfRequest(q)
      BY <1>1
    <3>2. CASE context[q] = {}
      <4>1. before[q] = 0
        BY <3>1, <3>2
      <4>2. \A n \in ToSet(clientLog[c]) : n > 0
        BY <1>3, <3>1
      <4> QED BY <1>3, <1>6, <4>1, <4>2
    <3>3. CASE context[q] # {}
      BY <1>6, <3>1, <3>3
    <3> QED BY <3>2, <3>3
  <2>3. ASSUME NEW q \in Requests PROVE OfRequest(q)'
    <3>1. OfRequest(q)
      BY <1>1
    <3>2. context'[q] = {} => context[q] = {}
      BY <1>6
    <3>3. pc'[q] \notin {"log", "done", "gone"} => pc[q] \notin {"log", "done", "gone"}
      BY <1>6
    <3> QED BY <1>6, <2>2, <3>1, <3>2, <3>3
  <2> QED BY <2>1, <2>3
<1> QED BY <1>4, <1>5, <1>6, ListSteps

\* A context gets its requests one by one, each with nothing taken: whoever has it
\* after the step had it before, or has taken nothing.
LEMMA SharersGrow ==
    ASSUME CoreInv, CoreInv', ListInv, NEW q \in Requests, NEW c \in Requests,
           context[q] # {} => context'[q] = context[q], context'[q] = {c}
    PROVE  context[q] = {c} \/ ToSet(taken[q]) = {}
<1>1. CASE context[q] = {}
  BY <1>1, ToSetEmpty DEF ListInv
<1>2. CASE context[q] # {}
  BY <1>2
<1> QED BY <1>1, <1>2

LEMMA KeptStep == CoreInv /\ ListInv /\ KeptInv /\ [Next]_vars => KeptInv'
<1> SUFFICES ASSUME CoreInv, CoreInv', ListInv, KeptInv, [Next]_vars PROVE KeptInv'
  BY NextCore
<1> DEFINE Placed(c) ==
              \A n \in 1..pushes[c] :
                 \/ n \in refused[c] \cup ToSet(clientLog[c])
                 \/ \E r \in Requests : context[r] = {c} /\ n \in ToSet(taken[r])
           Apart(c, r, q) ==
              /\ context[r] = {c} => refused[c] \cap ToSet(taken[r]) = {}
              /\ context[r] = {c} /\ context[q] = {c} /\ q # r =>
                    ToSet(taken[r]) \cap ToSet(taken[q]) = {}
           Caused(c) ==
              \A n \in refused[c] :
                 \/ FullBefore(clientLog[c], n)
                 \/ \E r \in Requests : context[r] = {c} /\ FullBefore(taken[r], n)
           Unrefused(c) == refused[c] \cap ToSet(clientLog[c]) = {}
<1> USE DEF CoreInv
<1>1. \A c \in Requests : /\ Placed(c) /\ Caused(c) /\ Unrefused(c)
                          /\ \A r, q \in Requests : Apart(c, r, q)
  BY DEF KeptInv
<1>2. SUFFICES ASSUME NEW c \in Requests
               PROVE  /\ Placed(c)' /\ Caused(c)' /\ Unrefused(c)'
                      /\ \A r, q \in Requests : Apart(c, r, q)'
  BY ZenonT(60) DEF KeptInv
<1>3. \A q \in Requests : pushes[q] \in Nat /\ before[q] \in Nat
  BY ListTypes
<1>4. ASSUME NEW d \in Requests, RecordTarget(d)
      PROVE  /\ Placed(c)' /\ Caused(c)' /\ Unrefused(c)'
             /\ \A r, q \in Requests : Apart(c, r, q)'
  <2> DEFINE n == pushes[d] + 1
  <2>1. /\ pushes' = [pushes EXCEPT ![d] = n] /\ UNCHANGED <<context, taken>>
        /\ \A e \in Requests \ {d} : clientLog'[e] = clientLog[e] /\ refused'[e] = refused[e]
        /\ \/ /\ ToSet(clientLog'[d]) = ToSet(clientLog[d]) \cup {n}
              /\ refused'[d] = refused[d] /\ Len(clientLog[d]) < MaxTargets
           \/ /\ clientLog'[d] = clientLog[d] /\ Len(clientLog[d]) = MaxTargets
              /\ refused'[d] = refused[d] \cup {n}
    BY <1>4, Recorded
  <2>2. \A e \in Requests : pushes'[e] = IF e = d THEN n ELSE pushes[e]
    BY <2>1 DEF TypeOK
  <2>3. n = pushes[d] + 1 /\ pushes[d] \in Nat
    BY <1>3
  <2> HIDE DEF n
  <2>4. CASE c # d
    <3>1. /\ pushes'[c] = pushes[c] /\ clientLog'[c] = clientLog[c] /\ refused'[c] = refused[c]
          /\ UNCHANGED <<context, taken>>
      BY <2>1, <2>2, <2>4
    <3>2. Placed(c)'
      BY <1>1, <3>1
    <3>3. Caused(c)' /\ Unrefused(c)'
      BY <1>1, <3>1
    <3>4. ASSUME NEW r \in Requests, NEW q \in Requests PROVE Apart(c, r, q)'
      BY <1>1, <3>1, ZenonT(60)
    <3> QED BY <3>2, <3>3, <3>4
  <2>5. CASE c = d
    <3>1. Placed(c)'
      <4>1. \A m \in 1..n : m \in 1..pushes[c] \/ m = n
        BY <2>3, <2>5
      <4>2. n \in refused'[c] \cup ToSet(clientLog'[c])
        BY <2>1, <2>5
      <4>3. /\ refused[c] \subseteq refused'[c]
            /\ ToSet(clientLog[c]) \subseteq ToSet(clientLog'[c])
        BY <2>1, <2>5
      <4> QED BY <1>1, <2>1, <2>2, <2>5, <4>1, <4>2, <4>3, ZenonT(60)
    <3>2. n \notin refused[c] /\ n \notin ToSet(clientLog[c])
      BY <2>3, <2>5 DEF ListInv
    <3>3. Unrefused(c)'
      BY <1>1, <2>1, <2>5, <3>2
    <3>4. ASSUME NEW r \in Requests, context[r] = {c} PROVE n \notin ToSet(taken[r])
      <4>1. before[r] <= pushes[c] /\ \A m \in ToSet(taken[r]) : m <= before[r]
        BY <3>4 DEF ListInv
      <4> QED BY <1>3, <2>3, <2>5, <4>1
    <3>5. ASSUME NEW r \in Requests, NEW q \in Requests PROVE Apart(c, r, q)'
      <4>1. Apart(c, r, q)
        BY <1>1
      <4>2. context[r] = {c} => refused'[c] \cap ToSet(taken[r]) = {}
        BY <2>1, <2>5, <3>4, <4>1
      <4> QED BY <2>1, <4>1, <4>2
    <3>6. Caused(c)'
      <4>1. CASE refused'[c] = refused[c] /\ Len(clientLog[c]) < MaxTargets
        <5>1. \A m : ~FullBefore(clientLog[c], m)
          BY <4>1, LenProperties, RequestsAssumption DEF TypeOK, FullBefore
        <5>2. \A m \in refused[c] :
                 \E r \in Requests : context[r] = {c} /\ FullBefore(taken[r], m)
          BY <1>1, <5>1
        <5> QED BY <2>1, <4>1, <5>2
      <4>2. CASE /\ clientLog'[c] = clientLog[c] /\ Len(clientLog[c]) = MaxTargets
                 /\ refused'[c] = refused[c] \cup {n}
        <5>1. FullBefore(clientLog[c], n)
          <6>1. ToSet(clientLog[c]) \subseteq 1..pushes[c]
            BY DEF ListInv
          <6>2. \A m \in ToSet(clientLog[c]) : m < n
            BY <2>3, <2>5, <6>1
          <6> QED BY <4>2, <6>2 DEF FullBefore
        <5> QED BY <1>1, <2>1, <4>2, <5>1
      <4> QED BY <2>1, <2>5, <4>1, <4>2
    <3> QED BY <3>1, <3>3, <3>5, <3>6
  <2> QED BY <2>4, <2>5
<1>5. ASSUME NEW t \in Requests, TakeTargets(t)
      PROVE  /\ Placed(c)' /\ Caused(c)' /\ Unrefused(c)'
             /\ \A r, q \in Requests : Apart(c, r, q)'
  <2>1. PICK d \in Requests :
           /\ context[t] = {d} /\ taken[t] = <<>>
           /\ UNCHANGED <<context, pushes, refused>>
           /\ \A q \in Requests : taken'[q] = IF q = t THEN clientLog[d] ELSE taken[q]
           /\ \A e \in Requests : clientLog'[e] = IF e = d THEN <<>> ELSE clientLog[e]
    BY <1>5, Taken
  <2>2. ToSet(<<>>) = {} /\ Len(<<>>) = 0
    BY ToSetEmpty, EmptySeq
  <2>3. Placed(c)'
    <3> SUFFICES ASSUME NEW n \in 1..pushes[c]
                 PROVE  \/ n \in refused[c] \cup ToSet(clientLog'[c])
                        \/ \E r \in Requests : context[r] = {c} /\ n \in ToSet(taken'[r])
      BY <2>1
    <3>1. CASE n \in refused[c] \cup ToSet(clientLog[c])
      BY <2>1, <3>1
    <3>2. ASSUME NEW r \in Requests, context[r] = {c}, n \in ToSet(taken[r])
          PROVE  context[r] = {c} /\ n \in ToSet(taken'[r])
      BY <2>1, <2>2, <3>2
    <3> QED BY <1>1, <3>1, <3>2
  <2>4. Unrefused(c)'
    BY <1>1, <2>1, <2>2
  <2>5. Caused(c)'
    <3> SUFFICES ASSUME NEW n \in refused[c]
                 PROVE  \/ FullBefore(clientLog'[c], n)
                        \/ \E r \in Requests : context[r] = {c} /\ FullBefore(taken'[r], n)
      BY <2>1 DEF FullBefore
    <3>1. CASE FullBefore(clientLog[c], n)
      <4>1. CASE c = d
        <5>1. context[t] = {c} /\ FullBefore(taken'[t], n)
          BY <2>1, <3>1, <4>1
        <5> QED BY <5>1
      <4>2. CASE c # d
        BY <2>1, <3>1, <4>2
      <4> QED BY <4>1, <4>2
    <3>2. ASSUME NEW r \in Requests, context[r] = {c}, FullBefore(taken[r], n)
          PROVE  FullBefore(taken'[r], n)
      <4>1. r # t
        BY <2>1, <2>2, <3>2, RequestsAssumption DEF FullBefore
      <4> QED BY <2>1, <3>2, <4>1
    <3>3. \/ FullBefore(clientLog[c], n)
          \/ \E r \in Requests : context[r] = {c} /\ FullBefore(taken[r], n)
      BY <1>1
    <3> QED BY <3>1, <3>2, <3>3
  <2>6. ASSUME NEW r \in Requests, context[r] = {d}
        PROVE  ToSet(clientLog[d]) \cap ToSet(taken[r]) = {}
    <3>1. /\ \A n \in ToSet(clientLog[d]) : n > before[r]
          /\ \A n \in ToSet(taken[r]) : n <= before[r]
      BY <2>6 DEF ListInv
    <3>2. /\ \A n \in ToSet(clientLog[d]) : n \in Nat
          /\ \A n \in ToSet(taken[r]) : n \in Nat
      <4>1. ToSet(clientLog[d]) \subseteq 1..MaxPushes /\ ToSet(taken[r]) \subseteq 1..MaxPushes
        BY ListTypes
      <4> QED BY <4>1, RequestsAssumption
    <3> QED BY <1>3, <3>1, <3>2
  <2>7. ASSUME NEW r \in Requests, NEW q \in Requests PROVE Apart(c, r, q)'
    <3>1. Apart(c, r, q) /\ Unrefused(c)
      BY <1>1
    <3>2. context[r] = {c} => refused[c] \cap ToSet(taken'[r]) = {}
      BY <2>1, <3>1
    <3>3. ASSUME context[r] = {c}, context[q] = {c}, q # r
          PROVE  ToSet(taken'[r]) \cap ToSet(taken'[q]) = {}
      BY <2>1, <2>6, <3>1, <3>3
    <3> QED BY <2>1, <3>2, <3>3
  <2> QED BY <2>3, <2>4, <2>5, <2>7
<1>6. CASE /\ UNCHANGED <<clientLog, taken, pushes, refused, before>>
           /\ \A q \in Requests : context[q] # {} => context'[q] = context[q]
  <2>1. \A q \in Requests : context[q] = {c} => context'[q] = {c}
    BY <1>6
  <2>2. \A q \in Requests : context'[q] = {c} => context[q] = {c} \/ ToSet(taken[q]) = {}
    BY <1>6, SharersGrow
  <2>3. Placed(c)'
    <3> SUFFICES ASSUME NEW n \in 1..pushes[c]
                 PROVE  \/ n \in refused[c] \cup ToSet(clientLog[c])
                        \/ \E r \in Requests : context'[r] = {c} /\ n \in ToSet(taken[r])
      BY <1>6
    <3> QED BY <1>1, <2>1
  <2>4. Unrefused(c)' /\ Caused(c)'
    <3>1. Unrefused(c)'
      BY <1>1, <1>6
    <3>2. ASSUME NEW n \in refused[c]
          PROVE  \/ FullBefore(clientLog[c], n)
                 \/ \E r \in Requests : context'[r] = {c} /\ FullBefore(taken[r], n)
      BY <1>1, <2>1
    <3>3. Caused(c)'
      BY <1>6, <3>2 DEF FullBefore
    <3> QED BY <3>1, <3>3
  <2>5. ASSUME NEW r \in Requests, NEW q \in Requests PROVE Apart(c, r, q)'
    BY <1>1, <1>6, <2>2, SMTT(20)
  <2> QED BY <2>3, <2>4, <2>5
<1> QED BY <1>4, <1>5, <1>6, ListSteps

LEMMA UntoldStep ==
    CoreInv /\ EntryInv /\ ListInv /\ UntoldInv /\ [Next]_vars => UntoldInv'
<1> SUFFICES ASSUME CoreInv, EntryInv, ListInv, UntoldInv, [Next]_vars, NEW r \in Requests,
                    pc'[r] = "done", route[r] = "axum", answer'[r] = "error"
             PROVE  taken'[r] = <<>>
  BY RouteStays DEF UntoldInv, Logged
<1> USE DEF CoreInv
<1>1. pc[r] = "done" /\ answer[r] = "error" => taken[r] = <<>>
  BY DEF UntoldInv, Logged
<1>2. CASE UNCHANGED vars
  BY <1>1, <1>2 DEF vars
<1>3. ASSUME NEW q \in Requests, q # r, Library(q) \/ Environment(q) PROVE taken'[r] = <<>>
  BY <1>1, <1>3, OthersStay
<1>4. CASE Library(r) \/ Environment(r)
  <2>1. CASE \E i \in ClientIds \cup {NoId, Blank} : Arrive(r, i)
    <3>1. pc'[r] # "done"
      BY <2>1 DEF Arrive, Goto, TypeOK
    <3> QED BY <3>1
  <2>2. CASE \/ EnterAxum(r) \/ Intercept(r) \/ Wrap(r) \/ CaptureResponse(r)
             \/ TakeTargets(r) \/ Drop(r) \/ LogPanics(r)
    <3>1. pc'[r] # "done"
      BY <2>2 DEF EnterAxum, Intercept, Wrap, CaptureResponse, TakeTargets, Drop, LogPanics,
                  Goto, TypeOK
    <3> QED BY <3>1
  <2>3. CASE RecordTarget(r)
    BY <1>1, <2>3 DEF RecordTarget
  <2>4. CASE \E a \in Answers : Answer(r, a)
    BY <2>4 DEF Answer, ListInv
  <2>5. CASE Log(r)
    BY <2>5 DEF Log, EntryInv, Told
  <2> QED BY <1>4, <2>1, <2>2, <2>3, <2>4, <2>5 DEF Library, Environment
<1> QED BY <1>2, <1>3, <1>4 DEF Next

LEMMA Lists == Spec => [](CoreInv /\ EntryInv /\ ListInv /\ KeptInv /\ UntoldInv)
<1>1. Init => ListInv /\ KeptInv /\ UntoldInv
  <2> SUFFICES ASSUME Init PROVE ListInv /\ KeptInv /\ UntoldInv
    OBVIOUS
  <2>1. ToSet(<<>>) = {} /\ Increasing(<<>>)
    BY ToSetEmpty
  <2>2. /\ \A c \in Requests : /\ clientLog[c] = <<>> /\ taken[c] = <<>> /\ pushes[c] = 0
                               /\ refused[c] = {} /\ before[c] = 0 /\ context[c] = {}
    BY DEF Init
  <2>3. ListInv
    BY <2>1, <2>2 DEF ListInv
  <2>4. KeptInv
    BY <2>1, <2>2 DEF KeptInv
  <2>5. UntoldInv
    BY <2>2 DEF UntoldInv
  <2> QED BY <2>3, <2>4, <2>5
<1> QED BY <1>1, Entries, ListStep, KeptStep, UntoldStep, PTL DEF Spec

\* A target call was refused by a full list, or stays in the list of its context since
\* no entry of the context was built after it, or is told in one entry of one request,
\* unless that request is about to log or could not print its entry: no interleaving
\* of handlers, the tasks they left behind and the logging of requests that share the
\* context loses or doubles one otherwise.
THEOREM TargetsNeverLost == Spec => []TargetsKept
<1>1. CoreInv /\ EntryInv /\ ListInv /\ KeptInv /\ UntoldInv => TargetsKept
  <2> SUFFICES ASSUME CoreInv, EntryInv, ListInv, KeptInv, UntoldInv,
                      NEW c \in Requests, NEW n \in 1..pushes[c]
               PROVE  LET sharers  == {r \in Requests : context[r] = {c}}
                          tellers  == {r \in sharers : \E i \in 1..Len(entries[r]) :
                                                          n \in ToSet(entries[r][i].target)}
                          carriers == {r \in sharers : pc[r] \in {"log", "gone"} /\ n \in ToSet(taken[r])}
                          listed   == n \in ToSet(clientLog[c])
                      IN  \/ /\ n \in refused[c] /\ ~listed /\ tellers = {} /\ carriers = {}
                             /\ \E list \in {clientLog[c]} \cup {taken[r] : r \in sharers} :
                                   FullBefore(list, n)
                          \/ /\ n \notin refused[c] /\ listed /\ tellers = {} /\ carriers = {}
                             /\ \A r \in sharers : n > before[r]
                          \/ /\ n \notin refused[c] /\ ~listed
                             /\ \E r \in sharers : {tellers, carriers} = {{r}, {}}
    BY DEF TargetsKept
  <2> DEFINE sharers  == {r \in Requests : context[r] = {c}}
             tellers  == {r \in sharers : \E i \in 1..Len(entries[r]) :
                                             n \in ToSet(entries[r][i].target)}
             carriers == {r \in sharers : pc[r] \in {"log", "gone"} /\ n \in ToSet(taken[r])}
             listed   == n \in ToSet(clientLog[c])
             Took(r)  == n \in ToSet(taken[r])
  <2>1. ASSUME NEW r \in sharers PROVE r \in tellers <=> Logged(r) /\ Took(r)
    <3>1. entries[r] = IF Logged(r) THEN <<Entry(r)>> ELSE <<>>
      BY DEF EntryInv, Told
    <3>2. Entry(r).target = taken[r]
      BY DEF Entry
    <3>3. CASE Logged(r)
      <4>1. Len(entries[r]) = 1 /\ entries[r][1].target = taken[r]
        BY <3>1, <3>2, <3>3
      <4> QED BY <3>3, <4>1
    <3>4. CASE ~Logged(r)
      <4>1. Len(entries[r]) = 0
        BY <3>1, <3>4
      <4> QED BY <3>4, <4>1
    <3> QED BY <3>3, <3>4
  <2>2. ASSUME NEW r \in sharers PROVE r \in carriers <=> ~Logged(r) /\ Took(r)
    <3>1. Took(r) => taken[r] # <<>>
      BY ToSetEmpty
    <3>2. taken[r] # <<>> => pc[r] \in {"log", "gone"} \/ Logged(r)
      BY DEF ListInv, UntoldInv
    <3> QED BY <3>1, <3>2 DEF Logged
  <2>3. tellers \subseteq sharers /\ carriers \subseteq sharers
    OBVIOUS
  <2>4. ASSUME NEW r \in sharers, Took(r)
        PROVE  /\ n \notin refused[c] /\ ~listed
               /\ \A q \in sharers \ {r} : ~Took(q)
    <3>1. n <= before[r] /\ (listed => n > before[r])
      BY <2>4 DEF ListInv
    <3>2. n \in Nat /\ before[r] \in Nat
      BY ListTypes DEF CoreInv
    <3>3. ~listed
      BY <3>1, <3>2
    <3>4. n \notin refused[c] /\ \A q \in sharers \ {r} : ~Took(q)
      BY <2>4 DEF KeptInv
    <3> QED BY <3>3, <3>4
  <2>5. n \in refused[c] => ~listed
    BY DEF KeptInv
  <2>6. n \in refused[c] => \E list \in {clientLog[c]} \cup {taken[r] : r \in sharers} :
                               FullBefore(list, n)
    <3> DEFINE lists == {clientLog[c]} \cup {taken[r] : r \in sharers}
    <3>1. n \in refused[c] =>
             \/ FullBefore(clientLog[c], n)
             \/ \E r \in Requests : context[r] = {c} /\ FullBefore(taken[r], n)
      BY DEF KeptInv
    <3>2. \A r \in Requests : context[r] = {c} => taken[r] \in lists
      OBVIOUS
    <3>3. clientLog[c] \in lists
      OBVIOUS
    <3> HIDE DEF lists
    <3>4. n \in refused[c] => \E list \in lists : FullBefore(list, n)
      BY <3>1, <3>2, <3>3
    <3> QED BY <3>4 DEF lists
  <2>7. listed => \A r \in sharers : n > before[r]
    BY DEF ListInv
  <2>8. n \in refused[c] \/ listed \/ \E r \in sharers : Took(r)
    BY DEF KeptInv
  <2> HIDE DEF sharers, tellers, carriers, listed, Took
  <2>9. CASE \A r \in sharers : ~Took(r)
    <3>1. tellers = {} /\ carriers = {}
      BY <2>1, <2>2, <2>3, <2>9
    <3> QED BY <2>5, <2>6, <2>7, <2>8, <2>9, <3>1 DEF sharers, tellers, carriers, listed
  <2>10. ASSUME NEW r \in sharers, Took(r)
         PROVE  n \notin refused[c] /\ ~listed /\ {tellers, carriers} = {{r}, {}}
    <3>1. CASE Logged(r)
      BY <2>1, <2>2, <2>3, <2>4, <2>10, <3>1
    <3>2. CASE ~Logged(r)
      BY <2>1, <2>2, <2>3, <2>4, <2>10, <3>2
    <3> QED BY <2>4, <2>10, <3>1, <3>2
  <2> QED BY <2>9, <2>10 DEF sharers, tellers, carriers, listed
<1> QED BY <1>1, Lists, PTL

\* An entry has its target calls in the order they were recorded, and none that was
\* recorded after its list was taken.
THEOREM TargetsAlwaysInTime == Spec => []TargetsInTime
<1>1. CoreInv /\ EntryInv /\ ListInv => TargetsInTime
  <2> SUFFICES ASSUME CoreInv, EntryInv, ListInv, NEW r \in Requests, entries[r] # <<>>
               PROVE  /\ \A m, n \in 1..Len(taken[r]) : m < n => taken[r][m] < taken[r][n]
                      /\ \A n \in ToSet(taken[r]) : n <= before[r]
                      /\ \A n \in ToSet(clientLog[Context(r)]) : n > before[r]
    BY DEF TargetsInTime
  <2>1. Context(r) \in Requests /\ context[r] = {Context(r)}
    BY LoggedEntry
  <2> QED BY <2>1 DEF ListInv, Increasing
<1> QED BY <1>1, Lists, PTL
=============================================================================
