---------------------------- MODULE LoggerProofs ----------------------------
(***************************************************************************)
(* For every set of threads, capacity and number of calls and restarts:    *)
(* entries leave the logger in the order the channel accepted them, none    *)
(* vanishes or is handled twice, what is refused is counted and announced   *)
(* exactly, and what is lost is lost with the process or the worker.        *)
(*                                                                          *)
(* QueueOrder speaks of the worker's entry and the channel together; it is  *)
(* inductive once the worker is known to hold at most one entry.  The other *)
(* invariants rest on it and on one fact more: the entry of a call that has *)
(* not reached try_send is new to the channel and to the refused.           *)
(***************************************************************************)
EXTENDS Logger, SequenceTheorems, FiniteSetTheorems, TLAPS

\* Where accepted entries are, and how many the worker holds.
PlacesOK ==
    /\ queue \in Seq(Entry) /\ accepted \in Seq(Entry) /\ current \in Seq(Entry)
    /\ wpc \in {"recv", "post", "await", "fallback", "report", "dead"}
    /\ Len(current) = IF wpc \in {"recv", "dead"} THEN 0 ELSE 1
    /\ pc \in [Threads -> {"idle", "print", "send", "count", "notice", "closed"}]
    /\ calls \in [Threads -> 0..MaxCalls]
    /\ \A t \in Threads : pc[t] = "send" \/ pc[t] = "print" => calls[t] \in 1..MaxCalls

\* part is the end of all.
Suffix(part, all) ==
    /\ Len(part) <= Len(all)
    /\ \A i \in 1..Len(part) : part[i] = all[Len(all) - Len(part) + i]

OrderInv == PlacesOK /\ Suffix(Backlog, accepted)

-----------------------------------------------------------------------------
LEMMA SuffixEmpty == ASSUME NEW S, NEW all \in Seq(S) PROVE Suffix(<<>>, all)
<1>1. Len(<<>>) = 0 /\ Len(all) \in Nat
  BY EmptySeq, LenProperties
<1> QED BY <1>1 DEF Suffix

\* try_send adds the same entry at both ends.
LEMMA SuffixAppend ==
    ASSUME NEW S, NEW part \in Seq(S), NEW all \in Seq(S), NEW e \in S, Suffix(part, all)
    PROVE  Suffix(Append(part, e), Append(all, e))
<1> DEFINE p == Append(part, e)
           a == Append(all, e)
<1>1. /\ Len(p) = Len(part) + 1 /\ p[Len(part) + 1] = e
      /\ \A i \in 1..Len(part) : p[i] = part[i]
  BY AppendProperties
<1>2. /\ Len(a) = Len(all) + 1 /\ a[Len(all) + 1] = e
      /\ \A i \in 1..Len(all) : a[i] = all[i]
  BY AppendProperties
<1>3. Len(part) \in Nat /\ Len(all) \in Nat
  BY LenProperties
<1> HIDE DEF p, a
<1>4. ASSUME NEW i \in 1..Len(p) PROVE p[i] = a[Len(a) - Len(p) + i]
  <2> DEFINE k == Len(all) - Len(part)
  <2>1. Len(a) - Len(p) + i = k + i /\ k \in Nat
    BY <1>1, <1>2, <1>3 DEF Suffix
  <2>2. CASE i <= Len(part)
    <3>1. p[i] = part[i] /\ part[i] = all[k + i]
      BY <1>1, <1>3, <2>2 DEF Suffix
    <3>2. k + i \in 1..Len(all)
      BY <1>3, <2>2 DEF Suffix
    <3> QED BY <1>2, <2>1, <3>1, <3>2
  <2>3. CASE ~(i <= Len(part))
    <3>1. i = Len(part) + 1
      BY <1>1, <1>3, <2>3
    <3>2. k + i = Len(all) + 1
      BY <1>3, <3>1
    <3> QED BY <1>1, <1>2, <2>1, <3>1, <3>2
  <2> QED BY <2>2, <2>3
<1>5. Suffix(p, a)
  BY <1>1, <1>2, <1>3, <1>4 DEF Suffix
<1> QED BY <1>5 DEF p, a

\* Being done with the oldest entry leaves a shorter suffix.
LEMMA SuffixTail ==
    ASSUME NEW S, NEW part \in Seq(S), NEW all \in Seq(S), Suffix(part, all), part # <<>>
    PROVE  Suffix(Tail(part), all)
<1> DEFINE rest == Tail(part)
<1>1. Len(rest) = Len(part) - 1 /\ \A i \in 1..Len(rest) : rest[i] = part[i+1]
  BY HeadTailProperties
<1>2. Len(part) \in Nat \ {0} /\ Len(all) \in Nat
  BY EmptySeq, LenProperties
<1> HIDE DEF rest
<1>3. Suffix(rest, all)
  BY <1>1, <1>2 DEF Suffix
<1> QED BY <1>3 DEF rest

\* The entry the worker holds is the head of the backlog, or there is none.
LEMMA BacklogShape ==
    ASSUME PlacesOK
    PROVE  /\ Backlog \in Seq(Entry)
           /\ current = <<>> => Backlog = queue
           /\ wpc \in {"recv", "dead"} => current = <<>>
           /\ wpc \notin {"recv", "dead"} => Backlog # <<>> /\ Tail(Backlog) = queue
<1>1. Backlog \in Seq(Entry)
  BY ConcatProperties DEF PlacesOK, Backlog
<1>2. current = <<>> => Backlog = queue
  BY ConcatEmptySeq DEF PlacesOK, Backlog
<1>3. wpc \in {"recv", "dead"} => current = <<>>
  BY EmptySeq DEF PlacesOK
<1>4. ASSUME wpc \notin {"recv", "dead"} PROVE Backlog # <<>> /\ Tail(Backlog) = queue
  <2>1. Len(current) = 1 /\ Len(queue) \in Nat
    BY <1>4, LenProperties DEF PlacesOK
  <2>2. /\ Len(Backlog) = 1 + Len(queue)
        /\ \A i \in 1..1 + Len(queue) : Backlog[i] = IF i <= 1 THEN current[i] ELSE queue[i - 1]
    <3>1. /\ Len(Backlog) = Len(current) + Len(queue)
          /\ \A i \in 1..Len(current) + Len(queue) :
                Backlog[i] = IF i <= Len(current) THEN current[i] ELSE queue[i - Len(current)]
      BY ConcatProperties DEF PlacesOK, Backlog
    <3> QED BY <2>1, <3>1
  <2>3. Backlog # <<>>
    BY <2>1, <2>2, EmptySeq
  <2> DEFINE rest == Tail(Backlog)
  <2>4. /\ rest \in Seq(Entry) /\ Len(rest) = Len(Backlog) - 1
        /\ \A i \in 1..Len(rest) : rest[i] = Backlog[i+1]
    BY <1>1, <2>3, HeadTailProperties
  <2> HIDE DEF rest
  <2>5. Len(rest) = Len(queue) /\ \A i \in 1..Len(queue) : rest[i] = queue[i]
    BY <2>1, <2>2, <2>4
  <2>6. rest = queue
    BY <2>4, <2>5, SeqEqual DEF PlacesOK
  <2> QED BY <2>3, <2>6 DEF rest
<1> QED BY <1>1, <1>2, <1>3, <1>4

\* try_send puts the entry behind all others.
LEMMA BacklogEnqueue ==
    ASSUME PlacesOK, NEW e \in Entry, queue' = Append(queue, e), UNCHANGED current
    PROVE  Backlog' = Append(Backlog, e)
<1>1. current \in Seq(Entry) /\ queue \in Seq(Entry) /\ <<e>> \in Seq(Entry)
  BY DEF PlacesOK
<1>2. current \o Append(queue, e) = current \o (queue \o <<e>>)
  BY <1>1, AppendIsConcat
<1>3. current \o (queue \o <<e>>) = (current \o queue) \o <<e>>
  BY <1>1, ConcatAssociative
<1>4. (current \o queue) \o <<e>> = Append(current \o queue, e)
  BY <1>1, AppendIsConcat, ConcatProperties
<1> QED BY <1>2, <1>3, <1>4 DEF Backlog

\* The head of the channel becomes the worker's entry: the backlog is the same.
LEMMA BacklogReceive ==
    ASSUME PlacesOK, wpc = "recv", queue # <<>>,
           current' = <<Head(queue)>>, queue' = Tail(queue)
    PROVE  Backlog' = Backlog
<1>1. /\ queue \in Seq(Entry) /\ Head(queue) \in Entry /\ Tail(queue) \in Seq(Entry)
      /\ Backlog = queue
  BY BacklogShape, HeadTailProperties DEF PlacesOK
<1>2. Len(queue) \in Nat \ {0}
  BY <1>1, EmptySeq
<1>3. SubSeq(queue, 1, Len(queue)) = <<queue[1]>> \o SubSeq(queue, 2, Len(queue))
  BY <1>1, <1>2, SubSeqRecursiveFirst
<1>4. Tail(queue) = SubSeq(queue, 2, Len(queue)) /\ Head(queue) = queue[1]
  BY <1>1, TailIsSubSeq
<1>5. Backlog' = SubSeq(queue, 1, Len(queue))
  BY <1>3, <1>4 DEF Backlog
<1> QED BY <1>1, <1>5, SubSeqFull

\* The entry the worker is done with is the oldest.
LEMMA BacklogDone ==
    ASSUME PlacesOK, wpc \notin {"recv", "dead"}, current' = <<>>, UNCHANGED queue
    PROVE  /\ Backlog # <<>> /\ Head(Backlog) = current[1]
           /\ Backlog' = Tail(Backlog)
<1>1. Backlog \in Seq(Entry) /\ Backlog # <<>> /\ Tail(Backlog) = queue
  BY BacklogShape
<1>2. Backlog' = queue
  BY ConcatEmptySeq DEF PlacesOK, Backlog
<1>3. Head(Backlog) = current[1]
  <2>1. Len(current) = 1 /\ Len(queue) \in Nat
    BY LenProperties DEF PlacesOK
  <2>2. \A i \in 1..Len(current) + Len(queue) :
           Backlog[i] = IF i <= Len(current) THEN current[i] ELSE queue[i - Len(current)]
    BY ConcatProperties DEF PlacesOK, Backlog
  <2>3. Backlog[1] = current[1]
    BY <2>1, <2>2
  <2> QED BY <1>1, <2>3, HeadTailProperties
<1> QED BY <1>1, <1>2, <1>3

-----------------------------------------------------------------------------
LEMMA InitOrder == Init => OrderInv
<1> SUFFICES ASSUME Init PROVE OrderInv
  OBVIOUS
<1>1. <<>> \in Seq(Entry) /\ Len(<<>>) = 0
  BY EmptySeq
<1>2. PlacesOK
  BY <1>1, LoggerAssumption DEF Init, PlacesOK
<1>3. Backlog = <<>>
  BY <1>1, ConcatEmptySeq DEF Init, Backlog
<1>4. Suffix(Backlog, accepted)
  BY <1>1, <1>3, SuffixEmpty DEF Init
<1> QED BY <1>2, <1>4 DEF OrderInv

\* A step that moves no entry.
LEMMA StepElsewhere ==
    ASSUME OrderInv, UNCHANGED <<queue, current, accepted>>, PlacesOK'
    PROVE  OrderInv'
BY DEF OrderInv, Suffix, Backlog

LEMMA StepCall == ASSUME OrderInv, NEW t \in Threads, Call(t) PROVE OrderInv'
<1>1. UNCHANGED <<queue, wpc, current, accepted>>
  BY DEF Call, worker
<1>2. /\ calls' = [calls EXCEPT ![t] = @ + 1] /\ pc' = [pc EXCEPT ![t] = "print"]
      /\ calls[t] < MaxCalls
  BY DEF Call, Goto
<1>3. PlacesOK'
  BY <1>1, <1>2, LoggerAssumption DEF OrderInv, PlacesOK
<1> QED BY <1>1, <1>3, StepElsewhere

LEMMA StepSend == ASSUME OrderInv, NEW t \in Threads, TrySend(t) PROVE OrderInv'
<1>1. pc[t] = "send" /\ UNCHANGED <<calls, wpc, current>>
  BY DEF TrySend, worker
<1>2. PICK step \in {"idle", "count", "closed"} : pc' = [pc EXCEPT ![t] = step]
  BY DEF TrySend, Goto
<1>3. CASE Enqueue(t)
  <2> DEFINE e == Mine(t)
  <2>1. e \in Entry
    BY <1>1 DEF OrderInv, PlacesOK, Mine, Entry
  <2>2. queue' = Append(queue, e) /\ accepted' = Append(accepted, e)
    BY <1>3 DEF Enqueue
  <2>3. queue' \in Seq(Entry) /\ accepted' \in Seq(Entry)
    BY <2>1, <2>2, AppendProperties DEF OrderInv, PlacesOK
  <2> HIDE DEF e
  <2>4. PlacesOK'
    BY <1>1, <1>2, <2>3 DEF OrderInv, PlacesOK
  <2>5. Backlog' = Append(Backlog, e)
    BY <1>1, <2>1, <2>2, BacklogEnqueue DEF OrderInv
  <2>6. Suffix(Append(Backlog, e), Append(accepted, e))
    BY <2>1, BacklogShape, SuffixAppend DEF OrderInv, PlacesOK
  <2>7. Suffix(Backlog, accepted)'
    BY <2>2, <2>5, <2>6 DEF Suffix
  <2> QED BY <2>4, <2>7 DEF OrderInv
<1>4. CASE UNCHANGED <<queue, accepted>>
  <2>1. PlacesOK'
    BY <1>1, <1>2, <1>4 DEF OrderInv, PlacesOK
  <2> QED BY <1>1, <1>4, <2>1, StepElsewhere
<1> QED BY <1>3, <1>4 DEF TrySend

\* The other steps of a caller.
LEMMA StepCaller ==
    ASSUME OrderInv, NEW t \in Threads,
           PrintEntry(t) \/ Count(t) \/ Notice(t) \/ ReportClosed(t)
    PROVE  OrderInv'
<1>1. UNCHANGED <<queue, wpc, current, accepted, calls>>
  BY DEF PrintEntry, Count, Notice, ReportClosed, worker
<1>2. \/ pc[t] = "print" /\ pc' = [pc EXCEPT ![t] = "send"]
      \/ \E step \in {"idle", "notice"} : pc' = [pc EXCEPT ![t] = step]
  BY DEF PrintEntry, Count, Notice, ReportClosed, Goto
<1>3. PlacesOK'
  BY <1>1, <1>2 DEF OrderInv, PlacesOK
<1> QED BY <1>1, <1>3, StepElsewhere

LEMMA StepReceive == ASSUME OrderInv, Receive PROVE OrderInv'
<1>1. /\ wpc = "recv" /\ queue # <<>> /\ wpc' \in {"post", "fallback"}
      /\ current' = <<Head(queue)>> /\ queue' = Tail(queue)
      /\ UNCHANGED <<pc, calls, accepted>>
  BY DEF Receive, caller
<1>2. /\ queue \in Seq(Entry) /\ Head(queue) \in Entry /\ Tail(queue) \in Seq(Entry)
      /\ current = <<>> /\ Backlog = queue
  BY <1>1, BacklogShape, HeadTailProperties DEF OrderInv, PlacesOK
<1>3. current' \in Seq(Entry) /\ Len(current') = 1
  BY <1>1, <1>2
<1>4. PlacesOK'
  BY <1>1, <1>2, <1>3 DEF OrderInv, PlacesOK
<1>5. Backlog' = Backlog
  BY <1>1, BacklogReceive DEF OrderInv
<1>6. Suffix(Backlog, accepted)'
  BY <1>1, <1>5 DEF OrderInv, Suffix
<1> QED BY <1>4, <1>6 DEF OrderInv

\* The worker is done with its entry: the oldest of the backlog.
LEMMA StepDone ==
    ASSUME OrderInv, wpc \notin {"recv", "dead"}, wpc' = "recv", current' = <<>>,
           UNCHANGED <<pc, calls, queue, accepted>>
    PROVE  OrderInv'
<1>1. <<>> \in Seq(Entry) /\ Len(<<>>) = 0
  BY EmptySeq
<1>2. PlacesOK'
  BY <1>1 DEF OrderInv, PlacesOK
<1>3. Backlog' = queue
  BY ConcatEmptySeq DEF OrderInv, PlacesOK, Backlog
<1>4. Suffix(queue, accepted)
  <2>1. Backlog \in Seq(Entry) /\ Backlog # <<>> /\ Tail(Backlog) = queue
    BY BacklogShape DEF OrderInv
  <2>2. Suffix(Tail(Backlog), accepted)
    BY <2>1, SuffixTail DEF OrderInv, PlacesOK
  <2> QED BY <2>1, <2>2
<1>5. Suffix(Backlog, accepted)'
  BY <1>3, <1>4 DEF Suffix
<1> QED BY <1>2, <1>5 DEF OrderInv

\* The worker or the process ends.
LEMMA StepLose ==
    ASSUME OrderInv, LoseBacklog, wpc' \in {"recv", "dead"}, UNCHANGED <<calls, accepted>>,
           pc' = pc \/ pc' = [t \in Threads |-> "idle"]
    PROVE  OrderInv'
<1>1. <<>> \in Seq(Entry) /\ Len(<<>>) = 0
  BY EmptySeq
<1>2. queue' = <<>> /\ current' = <<>>
  BY DEF LoseBacklog
<1>3. PlacesOK'
  BY <1>1, <1>2 DEF OrderInv, PlacesOK
<1>4. Backlog' = <<>>
  BY <1>1, <1>2, ConcatEmptySeq DEF Backlog
<1>5. Suffix(<<>>, accepted)
  BY SuffixEmpty DEF OrderInv, PlacesOK
<1>6. Suffix(Backlog, accepted)'
  BY <1>4, <1>5 DEF Suffix
<1> QED BY <1>3, <1>6 DEF OrderInv

LEMMA StepWorker == ASSUME OrderInv, Worker PROVE OrderInv'
<1>1. CASE Receive
  BY <1>1, StepReceive
<1>2. ASSUME Post \/ Failed PROVE OrderInv'
  <2>1. /\ wpc \in {"post", "await"} /\ wpc' \in {"await", "fallback"}
        /\ UNCHANGED <<pc, calls, queue, current, accepted>>
    BY <1>2 DEF Post, Failed, caller
  <2>2. PlacesOK'
    BY <2>1 DEF OrderInv, PlacesOK
  <2> QED BY <2>1, <2>2, StepElsewhere
<1>3. CASE Answered
  BY <1>3, StepDone DEF Answered, Done, caller
<1>4. CASE Fallback
  <2>1. UNCHANGED <<pc, calls, queue, accepted>> /\ wpc = "fallback"
    BY <1>4 DEF Fallback, caller
  <2>2. CASE wpc' = "report" /\ UNCHANGED current
    <3>1. PlacesOK'
      BY <2>1, <2>2 DEF OrderInv, PlacesOK
    <3> QED BY <2>1, <2>2, <3>1, StepElsewhere
  <2>3. CASE wpc' = "recv" /\ current' = <<>>
    BY <2>1, <2>3, StepDone
  <2> QED BY <1>4, <2>2, <2>3 DEF Fallback, Done
<1>5. CASE Report
  <2>1. UNCHANGED <<pc, calls, accepted>> /\ wpc = "report"
    BY <1>5 DEF Report, caller
  <2>2. CASE stderrOk
    BY <1>5, <2>1, <2>2, StepDone DEF Report, Done
  <2>3. CASE ~stderrOk
    BY <1>5, <2>1, <2>3, StepLose DEF Report
  <2> QED BY <2>2, <2>3
<1> QED BY <1>1, <1>2, <1>3, <1>4, <1>5 DEF Worker

LEMMA StepEnvironment == ASSUME OrderInv, Environment PROVE OrderInv'
<1>1. ASSUME (\E e \in inflight : Index(e)) \/ BreakStdio PROVE OrderInv'
  <2>1. UNCHANGED <<pc, calls, queue, wpc, current, accepted>>
    BY <1>1 DEF Index, BreakStdio, caller, worker
  <2>2. PlacesOK'
    BY <2>1 DEF OrderInv, PlacesOK
  <2> QED BY <2>1, <2>2, StepElsewhere
<1>2. CASE Restart
  BY <1>2, StepLose DEF Restart
<1> QED BY <1>1, <1>2 DEF Environment

LEMMA NextOrder == OrderInv /\ [Next]_vars => OrderInv'
<1> SUFFICES ASSUME OrderInv, [Next]_vars PROVE OrderInv'
  OBVIOUS
<1>1. ASSUME NEW t \in Threads, Call(t) PROVE OrderInv'
  BY <1>1, StepCall
<1>2. ASSUME NEW t \in Threads, InCall(t) PROVE OrderInv'
  BY <1>2, StepSend, StepCaller DEF InCall
<1>3. CASE Worker
  BY <1>3, StepWorker
<1>4. CASE Environment
  BY <1>4, StepEnvironment
<1>5. CASE UNCHANGED vars
  <2>1. UNCHANGED <<pc, calls, queue, wpc, current, accepted>>
    BY <1>5 DEF vars, caller, worker
  <2>2. PlacesOK'
    BY <2>1 DEF OrderInv, PlacesOK
  <2> QED BY <2>1, <2>2, StepElsewhere
<1> QED BY <1>1, <1>2, <1>3, <1>4, <1>5 DEF Next

\* Entries are handled in the order the channel accepted them, whatever threads
\* call, however often the worker falls back, dies or is restarted.
THEOREM HandledInOrder == Spec => []QueueOrder
<1>1. OrderInv => QueueOrder
  <2> SUFFICES ASSUME OrderInv PROVE QueueOrder
    OBVIOUS
  <2>1. Len(Backlog) \in Nat /\ Len(accepted) \in Nat
    BY BacklogShape, LenProperties DEF OrderInv, PlacesOK
  <2> QED BY <2>1 DEF OrderInv, Suffix, QueueOrder
<1> QED BY <1>1, InitOrder, NextOrder, PTL DEF Spec

-----------------------------------------------------------------------------
(* Types *)

\* The variables PlacesOK does not speak of.
RestOK ==
    /\ url \in BOOLEAN /\ stdoutOk \in BOOLEAN /\ stderrOk \in BOOLEAN
    /\ got \in [Threads -> Nat] /\ dropped \in Nat
    /\ inflight \in SUBSET Entry /\ indexed \in SUBSET Entry
    /\ notices \in Seq(Nat) /\ refused \in SUBSET Entry
    /\ outcome \in [Entry -> {"none", "answered", "stored", "skipped", "reported", "lost"}]
    /\ restarts \in 0..MaxRestarts

RoomOK == Len(queue) <= Capacity

TypeInv == OrderInv /\ RestOK /\ RoomOK

LEMMA InitTypes == Init => TypeInv
<1> SUFFICES ASSUME Init PROVE TypeInv
  OBVIOUS
<1>1. Len(<<>>) = 0 /\ <<>> \in Seq(Nat)
  BY EmptySeq
<1>2. RestOK
  BY <1>1, LoggerAssumption DEF Init, RestOK
<1>3. RoomOK
  BY <1>1, LoggerAssumption DEF Init, RoomOK
<1> QED BY <1>2, <1>3, InitOrder DEF TypeInv

\* An entry in the worker's hands.
LEMMA CurrentEntry == ASSUME PlacesOK, wpc \notin {"recv", "dead"} PROVE current[1] \in Entry
<1>1. current \in Seq(Entry) /\ 1 \in 1..Len(current)
  BY DEF PlacesOK
<1> QED BY <1>1, ElementOfSeq

LEMMA SenderEntry ==
    ASSUME PlacesOK, NEW t \in Threads, pc[t] = "send" PROVE Mine(t) \in Entry
BY DEF PlacesOK, Mine, Entry

LEMMA LoseTypes == ASSUME TypeInv, LoseBacklog
    PROVE  outcome' \in [Entry -> {"none", "answered", "stored", "skipped", "reported", "lost"}]
BY DEF LoseBacklog, TypeInv, RestOK

LEMMA DoneTypes ==
    ASSUME TypeInv, wpc \notin {"recv", "dead"},
           NEW kind \in {"answered", "stored", "skipped", "reported"}, Done(kind)
    PROVE  outcome' \in [Entry -> {"none", "answered", "stored", "skipped", "reported", "lost"}]
BY DEF Done, TypeInv, RestOK

LEMMA NextRest == TypeInv /\ [Next]_vars => RestOK'
<1> SUFFICES ASSUME TypeInv, [Next]_vars PROVE RestOK'
  OBVIOUS
<1> USE LoggerAssumption
<1>1. ASSUME NEW t \in Threads, Call(t) \/ PrintEntry(t) \/ ReportClosed(t) PROVE RestOK'
  BY <1>1 DEF Call, PrintEntry, ReportClosed, stdio, server, TypeInv, RestOK
<1>2. ASSUME NEW t \in Threads, TrySend(t) PROVE RestOK'
  <2>1. Mine(t) \in Entry
    BY <1>2, SenderEntry DEF TrySend, TypeInv, OrderInv
  <2> QED BY <1>2, <2>1 DEF TrySend, stdio, server, TypeInv, RestOK
<1>3. ASSUME NEW t \in Threads, Count(t) PROVE RestOK'
  BY <1>3 DEF Count, stdio, server, TypeInv, RestOK
<1>4. ASSUME NEW t \in Threads, Notice(t) PROVE RestOK'
  <2>1. notices' \in Seq(Nat)
    <3>1. got[t] \in Nat /\ notices \in Seq(Nat)
      BY DEF TypeInv, RestOK
    <3> QED BY <1>4, <3>1, AppendProperties DEF Notice
  <2> QED BY <1>4, <2>1 DEF Notice, stdio, server, TypeInv, RestOK
<1>5. CASE Receive
  BY <1>5 DEF Receive, caller, stdio, server, TypeInv, RestOK
<1>6. CASE Post
  <2>1. current[1] \in Entry
    BY <1>6, CurrentEntry DEF Post, TypeInv, OrderInv
  <2> QED BY <1>6, <2>1 DEF Post, caller, stdio, TypeInv, RestOK
<1>7. CASE Answered
  <2>1. outcome' \in [Entry -> {"none", "answered", "stored", "skipped", "reported", "lost"}]
    BY <1>7, DoneTypes DEF Answered
  <2> QED BY <1>7, <2>1 DEF Answered, caller, stdio, server, TypeInv, RestOK
<1>8. CASE Failed
  BY <1>8 DEF Failed, caller, stdio, server, TypeInv, RestOK
<1>9. CASE Fallback
  <2>1. outcome' \in [Entry -> {"none", "answered", "stored", "skipped", "reported", "lost"}]
    BY <1>9, DoneTypes DEF Fallback, TypeInv, RestOK
  <2> QED BY <1>9, <2>1 DEF Fallback, caller, stdio, server, TypeInv, RestOK
<1>10. CASE Report
  <2>1. outcome' \in [Entry -> {"none", "answered", "stored", "skipped", "reported", "lost"}]
    BY <1>10, DoneTypes, LoseTypes DEF Report
  <2> QED BY <1>10, <2>1 DEF Report, caller, stdio, server, TypeInv, RestOK
<1>11. ASSUME NEW e \in inflight, Index(e) PROVE RestOK'
  BY <1>11 DEF Index, caller, stdio, TypeInv, RestOK
<1>12. CASE BreakStdio
  BY <1>12 DEF BreakStdio, caller, server, TypeInv, RestOK
<1>13. CASE Restart
  <2>1. outcome' \in [Entry -> {"none", "answered", "stored", "skipped", "reported", "lost"}]
    BY <1>13, LoseTypes DEF Restart
  <2>2. <<>> \in Seq(Nat)
    BY EmptySeq
  <2>3. restarts' \in 0..MaxRestarts
    BY <1>13 DEF Restart, TypeInv, RestOK
  <2> QED BY <1>13, <2>1, <2>2, <2>3 DEF Restart, server, TypeInv, RestOK
<1>14. CASE UNCHANGED vars
  BY <1>14 DEF vars, caller, stdio, server, TypeInv, RestOK
<1> QED BY <1>1, <1>2, <1>3, <1>4, <1>5, <1>6, <1>7, <1>8, <1>9, <1>10, <1>11, <1>12, <1>13,
           <1>14 DEF Next, InCall, Worker, Environment

LEMMA NextRoom == TypeInv /\ [Next]_vars => RoomOK'
<1> SUFFICES ASSUME TypeInv, [Next]_vars PROVE RoomOK'
  OBVIOUS
<1> USE LoggerAssumption
<1>1. queue \in Seq(Entry) /\ Len(queue) \in Nat /\ Len(queue) <= Capacity /\ Len(<<>>) = 0
  BY LenProperties, EmptySeq DEF TypeInv, OrderInv, PlacesOK, RoomOK
<1>2. ASSUME UNCHANGED queue PROVE RoomOK'
  BY <1>1, <1>2 DEF RoomOK
<1>3. ASSUME NEW t \in Threads, TrySend(t) PROVE RoomOK'
  <2>1. CASE Len(queue) < Capacity /\ Enqueue(t)
    <3>1. Mine(t) \in Entry
      BY <1>3, SenderEntry DEF TrySend, TypeInv, OrderInv
    <3>2. Len(queue') = Len(queue) + 1
      BY <1>1, <2>1, <3>1, AppendProperties DEF Enqueue
    <3> QED BY <1>1, <2>1, <3>2 DEF RoomOK
  <2> QED BY <1>2, <1>3, <2>1 DEF TrySend
<1>4. CASE Receive
  <2>1. Len(queue') = Len(queue) - 1
    BY <1>1, <1>4, HeadTailProperties DEF Receive
  <2> QED BY <1>1, <2>1 DEF RoomOK
<1>5. ASSUME LoseBacklog PROVE RoomOK'
  BY <1>1, <1>5 DEF LoseBacklog, RoomOK
<1>6. ASSUME Worker, ~Receive PROVE RoomOK'
  BY <1>2, <1>5, <1>6 DEF Worker, Post, Answered, Failed, Fallback, Report
<1>7. CASE Environment
  BY <1>2, <1>5, <1>7 DEF Environment, Index, BreakStdio, Restart
<1>8. ASSUME NEW t \in Threads, Call(t) \/ InCall(t), ~TrySend(t) PROVE RoomOK'
  BY <1>2, <1>8 DEF Call, InCall, PrintEntry, Count, Notice, ReportClosed
<1>9. CASE UNCHANGED vars
  BY <1>2, <1>9 DEF vars
<1> QED BY <1>3, <1>4, <1>6, <1>7, <1>8, <1>9 DEF Next, InCall

LEMMA NextTypes == TypeInv /\ [Next]_vars => TypeInv'
BY NextOrder, NextRest, NextRoom DEF TypeInv

LEMMA Types == Spec => []TypeInv
BY InitTypes, NextTypes, PTL DEF Spec

\* Every variable of the logger keeps its type and the channel never holds more
\* than its capacity, for any threads, capacity, calls and restarts.
THEOREM LoggerTypeCorrect == Spec => []TypeOK
<1>1. TypeInv => TypeOK
  BY DEF TypeInv, OrderInv, PlacesOK, RestOK, RoomOK, TypeOK
<1> QED BY <1>1, Types, PTL

\* An accepted entry ends without being delivered, stored or reported only because its
\* record is larger than logs.txt may be, because the process ended, or because the
\* worker panicked when the report of an entry it could not store failed.
THEOREM LossIsCaused == Spec => []LostOnlyWithCause
<1>1. Init => LostOnlyWithCause
  BY DEF Init, LostOnlyWithCause
<1>2. TypeInv /\ LostOnlyWithCause /\ [Next]_vars => LostOnlyWithCause'
  <2> SUFFICES ASSUME TypeInv, LostOnlyWithCause, [Next]_vars PROVE LostOnlyWithCause'
    OBVIOUS
  <2>0. restarts \in Nat /\ outcome \in [Entry -> {"none", "answered", "stored", "skipped", "reported", "lost"}]
    BY LoggerAssumption DEF TypeInv, RestOK
  <2>1. ASSUME UNCHANGED <<outcome, restarts, wpc, stderrOk>> PROVE LostOnlyWithCause'
    BY <2>1 DEF LostOnlyWithCause
  <2>2. ASSUME NEW t \in Threads, Call(t) \/ InCall(t) PROVE LostOnlyWithCause'
    BY <2>1, <2>2 DEF Call, InCall, PrintEntry, TrySend, Count, Notice, ReportClosed, worker, stdio
  <2>3. ASSUME Receive \/ Post \/ Failed PROVE LostOnlyWithCause'
    BY <2>3 DEF Receive, Post, Failed, stdio, LostOnlyWithCause
  <2>4. ASSUME NEW kind \in {"answered", "stored", "skipped", "reported"}, Done(kind),
               kind = "skipped" => current[1] \in Oversized,
               wpc # "dead", UNCHANGED restarts
        PROVE  LostOnlyWithCause'
    BY <2>0, <2>4 DEF Done, LostOnlyWithCause
  <2>5. CASE Answered
    BY <2>4, <2>5 DEF Answered
  <2>6. CASE Fallback
    BY <2>4, <2>6 DEF Fallback, stdio, LostOnlyWithCause
  <2>7. ASSUME LoseBacklog, restarts' > 0 \/ (wpc' = "dead" /\ ~stderrOk')
        PROVE  LostOnlyWithCause'
    <3>1. \A e \in Entry : outcome'[e] = "lost" \/ outcome'[e] = outcome[e]
      BY <2>7 DEF LoseBacklog
    <3>2. \A e \in Entry : outcome[e] = "skipped" => e \in Oversized
      BY DEF LostOnlyWithCause
    <3> QED BY <2>7, <3>1, <3>2 DEF LostOnlyWithCause
  <2>8. CASE Report \/ Restart
    <3>1. CASE Restart
      BY <2>0, <2>7, <3>1 DEF Restart
    <3>2. CASE Report /\ stderrOk
      BY <2>4, <3>2 DEF Report
    <3>3. CASE Report /\ ~stderrOk
      BY <2>7, <3>3 DEF Report, stdio
    <3> QED BY <2>8, <3>1, <3>2, <3>3
  <2>9. ASSUME NEW e \in inflight, Index(e) PROVE LostOnlyWithCause'
    BY <2>1, <2>9 DEF Index, worker, stdio
  <2>10. CASE BreakStdio
    BY <2>10 DEF BreakStdio, worker, LostOnlyWithCause
  <2>11. CASE UNCHANGED vars
    BY <2>1, <2>11 DEF vars, worker, stdio
  <2> QED BY <2>2, <2>3, <2>5, <2>6, <2>8, <2>9, <2>10, <2>11 DEF Next, Worker, Environment
<1> QED BY <1>1, <1>2, Types, PTL DEF Spec

-----------------------------------------------------------------------------
(* Conservation *)

Elements(s) == {s[i] : i \in 1..Len(s)}

Injective(s) == \A i, j \in 1..Len(s) : s[i] = s[j] => i = j

LEMMA ElementsAppend ==
    ASSUME NEW S, NEW s \in Seq(S), NEW e \in S
    PROVE  /\ Elements(Append(s, e)) = Elements(s) \cup {e}
           /\ Injective(s) /\ e \notin Elements(s) => Injective(Append(s, e))
<1> DEFINE a == Append(s, e)
<1>1. /\ Len(a) = Len(s) + 1 /\ a[Len(s) + 1] = e /\ Len(s) \in Nat
      /\ \A i \in 1..Len(s) : a[i] = s[i]
  BY AppendProperties, LenProperties
<1> HIDE DEF a
<1>2. \A i \in 1..Len(a) : i \in 1..Len(s) \/ i = Len(s) + 1
  BY <1>1
<1>3. Len(s) + 1 \in 1..Len(a) /\ \A i \in 1..Len(s) : i \in 1..Len(a)
  BY <1>1
<1>4. Elements(a) = Elements(s) \cup {e}
  BY <1>1, <1>2, <1>3 DEF Elements
<1>5. ASSUME Injective(s), e \notin Elements(s) PROVE Injective(a)
  BY <1>1, <1>2, <1>5 DEF Injective, Elements
<1> QED BY <1>4, <1>5 DEF a

LEMMA ElementsTail ==
    ASSUME NEW S, NEW s \in Seq(S), s # <<>>, Injective(s)
    PROVE  /\ Head(s) \in Elements(s)
           /\ Elements(Tail(s)) = Elements(s) \ {Head(s)}
<1> DEFINE r == Tail(s)
<1>1. /\ Len(r) = Len(s) - 1 /\ \A i \in 1..Len(r) : r[i] = s[i + 1]
      /\ Head(s) = s[1] /\ Len(s) \in Nat \ {0}
  BY HeadTailProperties, LenProperties, EmptySeq
<1> HIDE DEF r
<1>2. \A i \in 1..Len(r) : i + 1 \in 1..Len(s) /\ i + 1 # 1
  BY <1>1
<1>3. \A i \in 1..Len(s) : i = 1 \/ (i - 1 \in 1..Len(r) /\ (i - 1) + 1 = i)
  BY <1>1
<1>4. 1 \in 1..Len(s)
  BY <1>1
<1>5. ASSUME NEW e PROVE e \in Elements(r) <=> e \in Elements(s) \ {s[1]}
  <2>1. ASSUME e \in Elements(r) PROVE e \in Elements(s) \ {s[1]}
    BY <1>1, <1>2, <1>4, <2>1 DEF Elements, Injective
  <2>2. ASSUME e \in Elements(s), e # s[1] PROVE e \in Elements(r)
    <3>1. PICK i \in 1..Len(s) : s[i] = e
      BY <2>2 DEF Elements
    <3>2. i - 1 \in 1..Len(r) /\ (i - 1) + 1 = i
      BY <1>3, <2>2, <3>1
    <3>3. r[i - 1] = e
      BY <1>1, <3>1, <3>2
    <3> QED BY <3>2, <3>3 DEF Elements
  <2> QED BY <2>1, <2>2
<1> QED BY <1>1, <1>4, <1>5 DEF r, Elements

\* What is at the end of a sequence without repetitions has none either.
LEMMA SuffixElements ==
    ASSUME NEW S, NEW part \in Seq(S), NEW all \in Seq(S), Suffix(part, all)
    PROVE  /\ Elements(part) \subseteq Elements(all)
           /\ Injective(all) => Injective(part)
<1>1. Len(part) \in Nat /\ Len(all) \in Nat /\ Len(part) <= Len(all)
  BY LenProperties DEF Suffix
<1> DEFINE k == Len(all) - Len(part)
<1>2. k \in Nat /\ \A i \in 1..Len(part) : k + i \in 1..Len(all) /\ part[i] = all[k + i]
  BY <1>1 DEF Suffix
<1> HIDE DEF k
<1>3. Elements(part) \subseteq Elements(all)
  BY <1>2 DEF Elements
<1>4. ASSUME Injective(all), NEW i \in 1..Len(part), NEW j \in 1..Len(part), part[i] = part[j]
      PROVE  i = j
  <2>1. k + i = k + j
    BY <1>2, <1>4 DEF Injective
  <2> QED BY <1>2, <2>1
<1> QED BY <1>3, <1>4 DEF Injective

Kinds == {"answered", "stored", "skipped", "reported"}

\* What a step does to the entries that were accepted: nothing, or the channel takes
\* one more, or the worker is done with the oldest, or all that wait are lost.
Keeps == UNCHANGED <<Backlog, accepted, outcome>>

Accepts(t) ==
    /\ pc[t] = "send" /\ pc' = [pc EXCEPT ![t] = "idle"]
    /\ Mine(t) \in Entry /\ UNCHANGED calls
    /\ Backlog' = Append(Backlog, Mine(t)) /\ accepted' = Append(accepted, Mine(t))
    /\ UNCHANGED outcome

Finishes(kind) ==
    /\ Backlog # <<>> /\ Backlog' = Tail(Backlog) /\ UNCHANGED accepted
    /\ outcome' = [outcome EXCEPT ![Head(Backlog)] = kind]
    /\ kind = "answered" => Head(Backlog) \in indexed

Loses ==
    /\ Backlog' = <<>> /\ UNCHANGED accepted
    /\ outcome' = [e \in Entry |-> IF e \in Elements(Backlog) THEN "lost" ELSE outcome[e]]

LEMMA LoseLoses == ASSUME LoseBacklog, UNCHANGED accepted PROVE Loses
<1>1. Backlog' = <<>>
  BY ConcatEmptySeq, EmptySeq DEF LoseBacklog, Backlog
<1>2. \A e : (\E i \in 1..Len(Backlog) : Backlog[i] = e) <=> e \in Elements(Backlog)
  BY DEF Elements
<1> QED BY <1>1, <1>2 DEF LoseBacklog, Loses

LEMMA DoneFinishes ==
    ASSUME PlacesOK, NEW kind \in Kinds, wpc \notin {"recv", "dead"}, Done(kind),
           kind = "answered" => current[1] \in indexed, UNCHANGED <<queue, accepted>>
    PROVE  Finishes(kind)
BY BacklogDone DEF Done, Finishes

LEMMA StepMoves ==
    ASSUME TypeInv, [Next]_vars
    PROVE  \/ Keeps \/ Loses
           \/ \E t \in Threads : Accepts(t)
           \/ \E kind \in Kinds : Finishes(kind)
<1> USE DEF TypeInv, OrderInv
<1>1. ASSUME UNCHANGED <<queue, current, accepted, outcome>> PROVE Keeps
  BY <1>1 DEF Keeps, Backlog
<1>2. ASSUME NEW t \in Threads, TrySend(t) PROVE Keeps \/ Accepts(t)
  <2>1. CASE Enqueue(t) /\ Goto(t, "idle")
    BY <1>2, <2>1, SenderEntry, BacklogEnqueue DEF TrySend, Enqueue, Goto, worker, Accepts
  <2>2. CASE UNCHANGED <<queue, accepted>>
    BY <1>1, <1>2, <2>2 DEF TrySend, worker
  <2> QED BY <1>2, <2>1, <2>2 DEF TrySend
<1>3. ASSUME NEW t \in Threads, Call(t) \/ PrintEntry(t) \/ Count(t) \/ Notice(t) \/ ReportClosed(t)
      PROVE  Keeps
  BY <1>1, <1>3 DEF Call, PrintEntry, Count, Notice, ReportClosed, worker
<1>4. CASE Receive
  BY <1>4, BacklogReceive DEF Receive, Keeps
<1>5. CASE Post \/ Failed
  BY <1>1, <1>5 DEF Post, Failed
<1>6. CASE Answered
  BY <1>6, DoneFinishes DEF Answered, Kinds
<1>7. CASE Fallback
  BY <1>1, <1>7, DoneFinishes DEF Fallback, Kinds
<1>8. CASE Report
  BY <1>8, DoneFinishes, LoseLoses DEF Report, Kinds
<1>9. CASE Environment
  BY <1>1, <1>9, LoseLoses DEF Environment, Index, BreakStdio, Restart, worker
<1>10. CASE UNCHANGED vars
  BY <1>1, <1>10 DEF vars, worker
<1> QED BY <1>2, <1>3, <1>4, <1>5, <1>6, <1>7, <1>8, <1>9, <1>10 DEF Next, InCall, Worker

\* The entry e is of a call that got as far as try_send.
Past(e) ==
    /\ e[2] <= calls[e[1]]
    /\ pc[e[1]] \in {"print", "send"} => e[2] < calls[e[1]]

\* No entry is offered twice.
FreshInv ==
    /\ \A e \in Elements(accepted) \cup refused : Past(e)
    /\ Injective(accepted)

\* An entry has no outcome before it is accepted and while it waits, and one after.
OutcomeInv ==
    /\ \A e \in Entry :
          outcome[e] = "none" <=> e \notin Elements(accepted) \/ e \in Elements(Backlog)
    /\ \A e \in Entry : outcome[e] = "answered" => e \in indexed

KeptInv == TypeInv /\ FreshInv /\ OutcomeInv

LEMMA StepPast ==
    ASSUME TypeInv, [Next]_vars, NEW e \in Entry, Past(e)
    PROVE  Past(e)'
<1>1. e[1] \in Threads /\ e[2] \in 1..MaxCalls /\ MaxCalls \in Nat
  BY LoggerAssumption DEF Entry
<1>2. /\ pc \in [Threads -> {"idle", "print", "send", "count", "notice", "closed"}]
      /\ calls \in [Threads -> 0..MaxCalls]
  BY DEF TypeInv, OrderInv, PlacesOK
<1>3. ASSUME UNCHANGED <<pc, calls>> PROVE Past(e)'
  BY <1>3 DEF Past
<1>4. ASSUME NEW t \in Threads, Call(t) PROVE Past(e)'
  BY <1>1, <1>2, <1>4 DEF Call, Goto, Past
<1>5. ASSUME NEW t \in Threads, InCall(t) PROVE Past(e)'
  <2>1. /\ UNCHANGED calls
        /\ \/ pc[t] = "print" /\ pc' = [pc EXCEPT ![t] = "send"]
           \/ \E step \in {"idle", "count", "notice", "closed"} : pc' = [pc EXCEPT ![t] = step]
    BY <1>5 DEF InCall, PrintEntry, TrySend, Count, Notice, ReportClosed, Goto
  <2> QED BY <1>1, <1>2, <2>1 DEF Past
<1>6. CASE Worker
  BY <1>3, <1>6 DEF Worker, Receive, Post, Answered, Failed, Fallback, Report, caller
<1>7. CASE Environment
  <2>1. CASE Restart
    BY <1>1, <1>2, <2>1 DEF Restart, Past
  <2> QED BY <1>3, <1>7, <2>1 DEF Environment, Index, BreakStdio, caller
<1>8. CASE UNCHANGED vars
  BY <1>3, <1>8 DEF vars, caller
<1> QED BY <1>4, <1>5, <1>6, <1>7, <1>8 DEF Next

\* The entry a thread is about to offer is not among those of the past.
LEMMA SenderFresh ==
    ASSUME TypeInv, FreshInv, NEW t \in Threads, pc[t] = "send"
    PROVE  Mine(t) \notin Elements(accepted) \cup refused
<1>1. calls[t] \in 0..MaxCalls /\ MaxCalls \in Nat
  BY LoggerAssumption DEF TypeInv, OrderInv, PlacesOK
<1>2. ~Past(Mine(t))
  BY <1>1 DEF Past, Mine
<1> QED BY <1>2 DEF FreshInv

LEMMA ElementsInSet == ASSUME NEW S, NEW s \in Seq(S) PROVE Elements(s) \subseteq S
BY ElementOfSeq DEF Elements

LEMMA NextFresh == KeptInv /\ [Next]_vars => FreshInv'
<1> SUFFICES ASSUME KeptInv, [Next]_vars PROVE FreshInv'
  OBVIOUS
<1> USE DEF KeptInv
<1>1. accepted \in Seq(Entry) /\ Elements(accepted) \subseteq Entry /\ refused \subseteq Entry
  BY ElementsInSet DEF TypeInv, OrderInv, PlacesOK, RestOK
<1>2. \A e \in Elements(accepted) \cup refused : Past(e)'
  BY <1>1, StepPast DEF FreshInv
<1>3. \/ UNCHANGED accepted
      \/ \E t \in Threads : Accepts(t)
  BY StepMoves DEF Keeps, Loses, Finishes
<1>4. ASSUME NEW t \in Threads, NEW step \in {"idle", "count"},
             pc' = [pc EXCEPT ![t] = step], UNCHANGED calls
      PROVE  Past(Mine(t))' /\ Mine(t)' = Mine(t)
  <2>1. pc'[t] \notin {"print", "send"} /\ calls[t] \in Nat
    BY <1>4, LoggerAssumption DEF TypeInv, OrderInv, PlacesOK
  <2> QED BY <1>4, <2>1 DEF Past, Mine
<1>5. \/ refused' \subseteq refused
      \/ \E t \in Threads : /\ refused' = refused \cup {Mine(t)} /\ UNCHANGED calls
                             /\ pc' = [pc EXCEPT ![t] = "count"]
  BY DEF Goto, Next, vars, Call, InCall, PrintEntry, TrySend, Count, Notice, ReportClosed,
         Worker, Receive, Post, Answered, Failed, Fallback, Report,
         Environment, Index, BreakStdio, Restart
<1>6. \A e \in refused' : Past(e)'
  <2>1. CASE refused' \subseteq refused
    BY <1>2, <2>1
  <2>2. ASSUME NEW t \in Threads, refused' = refused \cup {Mine(t)}, UNCHANGED calls,
               pc' = [pc EXCEPT ![t] = "count"]
        PROVE  \A e \in refused' : Past(e)'
    <3>1. Past(Mine(t))' /\ Mine(t)' = Mine(t)
      BY <1>4, <2>2
    <3> QED BY <1>2, <2>2, <3>1 DEF Past
  <2> QED BY <1>5, <2>1, <2>2
<1>7. CASE UNCHANGED accepted
  <2>1. Elements(accepted)' = Elements(accepted) /\ Injective(accepted)'
    BY <1>7 DEF Elements, Injective, FreshInv
  <2> QED BY <1>2, <1>6, <2>1 DEF FreshInv
<1>8. ASSUME NEW t \in Threads, Accepts(t) PROVE FreshInv'
  <2>1. Mine(t) \notin Elements(accepted)
    BY <1>8, SenderFresh DEF Accepts
  <2>2. Elements(accepted)' = Elements(accepted) \cup {Mine(t)} /\ Injective(accepted)'
    <3>1. accepted' = Append(accepted, Mine(t)) /\ Mine(t) \in Entry
      BY <1>8 DEF Accepts
    <3>2. /\ Elements(Append(accepted, Mine(t))) = Elements(accepted) \cup {Mine(t)}
          /\ Injective(Append(accepted, Mine(t)))
      BY <1>1, <2>1, <3>1, ElementsAppend DEF FreshInv
    <3> QED BY <3>1, <3>2 DEF Elements, Injective
  <2>3. Past(Mine(t))' /\ Mine(t)' = Mine(t)
    BY <1>4, <1>8 DEF Accepts
  <2> QED BY <1>2, <1>6, <2>2, <2>3 DEF FreshInv, Past
<1> QED BY <1>3, <1>7, <1>8

LEMMA IndexedStays == ASSUME [Next]_vars PROVE indexed \subseteq indexed'
<1>1. ASSUME UNCHANGED indexed PROVE indexed \subseteq indexed'
  BY <1>1
<1>2. ASSUME NEW t \in Threads, Call(t) \/ InCall(t) PROVE UNCHANGED indexed
  BY <1>2 DEF Call, InCall, PrintEntry, TrySend, Count, Notice, ReportClosed, server
<1>3. CASE Worker
  BY <1>3 DEF Worker, Receive, Post, Answered, Failed, Fallback, Report, server
<1>4. CASE Environment
  BY <1>4 DEF Environment, Index, BreakStdio, Restart, server
<1>5. CASE UNCHANGED vars
  BY <1>5 DEF vars, server
<1> QED BY <1>1, <1>2, <1>3, <1>4, <1>5 DEF Next

LEMMA NextOutcome == KeptInv /\ [Next]_vars => OutcomeInv'
<1> SUFFICES ASSUME KeptInv, [Next]_vars PROVE OutcomeInv'
  OBVIOUS
<1> USE DEF KeptInv
<1>1. /\ Backlog \in Seq(Entry) /\ accepted \in Seq(Entry)
      /\ outcome \in [Entry -> {"none", "answered", "stored", "skipped", "reported", "lost"}]
  BY BacklogShape DEF TypeInv, OrderInv, PlacesOK, RestOK
<1>2. Elements(Backlog) \subseteq Elements(accepted) /\ Injective(Backlog)
  BY <1>1, SuffixElements DEF FreshInv, TypeInv, OrderInv
<1>3. indexed \subseteq indexed'
  BY IndexedStays
<1>4. CASE Keeps
  BY <1>3, <1>4 DEF Keeps, OutcomeInv, Elements
<1>5. CASE Loses
  <2>1. Elements(Backlog)' = {}
    BY <1>5, EmptySeq DEF Loses, Elements
  <2>2. Elements(accepted)' = Elements(accepted)
    BY <1>5 DEF Loses, Elements
  <2> QED BY <1>1, <1>2, <1>3, <1>5, <2>1, <2>2 DEF Loses, OutcomeInv
<1>6. ASSUME NEW t \in Threads, Accepts(t) PROVE OutcomeInv'
  <2>1. Mine(t) \in Entry /\ Mine(t) \notin Elements(accepted)
    BY <1>6, SenderFresh DEF Accepts
  <2> DEFINE e == Mine(t)
  <2>2. Elements(Append(Backlog, e)) = Elements(Backlog) \cup {e}
    BY <1>1, <2>1, ElementsAppend
  <2>3. Elements(Append(accepted, e)) = Elements(accepted) \cup {e}
    BY <1>1, <2>1, ElementsAppend
  <2>4. /\ Elements(Backlog)' = Elements(Backlog) \cup {e}
        /\ Elements(accepted)' = Elements(accepted) \cup {e}
    BY <1>6, <2>2, <2>3 DEF Accepts, Elements
  <2> HIDE DEF e
  <2> QED BY <1>3, <1>6, <2>1, <2>4 DEF Accepts, OutcomeInv, e
<1>7. ASSUME NEW kind \in Kinds, Finishes(kind) PROVE OutcomeInv'
  <2> DEFINE e == Head(Backlog)
  <2>1. e \in Elements(Backlog) /\ Elements(Tail(Backlog)) = Elements(Backlog) \ {e}
    BY <1>1, <1>2, <1>7, ElementsTail DEF Finishes
  <2>2. /\ Elements(Backlog)' = Elements(Backlog) \ {e}
        /\ Elements(accepted)' = Elements(accepted)
    BY <1>7, <2>1 DEF Finishes, Elements
  <2>3. outcome' = [outcome EXCEPT ![e] = kind] /\ (kind = "answered" => e \in indexed)
    BY <1>7 DEF Finishes
  <2> HIDE DEF e
  <2> QED BY <1>1, <1>2, <1>3, <2>1, <2>2, <2>3 DEF OutcomeInv, Kinds
<1> QED BY <1>4, <1>5, <1>6, <1>7, StepMoves

LEMMA InitKept == Init => KeptInv
<1> SUFFICES ASSUME Init PROVE FreshInv /\ OutcomeInv
  BY InitTypes DEF KeptInv
<1>1. Elements(accepted) = {} /\ Injective(accepted) /\ refused = {}
  BY EmptySeq DEF Init, Elements, Injective
<1> QED BY <1>1 DEF Init, FreshInv, OutcomeInv

LEMMA Kept == Spec => []KeptInv
<1>1. KeptInv /\ [Next]_vars => KeptInv'
  BY NextTypes, NextFresh, NextOutcome DEF KeptInv
<1> QED BY <1>1, InitKept, PTL DEF Spec

\* No accepted entry vanishes and none is handled twice, whatever threads, worker,
\* server, broken streams and restarts do, for every capacity.
THEOREM Conserved == Spec => []NothingVanishes
<1>1. KeptInv => NothingVanishes
  <2> SUFFICES ASSUME KeptInv PROVE NothingVanishes
    OBVIOUS
  <2>1. ASSUME NEW i \in 1..Len(accepted)
        PROVE  outcome[accepted[i]] = "none" <=> \E j \in 1..Len(Backlog) : Backlog[j] = accepted[i]
    <3>1. accepted[i] \in Entry /\ accepted[i] \in Elements(accepted)
      BY ElementOfSeq DEF KeptInv, TypeInv, OrderInv, PlacesOK, Elements
    <3>2. outcome[accepted[i]] = "none" <=> accepted[i] \in Elements(Backlog)
      BY <3>1 DEF KeptInv, OutcomeInv
    <3> QED BY <3>2 DEF Elements
  <2> QED BY <2>1 DEF KeptInv, OutcomeInv, NothingVanishes
<1> QED BY <1>1, Kept, PTL

-----------------------------------------------------------------------------
(* Refused entries *)

Counting == {t \in Threads : pc[t] = "count"}

LEMMA CountingFinite == IsFiniteSet(Counting)
BY LoggerAssumption, FS_Subset DEF Counting

LEMMA RefusedFinite == ASSUME TypeInv PROVE IsFiniteSet(refused)
<1>1. IsFiniteSet(Threads) /\ IsFiniteSet(1..MaxCalls)
  BY LoggerAssumption, FS_Interval
<1>2. IsFiniteSet(Entry)
  BY <1>1, FS_Product DEF Entry
<1> QED BY <1>2, FS_Subset DEF TypeInv, RestOK

\* What a step does to the count: a caller finds the channel full, or counts it, or
\* the process starts again, or nothing.
LEMMA StepCounts ==
    ASSUME TypeInv, [Next]_vars
    PROVE  \/ UNCHANGED <<dropped, refused, Counting>>
           \/ dropped' = 0 /\ refused' = {} /\ Counting' = {}
           \/ \E t \in Threads :
                 /\ pc[t] = "send" /\ Counting' = Counting \cup {t}
                 /\ refused' = refused \cup {Mine(t)} /\ UNCHANGED dropped
           \/ \E t \in Threads :
                 /\ pc[t] = "count" /\ Counting' = Counting \ {t}
                 /\ dropped' = dropped + 1 /\ UNCHANGED refused
<1>1. pc \in [Threads -> {"idle", "print", "send", "count", "notice", "closed"}]
  BY DEF TypeInv, OrderInv, PlacesOK
<1>2. ASSUME NEW t \in Threads, NEW step, pc[t] # "count", step # "count",
             pc' = [pc EXCEPT ![t] = step]
      PROVE  UNCHANGED Counting
  BY <1>1, <1>2 DEF Counting
<1>3. ASSUME NEW t \in Threads,
             Call(t) \/ PrintEntry(t) \/ Notice(t) \/ ReportClosed(t)
      PROVE  UNCHANGED <<dropped, refused, Counting>>
  <2>1. \E step \in {"print", "send", "idle"} : pc' = [pc EXCEPT ![t] = step] /\ pc[t] # "count"
    BY <1>3 DEF Call, PrintEntry, Notice, ReportClosed, Goto
  <2>2. UNCHANGED Counting
    BY <1>2, <2>1
  <2> QED BY <1>3, <2>2 DEF Call, PrintEntry, Notice, ReportClosed
<1>4. ASSUME NEW t \in Threads, TrySend(t)
      PROVE  \/ UNCHANGED <<dropped, refused, Counting>>
             \/ /\ pc[t] = "send" /\ Counting' = Counting \cup {t}
                /\ refused' = refused \cup {Mine(t)} /\ UNCHANGED dropped
  <2>1. CASE Goto(t, "count") /\ refused' = refused \cup {Mine(t)}
    <3>1. Counting' = Counting \cup {t}
      BY <1>1, <2>1 DEF Goto, Counting
    <3> QED BY <1>4, <2>1, <3>1 DEF TrySend
  <2>2. CASE UNCHANGED refused /\ \E step \in {"idle", "closed"} : Goto(t, step)
    <3>1. UNCHANGED Counting
      BY <1>2, <1>4, <2>2 DEF TrySend, Goto
    <3> QED BY <1>4, <2>2, <3>1 DEF TrySend
  <2> QED BY <1>4, <2>1, <2>2 DEF TrySend
<1>5. ASSUME NEW t \in Threads, Count(t)
      PROVE  /\ pc[t] = "count" /\ Counting' = Counting \ {t}
             /\ dropped' = dropped + 1 /\ UNCHANGED refused
  <2>1. \E step \in {"idle", "notice"} : pc' = [pc EXCEPT ![t] = step]
    BY <1>5 DEF Count, Goto
  <2>2. Counting' = Counting \ {t}
    BY <1>1, <2>1 DEF Counting
  <2> QED BY <1>5, <2>2 DEF Count
<1>6. CASE Worker
  BY <1>6 DEF Worker, Receive, Post, Answered, Failed, Fallback, Report, caller, Counting
<1>7. CASE Restart
  BY <1>7 DEF Restart, Counting
<1>8. ASSUME (\E e \in inflight : Index(e)) \/ BreakStdio \/ UNCHANGED vars
      PROVE  UNCHANGED <<dropped, refused, Counting>>
  BY <1>8 DEF Index, BreakStdio, vars, caller, Counting
<1> QED BY <1>3, <1>4, <1>5, <1>6, <1>7, <1>8 DEF Next, InCall, Environment

\* dropped_count never loses a drop, however threads come between try_send and
\* fetch_add, for any number of threads and calls.
THEOREM DropsCountedExactly == Spec => []DropsCounted
<1> DEFINE Counted == dropped + Cardinality(Counting) = Cardinality(refused)
<1>1. Init => Counted
  <2> SUFFICES ASSUME Init PROVE Counted
    OBVIOUS
  <2>1. Counting = {} /\ refused = {} /\ dropped = 0
    BY DEF Init, Counting
  <2> QED BY <2>1, FS_EmptySet
<1>2. KeptInv /\ Counted /\ [Next]_vars => Counted'
  <2> SUFFICES ASSUME KeptInv, Counted, [Next]_vars PROVE Counted'
    OBVIOUS
  <2>1. /\ IsFiniteSet(Counting) /\ IsFiniteSet(refused) /\ dropped \in Nat
        /\ Cardinality(Counting) \in Nat /\ Cardinality(refused) \in Nat
    BY CountingFinite, RefusedFinite, FS_CardinalityType DEF KeptInv, TypeInv, RestOK
  <2>2. CASE UNCHANGED <<dropped, refused, Counting>>
    BY <2>2
  <2>3. CASE dropped' = 0 /\ refused' = {} /\ Counting' = {}
    BY <2>3, FS_EmptySet
  <2>4. ASSUME NEW t \in Threads, pc[t] = "send", Counting' = Counting \cup {t},
               refused' = refused \cup {Mine(t)}, UNCHANGED dropped
        PROVE  Counted'
    <3>1. t \notin Counting /\ Mine(t) \notin refused
      BY <2>4, SenderFresh DEF Counting, KeptInv
    <3>2. /\ Cardinality(Counting') = Cardinality(Counting) + 1
          /\ Cardinality(refused') = Cardinality(refused) + 1
      BY <2>1, <2>4, <3>1, FS_AddElement
    <3> QED BY <2>1, <2>4, <3>2
  <2>5. ASSUME NEW t \in Threads, pc[t] = "count", Counting' = Counting \ {t},
               dropped' = dropped + 1, UNCHANGED refused
        PROVE  Counted'
    <3>1. t \in Counting
      BY <2>5 DEF Counting
    <3>2. Cardinality(Counting') = Cardinality(Counting) - 1
      BY <2>1, <2>5, <3>1, FS_RemoveElement
    <3> QED BY <2>1, <2>5, <3>2
  <2> HIDE DEF Counted
  <2> QED BY <2>2, <2>3, <2>4, <2>5, StepCounts DEF KeptInv
<1>3. Counted => DropsCounted
  BY DEF Counting, DropsCounted
<1> HIDE DEF Counted
<1> QED BY <1>1, <1>2, <1>3, Kept, PTL DEF Spec

-----------------------------------------------------------------------------
(* Notices *)

Announcing == {t \in Threads : pc[t] = "notice"}

\* Numbers announced or about to be were given out by fetch_add, each once.
NumbersInv ==
    /\ Elements(notices) \subseteq 1..dropped
    /\ \A t \in Announcing : got[t] \in 1..dropped /\ got[t] \notin Elements(notices)
    /\ \A t, u \in Announcing : got[t] = got[u] => t = u
    /\ IsFiniteSet(Elements(notices)) /\ Cardinality(Elements(notices)) = Len(notices)

Pending == {got[t] : t \in Announcing}

DueInv == stderrOk => Elements(notices) \cup Pending = {n \in 1..dropped : Due(n)}

NoticeInv == NumbersInv /\ DueInv

\* A step that gives out no number and announces none.
LEMMA NoticesElsewhere ==
    ASSUME NoticeInv, UNCHANGED <<dropped, notices, got>>, Announcing' = Announcing,
           stderrOk' => stderrOk
    PROVE  NoticeInv'
BY ZenonT(60) DEF NoticeInv, NumbersInv, DueInv, Pending, Elements

LEMMA NoticesCount ==
    ASSUME TypeInv, NoticeInv, NEW t \in Threads, Count(t)
    PROVE  NoticeInv'
<1> DEFINE n == dropped + 1
<1>1. /\ pc \in [Threads -> {"idle", "print", "send", "count", "notice", "closed"}]
      /\ got \in [Threads -> Nat] /\ dropped \in Nat
  BY DEF TypeInv, OrderInv, PlacesOK, RestOK
<1>2. /\ pc[t] = "count" /\ dropped' = n /\ got' = [got EXCEPT ![t] = n]
      /\ pc' = [pc EXCEPT ![t] = IF Due(n) THEN "notice" ELSE "idle"]
      /\ UNCHANGED <<notices, stderrOk>>
  BY DEF Count, Goto, stdio
<1>3. 1..dropped' = (1..dropped) \cup {n} /\ n \notin 1..dropped
  BY <1>1, <1>2
<1>4. t \notin Announcing /\ Announcing' = IF Due(n) THEN Announcing \cup {t} ELSE Announcing
  BY <1>1, <1>2 DEF Announcing
<1>5. got'[t] = n /\ \A u \in Announcing : u \in Threads /\ u # t /\ got'[u] = got[u]
  BY <1>1, <1>2, <1>4 DEF Announcing
<1> HIDE DEF n
<1>6. Elements(notices)' = Elements(notices)
  BY <1>2 DEF Elements
<1>7. NumbersInv'
  BY <1>2, <1>3, <1>4, <1>5, <1>6 DEF NoticeInv, NumbersInv
<1>8. Pending' = IF Due(n) THEN Pending \cup {n} ELSE Pending
  BY <1>4, <1>5 DEF Pending
<1>9. DueInv'
  BY <1>2, <1>3, <1>6, <1>8 DEF NoticeInv, DueInv
<1> QED BY <1>7, <1>9 DEF NoticeInv

LEMMA NoticesNotice ==
    ASSUME TypeInv, NoticeInv, NEW t \in Threads, Notice(t)
    PROVE  NoticeInv'
<1>1. /\ pc \in [Threads -> {"idle", "print", "send", "count", "notice", "closed"}]
      /\ got \in [Threads -> Nat] /\ dropped \in Nat /\ notices \in Seq(Nat)
  BY DEF TypeInv, OrderInv, PlacesOK, RestOK
<1>2. /\ pc[t] = "notice" /\ pc' = [pc EXCEPT ![t] = "idle"]
      /\ notices' = IF stderrOk THEN Append(notices, got[t]) ELSE notices
      /\ UNCHANGED <<got, dropped, stderrOk>>
  BY DEF Notice, Goto, stdio
<1>3. t \in Announcing /\ Announcing' = Announcing \ {t}
  BY <1>1, <1>2 DEF Announcing
<1>4. got[t] \in Nat /\ got[t] \notin Elements(notices) /\ got[t] \in 1..dropped
  BY <1>3 DEF NoticeInv, NumbersInv
<1>5. CASE ~stderrOk
  <2>1. Elements(notices)' = Elements(notices) /\ Len(notices)' = Len(notices)
    BY <1>2, <1>5 DEF Elements
  <2> QED BY <1>2, <1>3, <1>5, <2>1 DEF NoticeInv, NumbersInv, DueInv
<1>6. CASE stderrOk
  <2>1. /\ Elements(notices)' = Elements(notices) \cup {got[t]}
        /\ Len(notices)' = Len(notices) + 1
    <3>1. Elements(Append(notices, got[t])) = Elements(notices) \cup {got[t]}
      BY <1>1, <1>4, ElementsAppend
    <3>2. Len(Append(notices, got[t])) = Len(notices) + 1
      BY <1>1, <1>4, AppendProperties
    <3> QED BY <1>2, <1>6, <3>1, <3>2 DEF Elements
  <2>2. /\ IsFiniteSet(Elements(notices)')
        /\ Cardinality(Elements(notices)') = Len(notices)'
    BY <1>4, <2>1, FS_AddElement, ZenonT(60) DEF NoticeInv, NumbersInv
  <2>3. NumbersInv'
    BY <1>2, <1>3, <1>4, <2>1, <2>2 DEF NoticeInv, NumbersInv
  <2>4. Pending' = Pending \ {got[t]} /\ got[t] \in Pending
    BY <1>2, <1>3 DEF Pending, NoticeInv, NumbersInv
  <2>5. DueInv'
    BY <1>2, <2>1, <2>4 DEF NoticeInv, DueInv
  <2> QED BY <2>3, <2>5 DEF NoticeInv
<1> QED BY <1>5, <1>6

LEMMA NoticesRestart == ASSUME Restart PROVE NoticeInv'
<1>1. notices' = <<>> /\ dropped' = 0 /\ Announcing' = {}
  BY DEF Restart, Announcing
<1>2. Elements(notices)' = {} /\ Len(notices)' = 0
  BY <1>1, EmptySeq DEF Elements
<1>3. NumbersInv'
  BY <1>1, <1>2, FS_EmptySet DEF NumbersInv
<1>4. Pending' = {} /\ {n \in 1..dropped' : Due(n)} = {}
  BY <1>1 DEF Pending
<1>5. DueInv'
  BY <1>2, <1>4 DEF DueInv
<1> QED BY <1>3, <1>5 DEF NoticeInv

LEMMA NextNotice == TypeInv /\ NoticeInv /\ [Next]_vars => NoticeInv'
<1> SUFFICES ASSUME TypeInv, NoticeInv, [Next]_vars PROVE NoticeInv'
  OBVIOUS
<1>1. pc \in [Threads -> {"idle", "print", "send", "count", "notice", "closed"}]
  BY DEF TypeInv, OrderInv, PlacesOK
<1>2. ASSUME NEW t \in Threads,
             Call(t) \/ PrintEntry(t) \/ TrySend(t) \/ ReportClosed(t)
      PROVE  NoticeInv'
  <2>1. \E step \in {"print", "send", "idle", "count", "closed"} :
           pc' = [pc EXCEPT ![t] = step] /\ pc[t] # "notice"
    BY <1>2 DEF Call, PrintEntry, TrySend, ReportClosed, Goto
  <2>2. Announcing' = Announcing
    BY <1>1, <2>1 DEF Announcing
  <2> QED BY <1>2, <2>2, NoticesElsewhere DEF Call, PrintEntry, TrySend, ReportClosed, stdio
<1>3. ASSUME NEW t \in Threads, Count(t) \/ Notice(t) PROVE NoticeInv'
  BY <1>3, NoticesCount, NoticesNotice
<1>4. ASSUME UNCHANGED pc PROVE Announcing' = Announcing
  BY <1>4 DEF Announcing
<1>5. CASE Worker
  BY <1>4, <1>5, NoticesElsewhere
  DEF Worker, Receive, Post, Answered, Failed, Fallback, Report, caller, stdio
<1>6. CASE Environment
  BY <1>4, <1>6, NoticesElsewhere, NoticesRestart DEF Environment, Index, BreakStdio, caller, stdio
<1>7. CASE UNCHANGED vars
  BY <1>4, <1>7, NoticesElsewhere DEF vars, caller, stdio
<1> QED BY <1>2, <1>3, <1>5, <1>6, <1>7 DEF Next, InCall

\* The first drop and every NoticeEvery-th are announced once each and nothing else
\* is, however threads come between fetch_add and eprintln!, for any number of them.
THEOREM NoticesAreExact == Spec => []NoticesExact
<1>1. Init => NoticeInv
  <2> SUFFICES ASSUME Init PROVE NoticeInv
    OBVIOUS
  <2>1. Elements(notices) = {} /\ Len(notices) = 0 /\ Announcing = {} /\ dropped = 0
    BY EmptySeq DEF Init, Elements, Announcing
  <2>2. Pending = {} /\ {n \in 1..dropped : Due(n)} = {}
    BY <2>1 DEF Pending
  <2> QED BY <2>1, <2>2, FS_EmptySet DEF NoticeInv, NumbersInv, DueInv
<1>2. NoticeInv => NoticesExact
  BY ZenonT(60) DEF NoticeInv, NumbersInv, DueInv, NoticesExact, Elements, Pending, Announcing
<1> QED BY <1>1, <1>2, NextNotice, Types, PTL DEF Spec
=============================================================================
