------------------------- MODULE LoggerQueueProofs -------------------------
(***************************************************************************)
(* The logger implements LossyQueue, for every set of threads, capacity and *)
(* number of calls and restarts.  What callers, channel, worker, server and *)
(* file do together amounts to accepting, refusing and settling entries of  *)
(* one queue.                                                               *)
(***************************************************************************)
EXTENDS LoggerProofs

Settled == {e \in Entry : outcome[e] \notin {"none", "lost"}}

\* A step the abstract queue does not see.
LEMMA QueueStutters ==
    ASSUME UNCHANGED <<Backlog, refused, Settled, Alive>>
    PROVE  UNCHANGED Abstract!vars
BY DEF Abstract!vars, Settled

\* An entry that is offered is new to the abstract queue.
LEMMA QueueUnknown ==
    ASSUME KeptInv, NEW t \in Threads, pc[t] = "send"
    PROVE  Mine(t) \notin Abstract!Known
<1> USE DEF KeptInv
<1>1. Mine(t) \in Entry /\ Mine(t) \notin Elements(accepted) \cup refused
  BY SenderEntry, SenderFresh DEF TypeInv, OrderInv
<1>2. Elements(Backlog) \subseteq Elements(accepted)
  BY BacklogShape, SuffixElements DEF TypeInv, OrderInv, PlacesOK
<1>3. outcome[Mine(t)] = "none"
  BY <1>1 DEF OutcomeInv
<1> QED BY <1>1, <1>2, <1>3 DEF Abstract!Known, Elements

\* Entries that are lost were not settled.
LEMMA QueueLoses ==
    ASSUME KeptInv, LoseBacklog, UNCHANGED accepted
    PROVE  Backlog' = <<>> /\ Settled' = Settled
<1> USE DEF KeptInv
<1>1. Loses
  BY LoseLoses
<1>2. Elements(Backlog) \subseteq Entry
  BY BacklogShape, ElementsInSet DEF TypeInv, OrderInv
<1>3. \A e \in Elements(Backlog) : outcome[e] = "none"
  BY <1>2 DEF OutcomeInv
<1> QED BY <1>1, <1>3 DEF Loses, Settled

LEMMA QueueSend ==
    ASSUME KeptInv, NEW t \in Threads, TrySend(t)
    PROVE  Abstract!Next \/ UNCHANGED Abstract!vars
<1> USE DEF KeptInv, TypeInv, OrderInv
<1>1. /\ pc[t] = "send" /\ Mine(t) \in Entry /\ Mine(t) \notin Abstract!Known
      /\ Alive' = Alive /\ Settled' = Settled
  BY QueueUnknown, SenderEntry DEF TrySend, worker, Alive, Settled
<1>2. Len(queue) \in Nat /\ Len(current) \in 0..1 /\ Capacity \in Nat
  BY LenProperties, LoggerAssumption DEF PlacesOK
<1>3. Len(Backlog) = Len(current) + Len(queue)
  BY ConcatProperties DEF PlacesOK, Backlog
<1>4. CASE Alive /\ Len(queue) < Capacity /\ Enqueue(t) /\ UNCHANGED refused
  <2>1. Backlog' = Append(Backlog, Mine(t))
    BY <1>1, <1>4, BacklogEnqueue DEF Enqueue, TrySend, worker
  <2>2. Len(Backlog) <= Capacity
    <3>1. Len(queue) < Capacity
      BY <1>4
    <3>2. \A a \in 0..1, b, c \in Nat : b < c => a + b <= c
      OBVIOUS
    <3> QED BY ONLY <1>2, <1>3, <3>1, <3>2
  <2>3. Abstract!Accept(Mine(t))
    BY <1>1, <1>4, <2>1, <2>2 DEF Abstract!Accept, Settled
  <2> QED BY <1>1, <2>3 DEF Abstract!Next
<1>5. CASE /\ Alive /\ Len(queue) = Capacity
           /\ refused' = refused \cup {Mine(t)} /\ UNCHANGED queue
  <2>1. Backlog' = Backlog
    BY <1>5 DEF TrySend, worker, Backlog
  <2>2. Len(Backlog) >= Capacity
    BY <1>2, <1>3, <1>5
  <2>3. Abstract!Refuse(Mine(t))
    BY <1>1, <1>5, <2>1, <2>2 DEF Abstract!Refuse, Settled
  <2> QED BY <1>1, <2>3 DEF Abstract!Next
<1>6. CASE UNCHANGED <<queue, refused>>
  <2>1. Backlog' = Backlog
    BY <1>6 DEF TrySend, worker, Backlog
  <2> QED BY <1>1, <1>6, <2>1, QueueStutters
<1> QED BY <1>4, <1>5, <1>6 DEF TrySend

LEMMA QueueDone ==
    ASSUME KeptInv, wpc \notin {"recv", "dead"}, NEW kind \in Kinds, Done(kind),
           UNCHANGED <<queue, refused>>
    PROVE  Abstract!Settle
<1> USE DEF KeptInv, TypeInv, OrderInv
<1>1. Backlog # <<>> /\ Head(Backlog) = current[1] /\ Backlog' = Tail(Backlog)
  BY BacklogDone DEF Done
<1>2. current[1] \in Entry
  BY CurrentEntry
<1>3. Settled' = Settled \cup {current[1]}
  BY <1>2 DEF Done, Settled, RestOK, Kinds
<1>4. Alive /\ Alive'
  BY DEF Alive, Done
<1> QED BY <1>1, <1>3, <1>4 DEF Abstract!Settle, Settled

LEMMA QueueWorker ==
    ASSUME KeptInv, Worker PROVE Abstract!Next \/ UNCHANGED Abstract!vars
<1> USE DEF KeptInv, TypeInv, OrderInv
<1>1. CASE Receive
  <2>1. Backlog' = Backlog
    BY <1>1, BacklogReceive DEF Receive
  <2>2. UNCHANGED <<refused, Settled, Alive>>
    BY <1>1 DEF Receive, Settled, Alive
  <2> QED BY <2>1, <2>2, QueueStutters
<1>2. ASSUME wpc # "dead", wpc' # "dead", UNCHANGED <<queue, current, refused, outcome>>
      PROVE  UNCHANGED Abstract!vars
  BY <1>2, QueueStutters DEF Backlog, Settled, Alive
<1>3. CASE Post \/ Failed
  BY <1>2, <1>3 DEF Post, Failed
<1>4. CASE Answered
  <2>1. Abstract!Settle
    BY <1>4, QueueDone DEF Answered, Kinds
  <2> QED BY <2>1 DEF Abstract!Next
<1>5. CASE Fallback
  <2>1. CASE wpc' = "report" /\ UNCHANGED <<current, outcome>>
    BY <1>2, <1>5, <2>1 DEF Fallback
  <2>2. ASSUME NEW kind \in {"stored", "skipped"}, Done(kind) PROVE Abstract!Settle
    BY <1>5, <2>2, QueueDone DEF Fallback, Kinds
  <2> QED BY <1>5, <2>1, <2>2 DEF Fallback, Abstract!Next
<1>6. CASE Report
  <2>1. CASE stderrOk
    <3>1. Abstract!Settle
      BY <1>6, <2>1, QueueDone DEF Report, Kinds
    <3> QED BY <3>1 DEF Abstract!Next
  <2>2. CASE ~stderrOk
    <3>1. Backlog' = <<>> /\ Settled' = Settled
      BY <1>6, <2>2, QueueLoses DEF Report
    <3>2. Alive /\ ~Alive' /\ UNCHANGED refused
      BY <1>6, <2>2 DEF Report, Alive
    <3>3. Abstract!Close
      BY <3>1, <3>2 DEF Abstract!Close, Settled
    <3> QED BY <3>3 DEF Abstract!Next
  <2> QED BY <2>1, <2>2
<1> QED BY <1>1, <1>3, <1>4, <1>5, <1>6 DEF Worker

LEMMA QueueEnvironment ==
    ASSUME KeptInv, Environment PROVE Abstract!Next \/ UNCHANGED Abstract!vars
<1>1. ASSUME (\E e \in inflight : Index(e)) \/ BreakStdio PROVE UNCHANGED Abstract!vars
  BY <1>1, QueueStutters DEF Index, BreakStdio, worker, Backlog, Settled, Alive
<1>2. CASE Restart
  <2>1. Backlog' = <<>> /\ Settled' = Settled
    BY <1>2, QueueLoses DEF Restart
  <2>2. Alive' /\ refused' = {}
    BY <1>2 DEF Restart, Alive
  <2>3. Abstract!Reset
    BY <2>1, <2>2 DEF Abstract!Reset, Settled
  <2> QED BY <2>3 DEF Abstract!Next
<1> QED BY <1>1, <1>2 DEF Environment

LEMMA QueueStep == KeptInv /\ [Next]_vars => [Abstract!Next]_Abstract!vars
<1> SUFFICES ASSUME KeptInv, [Next]_vars PROVE Abstract!Next \/ UNCHANGED Abstract!vars
  OBVIOUS
<1>1. ASSUME NEW t \in Threads,
             Call(t) \/ PrintEntry(t) \/ Count(t) \/ Notice(t) \/ ReportClosed(t)
      PROVE  UNCHANGED Abstract!vars
  BY <1>1, QueueStutters
  DEF Call, PrintEntry, Count, Notice, ReportClosed, worker, Backlog, Settled, Alive
<1>2. CASE UNCHANGED vars
  BY <1>2, QueueStutters DEF vars, worker, Backlog, Settled, Alive
<1> QED BY <1>1, <1>2, QueueSend, QueueWorker, QueueEnvironment DEF Next, InCall

\* The logger behaves like one bounded first-in first-out queue that refuses an entry
\* only when it is full, settles entries in the order it accepted them and forgets
\* them only when the worker or the process dies, whatever threads and server do.
THEOREM ImplementsLossyQueue == Spec => IsLossyQueue
<1>1. Init => Abstract!Init
  <2> SUFFICES ASSUME Init PROVE Abstract!Init
    OBVIOUS
  <2>1. Backlog = <<>>
    BY ConcatEmptySeq, EmptySeq DEF Init, Backlog
  <2> QED BY <2>1 DEF Init, Abstract!Init, Alive
<1> QED BY <1>1, QueueStep, Kept, PTL DEF Spec, IsLossyQueue, Abstract!Spec
=============================================================================
