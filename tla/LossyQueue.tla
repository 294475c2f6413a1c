----------------------------- MODULE LossyQueue -----------------------------
(***************************************************************************)
(* What the logger of src/logger.rs promises its callers, without threads, *)
(* worker steps or transports: a bounded first-in first-out backlog that    *)
(* refuses an entry only when it is full, settles entries in the order it   *)
(* accepted them, and forgets the backlog only when the worker or the       *)
(* process dies.                                                            *)
(***************************************************************************)
EXTENDS Integers, Sequences

CONSTANTS
    Entries,    \* log entries
    Capacity    \* entries the channel holds; the worker holds one more

VARIABLES
    backlog,    \* accepted entries the worker is not done with, oldest first
    refused,    \* entries refused since the process started
    settled,    \* entries the worker is done with
    open        \* the worker still receives

vars == <<backlog, refused, settled, open>>

Init == backlog = <<>> /\ refused = {} /\ settled = {} /\ open = TRUE

Known == refused \cup settled \cup {backlog[i] : i \in 1..Len(backlog)}

Accept(e) ==
    /\ open /\ e \notin Known /\ Len(backlog) <= Capacity
    /\ backlog' = Append(backlog, e)
    /\ UNCHANGED <<refused, settled, open>>

Refuse(e) ==
    /\ open /\ e \notin Known /\ Len(backlog) >= Capacity
    /\ refused' = refused \cup {e}
    /\ UNCHANGED <<backlog, settled, open>>

Settle ==
    /\ open /\ backlog # <<>>
    /\ settled' = settled \cup {Head(backlog)}
    /\ backlog' = Tail(backlog)
    /\ UNCHANGED <<refused, open>>

\* The worker dies: nothing is received any more.
Close ==
    /\ open /\ open' = FALSE /\ backlog' = <<>>
    /\ UNCHANGED <<refused, settled>>

\* The process ends and another starts with an empty queue.
Reset ==
    /\ backlog' = <<>> /\ refused' = {} /\ open' = TRUE
    /\ UNCHANGED settled

Next == (\E e \in Entries : Accept(e) \/ Refuse(e)) \/ Settle \/ Close \/ Reset

Spec == Init /\ [][Next]_vars
=============================================================================
