------------------------- MODULE LoggerSystemProofs -------------------------
(***************************************************************************)
(* The logger with its file, for every set of threads, capacity, limit,    *)
(* record sizes and number of calls, faults and restarts.  Both parts keep  *)
(* what was proved of them alone; with both at hand, an entry counted as    *)
(* stored is whole, is written at most once, and in its turn.               *)
(***************************************************************************)
EXTENDS LoggerSystem, LoggerProofs

FP == INSTANCE FallbackFileProofs WITH pc <- fpc

LEMMA FileAssumption == FP!FallbackAssumption
BY SystemAssumption DEF FP!FallbackAssumption

-----------------------------------------------------------------------------
(* The composition implements its parts *)

\* One step of write_fallback, as both instances of FallbackFile have it.
LEMMA SameFileStep ==
    /\ F!Init => FP!Init
    /\ \A n : F!Begin(n) => FP!Begin(n)
    /\ F!Step => FP!Step
    /\ F!IOError => FP!IOError
    /\ F!Crash => FP!Crash
    /\ F!DeleteFile => FP!DeleteFile
    /\ \A n, utf8 : F!TornAppend(n, utf8) => FP!TornAppend(n, utf8)
BY DEF F!Init, F!Begin, F!IOError, F!Crash, F!DeleteFile, F!TornAppend, F!Step, F!EnsureFile,
       F!EnsureCapacity, F!OpenFiles, F!FileGone, F!DropLine, F!CopyLine, F!ReadInvalidLine,
       F!Replace, F!AppendRecord, F!Return, F!KeepLine, F!Length, F!Extended, F!Fault,
       F!disk, F!reader, F!temp,
       FP!Init, FP!Begin, FP!IOError, FP!Crash, FP!DeleteFile, FP!TornAppend, FP!Step,
       FP!EnsureFile, FP!EnsureCapacity, FP!OpenFiles, FP!FileGone, FP!DropLine, FP!CopyLine,
       FP!ReadInvalidLine, FP!Replace, FP!AppendRecord, FP!Return, FP!KeepLine, FP!Length,
       FP!Extended, FP!Fault, FP!disk, FP!reader, FP!temp

LEMMA FileStep == [SystemNext]_systemVars => [FP!Next]_FP!vars
<1> SUFFICES ASSUME [SystemNext]_systemVars PROVE [FP!Next]_FP!vars
  OBVIOUS
<1>1. ASSUME UNCHANGED fileVars PROVE UNCHANGED FP!vars
  BY <1>1 DEF fileVars, FP!vars, FP!disk, FP!reader, FP!temp
<1>2. ASSUME NEW t \in Threads, Alone(Call(t) \/ InCall(t)) PROVE UNCHANGED fileVars
  BY <1>2 DEF Alone
<1>3. ASSUME \/ Alone(Receive \/ Post \/ Answered \/ Failed \/ Report) \/ EndFallback
             \/ Alone((\E e \in inflight : Index(e)) \/ BreakStdio) \/ UNCHANGED systemVars
      PROVE  UNCHANGED fileVars
  BY <1>3 DEF Alone, EndFallback, systemVars
<1>4. CASE BeginFallback
  BY <1>4, SameFileStep DEF BeginFallback, FP!Next
<1>5. CASE InFallback(F!Step)
  BY <1>5, SameFileStep DEF InFallback, FP!Next
<1>6. CASE InFallback(F!IOError \/ \E n \in 1..Max, utf8 \in BOOLEAN : F!TornAppend(n, utf8))
  BY <1>6, SameFileStep DEF InFallback, FP!Next, FP!Disturb
<1>7. CASE DeleteFile
  BY <1>7, SameFileStep DEF DeleteFile, FP!Next, FP!Disturb
<1>8. CASE SystemRestart
  BY <1>1, <1>8, SameFileStep DEF SystemRestart, FP!Next, FP!Disturb
<1> QED BY <1>1, <1>2, <1>3, <1>4, <1>5, <1>6, <1>7, <1>8 DEF SystemNext, SystemWorker

LEMMA ImplementsFile == SystemSpec => FP!Spec
<1>1. SystemInit => FP!Init
  BY SameFileStep DEF SystemInit
<1> QED BY <1>1, FileStep, PTL DEF SystemSpec, FP!Spec

\* What write_fallback keeps, by itself.
LEMMA FileParts == SystemSpec => [](FP!IInv /\ FP!RunningInv)
<1>1. FP!Init => FP!FailInv
  BY FileAssumption, FP!InitFail
<1>2. FP!FailInv /\ [FP!Next]_FP!vars => FP!FailInv'
  BY FileAssumption, FP!NextFail
<1>3. FP!FailInv => FP!IInv /\ FP!RunningInv
  BY DEF FP!FailInv, FP!RoomInv
<1> QED BY <1>1, <1>2, <1>3, ImplementsFile, PTL DEF FP!Spec

\* The worker is in write_fallback only with an entry to store; write_fallback does
\* not begin with a record that is larger than the file may be, and skips no other.
WritingInv ==
    /\ writing => wpc = "fallback"
    /\ fpc # "idle" => writing
    /\ writing => IF current[1] \in Oversized
                  THEN fpc = "idle" /\ result = "skipped"
                  ELSE result # "skipped"

\* place changes when the record of the worker's entry is complete, and only then.
RecordsEntry ==
    /\ FP!AppendRecord /\ writing /\ UNCHANGED <<vars, writing>>
    /\ place' = [place EXCEPT ![current[1]] = @ \cup {<<stream, stream'>>}]

LEMMA InFallbackStep ==
    ASSUME FP!RunningInv,
           \/ InFallback(F!Step)
           \/ InFallback(F!IOError \/ \E n \in 1..Max, utf8 \in BOOLEAN : F!TornAppend(n, utf8))
    PROVE  /\ fpc # "idle" /\ writing /\ UNCHANGED <<vars, writing>> /\ result' # "skipped"
           /\ RecordsEntry \/ (UNCHANGED place /\ result' # "ok")
<1>1. writing /\ UNCHANGED <<vars, writing>>
  BY DEF InFallback
<1>2. FP!Step \/ FP!IOError \/ \E n \in 1..Max, utf8 \in BOOLEAN : FP!TornAppend(n, utf8)
  BY SameFileStep DEF InFallback
<1>3. place' = IF fpc = "append" /\ result' = "ok"
               THEN [place EXCEPT ![current[1]] = @ \cup {<<stream, stream'>>}]
               ELSE place
  BY DEF InFallback
<1>4. CASE FP!AppendRecord
  <2>1. fpc = "append" /\ result' = "ok"   \* hence neither idle nor skipped
    BY <1>4 DEF FP!AppendRecord, FP!Return
  <2> QED BY <1>1, <1>3, <1>4, <2>1 DEF RecordsEntry
<1>5. ASSUME FP!IOError \/ \E n \in 1..Max, utf8 \in BOOLEAN : FP!TornAppend(n, utf8)
      PROVE  fpc # "idle" /\ result' \notin {"ok", "skipped"}
  BY <1>5 DEF FP!IOError, FP!TornAppend, FP!Return
<1>6. ASSUME FP!Step, ~FP!AppendRecord PROVE fpc # "idle" /\ result' \notin {"ok", "skipped"}
  BY <1>6 DEF FP!Step, FP!EnsureFile, FP!EnsureCapacity, FP!OpenFiles, FP!FileGone, FP!DropLine,
              FP!CopyLine, FP!ReadInvalidLine, FP!Replace, FP!Return, FP!RunningInv
<1> QED BY <1>1, <1>2, <1>3, <1>4, <1>5, <1>6

LEMMA NextWriting ==
    FP!RunningInv /\ WritingInv /\ [SystemNext]_systemVars => WritingInv'
<1> SUFFICES ASSUME FP!RunningInv, WritingInv, [SystemNext]_systemVars PROVE WritingInv'
  OBVIOUS
<1>1. ASSUME UNCHANGED <<writing, fpc, result>>, wpc = "fallback" => UNCHANGED <<wpc, current>>
      PROVE  WritingInv'
  BY <1>1 DEF WritingInv
<1>2. ASSUME NEW t \in Threads, Alone(Call(t) \/ InCall(t)) PROVE WritingInv'
  BY <1>1, <1>2
  DEF Alone, fileVars, Call, InCall, PrintEntry, TrySend, Count, Notice, ReportClosed, worker
<1>3. CASE Alone(Receive \/ Post \/ Answered \/ Failed \/ Report)
  BY <1>1, <1>3 DEF Alone, fileVars, Receive, Post, Answered, Failed, Report
<1>4. CASE Alone((\E e \in inflight : Index(e)) \/ BreakStdio)
  BY <1>1, <1>4 DEF Alone, fileVars, Index, BreakStdio, worker
<1>5. CASE BeginFallback
  <2>1. PICK n \in Sizes : (n > Max <=> current[1] \in Oversized) /\ FP!Begin(n)
    BY <1>5, SameFileStep DEF BeginFallback
  <2>2. IF n > Max THEN fpc' = "idle" /\ result' = "skipped" ELSE result' = "none"
    BY <2>1 DEF FP!Begin, FP!Return
  <2>3. wpc = "fallback" /\ writing' = TRUE /\ UNCHANGED <<wpc, current>>
    BY <1>5 DEF BeginFallback, vars, worker
  <2> QED BY <2>1, <2>2, <2>3 DEF WritingInv
<1>6. ASSUME \/ InFallback(F!Step)
             \/ InFallback(F!IOError \/ \E n \in 1..Max, utf8 \in BOOLEAN : F!TornAppend(n, utf8))
      PROVE  WritingInv'
  <2>1. fpc # "idle" /\ writing /\ UNCHANGED <<wpc, current, writing>> /\ result' # "skipped"
    BY <1>6, InFallbackStep DEF vars, worker
  <2> QED BY <2>1 DEF WritingInv
<1>7. CASE EndFallback
  BY <1>7 DEF EndFallback, fileVars, WritingInv
<1>8. CASE DeleteFile
  BY <1>1, <1>8, SameFileStep DEF DeleteFile, FP!DeleteFile, vars, worker
<1>9. CASE SystemRestart
  BY <1>9, SameFileStep DEF SystemRestart, FP!Crash, FP!Return, fileVars, WritingInv
<1>10. CASE UNCHANGED systemVars
  BY <1>1, <1>10 DEF systemVars, fileVars, vars, worker
<1> QED BY <1>2, <1>3, <1>4, <1>5, <1>6, <1>7, <1>8, <1>9, <1>10 DEF SystemNext, SystemWorker

LEMMA Writings == SystemSpec => []WritingInv
<1>1. SystemInit => WritingInv
  BY DEF SystemInit, F!Init, WritingInv
<1> QED BY <1>1, NextWriting, FileParts, PTL DEF SystemSpec

LEMMA LoggerStep == WritingInv /\ [SystemNext]_systemVars => [Next]_vars
<1> SUFFICES ASSUME WritingInv, [SystemNext]_systemVars PROVE [Next]_vars
  OBVIOUS
<1>1. ASSUME NEW t \in Threads, Alone(Call(t) \/ InCall(t)) PROVE Next
  BY <1>1 DEF Alone, Next
<1>2. ASSUME Alone(Receive \/ Post \/ Answered \/ Failed \/ Report) PROVE Next
  BY <1>2 DEF Alone, Next, Worker
<1>3. ASSUME BeginFallback \/ InFallback(F!Step) \/ DeleteFile
             \/ InFallback(F!IOError \/ \E n \in 1..Max, utf8 \in BOOLEAN : F!TornAppend(n, utf8))
      PROVE  UNCHANGED vars
  BY <1>3 DEF BeginFallback, InFallback, DeleteFile
<1>4. CASE EndFallback
  BY <1>4 DEF WritingInv, EndFallback, Fallback, Next, Worker
<1>5. ASSUME Alone((\E e \in inflight : Index(e)) \/ BreakStdio) PROVE Next
  BY <1>5 DEF Alone, Next, Environment
<1>6. CASE SystemRestart
  BY <1>6 DEF SystemRestart, Next, Environment
<1>7. CASE UNCHANGED systemVars
  BY <1>7 DEF systemVars
<1> QED BY <1>1, <1>2, <1>3, <1>4, <1>5, <1>6, <1>7 DEF SystemNext, SystemWorker

\* With the whole of write_fallback in the place of one step, the logger still
\* behaves like Logger, for all sizes and loads of both.
THEOREM ImplementsLogger == SystemSpec => IsLogger
<1>1. SystemInit => Init
  BY DEF SystemInit
<1> QED BY <1>1, LoggerStep, Writings, PTL DEF SystemSpec, Spec, IsLogger

\* logs.txt stays the newest gap-free run of what was written, whatever the logger
\* does around write_fallback and wherever the process ends.
THEOREM SystemKeepsNewest == SystemSpec => []F!NewestSuffix
<1>1. FP!NewestSuffix => F!NewestSuffix
  BY DEF F!NewestSuffix, FP!NewestSuffix, F!Contiguous, FP!Contiguous
<1>2. FP!Spec => []FP!NewestSuffix
  BY FileAssumption, FP!FileIsNewestSuffix
<1> QED BY <1>1, <1>2, ImplementsFile, PTL

\* Nor does the logger change by how much logs.txt exceeds its limit.
THEOREM SystemOverBySingleLine == SystemSpec => []F!AtMostOneLineOver
<1>1. FP!AtMostOneLineOver => F!AtMostOneLineOver
  BY DEF F!AtMostOneLineOver, FP!AtMostOneLineOver, F!Length, FP!Length
<1>2. FP!Spec => []FP!AtMostOneLineOver
  BY FileAssumption, FP!OverBySingleLine
<1> QED BY <1>1, <1>2, ImplementsFile, PTL

\* No accepted entry vanishes and none has two outcomes, wherever write_fallback
\* fails or is cut off by the end of the process.
THEOREM SystemConserves == SystemSpec => []NothingVanishes
BY ImplementsLogger, Conserved, PTL DEF IsLogger

\* Entries are handled in the order accepted, with every step of write_fallback.
THEOREM SystemHandlesInOrder == SystemSpec => []QueueOrder
BY ImplementsLogger, HandledInOrder, PTL DEF IsLogger

-----------------------------------------------------------------------------
(* Entries and their records *)

\* What both parts keep, each by itself.
PartsInv == KeptInv /\ FP!IInv /\ FP!RunningInv

LEMMA Parts == SystemSpec => []PartsInv
BY FileParts, ImplementsLogger, Kept, PTL DEF IsLogger, PartsInv

\* The record of e is written, and the worker does not know it yet.
Written(e) ==
    /\ writing /\ fpc = "idle" /\ result = "ok"
    /\ e = current[1] /\ outcome[e] = "none"

\* An entry has a record exactly once write_fallback put it there.
PlacedInv ==
    /\ \A e \in Entry : place[e] # {} => outcome[e] \in {"stored", "lost"} \/ Written(e)
    /\ \A e \in Entry : outcome[e] = "stored" => place[e] # {}
    /\ writing /\ result = "ok" => place[current[1]] # {}
    /\ \A e \in Entry : \A r, s \in place[e] : r = s

\* Records lie in the stream and are whole in what a trim keeps.
WholeInv ==
    /\ place \in [Entry -> SUBSET FP!Bytes]
    /\ \A e \in Entry : \A r \in place[e] : r[2] <= stream /\ FP!Intact(r)

\* Records lie in the stream in the order of acceptance.
SortedInv ==
    \A i, j \in 1..Len(accepted) : i < j =>
        \A r \in place[accepted[i]], s \in place[accepted[j]] : r[2] <= s[1]

RecordInv == WritingInv /\ PlacedInv /\ WholeInv /\ SortedInv

\* The entry in the worker's hands waits for its outcome.
LEMMA CurrentWaits ==
    ASSUME KeptInv, wpc \notin {"recv", "dead"}
    PROVE  /\ current[1] \in Entry /\ outcome[current[1]] = "none"
           /\ current[1] \in Elements(Backlog) /\ current[1] \in Elements(accepted)
           /\ Backlog # <<>> /\ Backlog[1] = current[1]
<1> USE DEF KeptInv, TypeInv, OrderInv
<1>1. current[1] \in Entry
  BY CurrentEntry
<1>2. Backlog \in Seq(Entry) /\ Backlog # <<>>
  BY BacklogShape
<1>3. Backlog[1] = current[1]
  <2>1. Len(current) = 1 /\ Len(queue) \in Nat
    BY LenProperties DEF PlacesOK
  <2>2. \A i \in 1..Len(current) + Len(queue) :
           Backlog[i] = IF i <= Len(current) THEN current[i] ELSE queue[i - Len(current)]
    BY ConcatProperties DEF PlacesOK, Backlog
  <2> QED BY <2>1, <2>2
<1>4. current[1] \in Elements(Backlog)
  <2>1. 1 \in 1..Len(Backlog)
    BY <1>2, EmptySeq
  <2> QED BY <1>3, <2>1 DEF Elements
<1>5. Elements(Backlog) \subseteq Elements(accepted)
  BY <1>2, SuffixElements DEF PlacesOK
<1> QED BY <1>1, <1>2, <1>3, <1>4, <1>5 DEF OutcomeInv

\* What was accepted after the worker's entry waits behind it.
LEMMA BehindCurrent ==
    ASSUME KeptInv, wpc \notin {"recv", "dead"},
           NEW i \in 1..Len(accepted), NEW j \in 1..Len(accepted), i < j,
           accepted[i] = current[1]
    PROVE  /\ accepted[j] \in Entry /\ outcome[accepted[j]] = "none"
           /\ accepted[j] # current[1]
<1> USE DEF KeptInv, TypeInv, OrderInv
<1> DEFINE m == Len(Backlog)
           k == Len(accepted) - m
<1>1. /\ accepted \in Seq(Entry) /\ Len(accepted) \in Nat
      /\ m \in Nat \ {0} /\ k \in Nat
      /\ \A h \in 1..m : Backlog[h] = accepted[k + h]
  BY CurrentWaits, BacklogShape, LenProperties, EmptySeq DEF PlacesOK, Suffix
<1>2. Backlog[1] = current[1]
  BY CurrentWaits
<1> HIDE DEF m
<1>3. k + 1 \in 1..Len(accepted) /\ accepted[k + 1] = current[1]
  BY <1>1, <1>2
<1>4. i = k + 1
  BY <1>3 DEF FreshInv, Injective
<1>5. j - k \in 1..m /\ k + (j - k) = j
  BY <1>1, <1>4
<1>6. Backlog[j - k] = accepted[j]
  BY <1>1, <1>5
<1>7. accepted[j] \in Elements(Backlog)
  BY <1>5, <1>6 DEF Elements, m
<1>8. accepted[j] \in Entry
  BY <1>1, ElementOfSeq
<1>9. accepted[j] # current[1]
  BY DEF FreshInv, Injective
<1> QED BY <1>7, <1>8, <1>9 DEF OutcomeInv

-----------------------------------------------------------------------------
\* A step that records nothing and settles nothing.
LEMMA PlacedElsewhere ==
    ASSUME PlacedInv, UNCHANGED <<place, outcome, writing, fpc, result>>,
           writing => UNCHANGED current
    PROVE  PlacedInv'
BY DEF PlacedInv, Written

LEMMA NextPlaced ==
    ASSUME PartsInv, RecordInv, [SystemNext]_systemVars PROVE PlacedInv'
<1> USE DEF PartsInv, RecordInv
<1> DEFINE c == current[1]
<1>1. outcome \in [Entry -> {"none", "answered", "stored", "skipped", "reported", "lost"}]
  BY DEF KeptInv, TypeInv, RestOK
<1>2. wpc \notin {"recv", "dead"} => c \in Entry /\ outcome[c] = "none" /\ c \in Elements(Backlog)
  BY CurrentWaits
<1>3. place \in [Entry -> SUBSET FP!Bytes]
  BY DEF WholeInv
<1> HIDE DEF c
<1>4. ASSUME ~writing, ~writing', UNCHANGED place, LoseBacklog \/ UNCHANGED outcome
      PROVE  PlacedInv'
  BY <1>1, <1>4 DEF PlacedInv, Written, LoseBacklog
<1>5. ASSUME ~writing', UNCHANGED place, wpc \notin {"recv", "dead"},
             NEW kind \in Kinds, Done(kind), ~writing \/ fpc = "idle",
             kind = "stored" <=> writing /\ result = "ok"
      PROVE  PlacedInv'
  <2>1. outcome' = [outcome EXCEPT ![c] = kind]
    BY <1>5 DEF Done, c
  <2>2. c \in Entry /\ outcome[c] = "none"
    BY <1>2, <1>5
  <2>3. place[c] # {} <=> kind = "stored"
    BY <1>5, <2>2 DEF PlacedInv, Written, c
  <2>4. \A e \in Entry : e # c /\ place[e] # {} => outcome[e] \in {"stored", "lost"}
    BY DEF PlacedInv, Written, c
  <2>5. \A e \in Entry : outcome'[e] = IF e = c THEN kind ELSE outcome[e]
    BY <1>1, <2>1, <2>2
  <2>6. \A e \in Entry : place'[e] # {} => outcome'[e] \in {"stored", "lost"}
    BY <1>5, <2>3, <2>4, <2>5
  <2>7. \A e \in Entry : outcome'[e] = "stored" => place'[e] # {}
    BY <1>5, <2>3, <2>5 DEF PlacedInv
  <2> QED BY <1>5, <2>6, <2>7 DEF PlacedInv
<1>6. ASSUME NEW t \in Threads, Alone(Call(t) \/ InCall(t)) PROVE PlacedInv'
  BY <1>6, PlacedElsewhere
  DEF Alone, fileVars, Call, InCall, PrintEntry, TrySend, Count, Notice, ReportClosed, worker
<1>7. CASE Alone(Receive \/ Post \/ Failed)
  BY <1>4, <1>7 DEF Alone, Receive, Post, Failed, WritingInv
<1>8. CASE Alone(Answered)
  BY <1>5, <1>8 DEF Alone, Answered, WritingInv, Kinds
<1>9. CASE Alone(Report)
  <2>1. ~writing /\ ~writing' /\ UNCHANGED place /\ wpc = "report"
    BY <1>9 DEF Alone, Report, WritingInv
  <2>2. Done("reported") \/ LoseBacklog
    BY <1>9 DEF Alone, Report
  <2> QED BY <1>4, <1>5, <2>1, <2>2 DEF Kinds
<1>10. CASE Alone((\E e \in inflight : Index(e)) \/ BreakStdio)
  BY <1>10, PlacedElsewhere DEF Alone, fileVars, Index, BreakStdio, worker
<1>11. CASE BeginFallback
  <2>1. ~writing /\ UNCHANGED <<place, outcome, current>> /\ result' # "ok"
    BY <1>11, SameFileStep DEF BeginFallback, FP!Begin, FP!Return, vars, worker
  <2> QED BY <2>1 DEF PlacedInv, Written
<1>12. ASSUME \/ InFallback(F!Step)
              \/ InFallback(F!IOError \/ \E n \in 1..Max, utf8 \in BOOLEAN : F!TornAppend(n, utf8))
       PROVE  PlacedInv'
  <2>1. /\ fpc # "idle" /\ writing /\ writing' /\ UNCHANGED <<outcome, current>>
        /\ RecordsEntry \/ (UNCHANGED place /\ result' # "ok")
    BY <1>12, InFallbackStep DEF vars, worker
  <2>2. \A e \in Entry : place[e] # {} => outcome[e] \in {"stored", "lost"}
    BY <2>1 DEF PlacedInv, Written
  <2>3. CASE UNCHANGED place /\ result' # "ok"
    BY <2>1, <2>2, <2>3 DEF PlacedInv
  <2>4. CASE RecordsEntry
    <3>1. c \in Entry /\ outcome[c] = "none"
      BY <1>2, <2>1 DEF WritingInv
    <3>2. place[c] = {}
      BY <2>2, <3>1
    <3>3. place' = [place EXCEPT ![c] = {<<stream, stream'>>}]
      BY <2>4, <3>2 DEF RecordsEntry, c
    <3>4. fpc' = "idle" /\ result' = "ok"
      BY <2>4 DEF RecordsEntry, FP!AppendRecord, FP!Return
    <3>5. \A e \in Entry : place'[e] = IF e = c THEN {<<stream, stream'>>} ELSE place[e]
      BY <1>3, <3>1, <3>3
    <3>6. Written(c)'
      BY <2>1, <3>1, <3>4 DEF Written, c
    <3>7. current'[1] = c
      BY <2>1 DEF c
    <3> HIDE DEF Written
    <3>8. \A e \in Entry : place'[e] # {} => outcome'[e] \in {"stored", "lost"} \/ Written(e)'
      BY <2>1, <2>2, <3>5, <3>6, <3>7 DEF Written
    <3> QED BY <2>1, <3>1, <3>5, <3>7, <3>8, ZenonT(60) DEF PlacedInv
  <2> QED BY <2>1, <2>3, <2>4
<1>13. CASE EndFallback
  <2>1. /\ writing /\ ~writing' /\ fpc = "idle" /\ wpc = "fallback" /\ UNCHANGED place
    BY <1>13 DEF EndFallback
  <2>2. CASE result = "ok" /\ Done("stored")
    BY <1>5, <2>1, <2>2 DEF Kinds
  <2>3. CASE result = "skipped" /\ Done("skipped")
    BY <1>5, <2>1, <2>3 DEF Kinds
  <2>4. CASE result = "err" /\ UNCHANGED outcome
    BY <2>1, <2>4 DEF PlacedInv, Written
  <2> QED BY <1>13, <2>2, <2>3, <2>4 DEF EndFallback
<1>14. CASE DeleteFile
  BY <1>14, PlacedElsewhere, SameFileStep DEF DeleteFile, FP!DeleteFile, vars, worker
<1>15. CASE SystemRestart
  <2>1. /\ ~writing' /\ UNCHANGED place
        /\ outcome' = [e \in Entry |-> IF e \in Elements(Backlog) THEN "lost" ELSE outcome[e]]
    BY <1>15, LoseLoses DEF SystemRestart, Restart, Loses
  <2>2. \A e \in Entry : Written(e) => e \in Elements(Backlog)
    BY <1>2 DEF Written, WritingInv, c
  <2>3. \A e \in Entry : place[e] # {} => outcome'[e] \in {"stored", "lost"}
    BY <2>1, <2>2 DEF PlacedInv
  <2>4. \A e \in Entry : outcome'[e] = "stored" => outcome[e] = "stored"
    BY <2>1
  <2> QED BY <2>1, <2>3, <2>4 DEF PlacedInv
<1>16. CASE UNCHANGED systemVars
  BY <1>16, PlacedElsewhere DEF systemVars, fileVars, vars, worker
<1> QED BY <1>6, <1>7, <1>8, <1>9, <1>10, <1>11, <1>12, <1>13, <1>14, <1>15, <1>16
        DEF SystemNext, SystemWorker, Alone

LEMMA PlaceStep ==
    ASSUME PartsInv, [SystemNext]_systemVars
    PROVE  UNCHANGED place \/ (RecordsEntry /\ fpc # "idle" /\ UNCHANGED accepted)
<1>1. ASSUME \/ InFallback(F!Step)
             \/ InFallback(F!IOError \/ \E n \in 1..Max, utf8 \in BOOLEAN : F!TornAppend(n, utf8))
      PROVE  UNCHANGED place \/ (RecordsEntry /\ fpc # "idle" /\ UNCHANGED accepted)
  BY <1>1, InFallbackStep DEF PartsInv, vars
<1> QED BY <1>1
        DEF SystemNext, SystemWorker, systemVars, Alone, BeginFallback, EndFallback,
            DeleteFile, SystemRestart

LEMMA NextWhole ==
    ASSUME PartsInv, RecordInv, [SystemNext]_systemVars PROVE WholeInv'
<1> USE DEF PartsInv, RecordInv
<1>1. [FP!Next]_FP!vars
  BY FileStep
<1>2. ASSUME NEW r \in FP!Bytes, r[2] <= stream, FP!Intact(r)
      PROVE  r[2] <= stream' /\ FP!Intact(r)'
  BY <1>1, <1>2, FileAssumption, FP!IntactStays
<1>3. CASE UNCHANGED place
  BY <1>2, <1>3 DEF WholeInv
<1>4. CASE RecordsEntry /\ fpc # "idle"
  <2>1. FP!AppendRecord /\ current[1] \in Entry
    BY <1>4, CurrentWaits DEF RecordsEntry, WritingInv
  <2>2. \A r : r = <<stream, stream'>> => r \in FP!Bytes /\ FP!Intact(r)' /\ r[2] = stream'
    BY <2>1, FileAssumption, FP!IntactAppended
  <2>3. <<stream, stream'>> \in FP!Bytes
    BY <2>2
  <2>4. stream' \in Nat
    BY <2>3 DEF FP!Bytes
  <2>5. /\ place' \in [Entry -> SUBSET FP!Bytes]
        /\ \A e \in Entry : \A r \in place'[e] : r \in place[e] \/ r = <<stream, stream'>>
    BY <1>4, <2>1, <2>3 DEF RecordsEntry, WholeInv
  <2>6. ASSUME NEW e \in Entry, NEW r \in place'[e]
        PROVE  r[2] <= stream' /\ FP!Intact(r)'
    <3>1. CASE r \in place[e]
      BY <1>2, <3>1 DEF WholeInv
    <3>2. CASE r = <<stream, stream'>>
      BY <2>2, <2>4, <3>2
    <3> QED BY <2>5, <3>1, <3>2
  <2> QED BY <2>5, <2>6 DEF WholeInv
<1> QED BY <1>3, <1>4, PlaceStep

\* An entry that is offered has no record.
LEMMA SenderHasNoRecord ==
    ASSUME PartsInv, RecordInv, NEW t \in Threads, pc[t] = "send"
    PROVE  place[Mine(t)] = {}
<1> USE DEF PartsInv, RecordInv
<1>1. Mine(t) \in Entry /\ Mine(t) \notin Elements(accepted)
  BY SenderEntry, SenderFresh DEF KeptInv, TypeInv, OrderInv
<1>2. outcome[Mine(t)] = "none"
  BY <1>1 DEF KeptInv, OutcomeInv
<1>3. ~Written(Mine(t))
  BY <1>1, CurrentWaits DEF Written, WritingInv
<1> QED BY <1>1, <1>2, <1>3 DEF PlacedInv

LEMMA NextSorted ==
    ASSUME PartsInv, RecordInv, [SystemNext]_systemVars PROVE SortedInv'
<1> USE DEF PartsInv, RecordInv
<1>1. accepted \in Seq(Entry) /\ Len(accepted) \in Nat
  BY LenProperties DEF KeptInv, TypeInv, OrderInv, PlacesOK
<1>2. CASE RecordsEntry /\ fpc # "idle" /\ UNCHANGED accepted
  <2> DEFINE c == current[1]
  <2>1. c \in Entry /\ outcome[c] = "none" /\ wpc \notin {"recv", "dead"} /\ place[c] = {}
    BY <1>2, CurrentWaits DEF RecordsEntry, WritingInv, PlacedInv, Written
  <2>2. \A e \in Entry : place'[e] = IF e = c THEN {<<stream, stream'>>} ELSE place[e]
    BY <1>2, <2>1 DEF RecordsEntry, WholeInv
  <2>3. ASSUME NEW i \in 1..Len(accepted), NEW j \in 1..Len(accepted), i < j,
               NEW r \in place'[accepted[i]], NEW s \in place'[accepted[j]]
        PROVE  r[2] <= s[1]
    <3>1. accepted[i] \in Entry /\ accepted[j] \in Entry /\ accepted[i] # accepted[j]
      BY <1>1, <2>3, ElementOfSeq DEF KeptInv, FreshInv, Injective
    <3>2. CASE accepted[i] = c
      <4>1. accepted[j] # c /\ outcome[accepted[j]] = "none"
        BY <2>1, <2>3, <3>2, BehindCurrent
      <4>2. place[accepted[j]] = {}
        BY <3>1, <4>1 DEF PlacedInv, Written
      <4> QED BY <2>2, <2>3, <3>1, <4>1, <4>2
    <3>3. CASE accepted[j] = c
      <4>1. s = <<stream, stream'>> /\ r \in place[accepted[i]]
        BY <2>2, <2>3, <3>1, <3>3
      <4> QED BY <3>1, <4>1 DEF WholeInv
    <3>4. CASE accepted[i] # c /\ accepted[j] # c
      <4>1. r \in place[accepted[i]] /\ s \in place[accepted[j]]
        BY <2>2, <2>3, <3>1, <3>4
      <4> QED BY <2>3, <4>1 DEF SortedInv
    <3> QED BY <3>2, <3>3, <3>4
  <2> QED BY <1>2, <2>3 DEF SortedInv
<1>3. CASE UNCHANGED <<place, accepted>>
  BY <1>3 DEF SortedInv
<1>4. ASSUME UNCHANGED place, NEW t \in Threads, Accepts(t) PROVE SortedInv'
  <2>1. place[Mine(t)] = {}
    BY <1>4, SenderHasNoRecord DEF Accepts
  <2>2. /\ Len(accepted') = Len(accepted) + 1 /\ accepted'[Len(accepted) + 1] = Mine(t)
        /\ \A i \in 1..Len(accepted) : accepted'[i] = accepted[i]
    BY <1>1, <1>4, AppendProperties DEF Accepts
  <2>3. ASSUME NEW i \in 1..Len(accepted'), NEW j \in 1..Len(accepted'), i < j,
               NEW r \in place[accepted'[i]], NEW s \in place[accepted'[j]]
        PROVE  r[2] <= s[1]
    <3>1. j # Len(accepted) + 1
      BY <2>1, <2>2, <2>3
    <3>2. i \in 1..Len(accepted) /\ j \in 1..Len(accepted)
      BY <1>1, <2>2, <2>3, <3>1
    <3>3. accepted'[i] = accepted[i] /\ accepted'[j] = accepted[j]
      BY <2>2, <3>2
    <3> QED BY <2>3, <3>2, <3>3 DEF SortedInv
  <2> QED BY <1>4, <2>3 DEF SortedInv
<1>5. UNCHANGED accepted \/ \E t \in Threads : Accepts(t)
  BY LoggerStep, StepMoves DEF RecordInv, Keeps, Loses, Finishes, KeptInv
<1> QED BY <1>2, <1>3, <1>4, <1>5, PlaceStep

LEMMA InitRecords == SystemInit => RecordInv
<1> SUFFICES ASSUME SystemInit PROVE RecordInv
  OBVIOUS
<1>1. /\ fpc = "idle" /\ writing = FALSE /\ place = [e \in Entry |-> {}]
      /\ outcome = [e \in Entry |-> "none"] /\ accepted = <<>> /\ Len(<<>>) = 0
  BY EmptySeq DEF SystemInit, F!Init, Init
<1>2. WritingInv /\ PlacedInv
  BY <1>1 DEF WritingInv, PlacedInv
<1>3. WholeInv
  BY <1>1 DEF WholeInv
<1>4. SortedInv
  BY <1>1 DEF SortedInv
<1> QED BY <1>2, <1>3, <1>4 DEF RecordInv

LEMMA Records == SystemSpec => [](PartsInv /\ RecordInv)
<1>1. PartsInv /\ RecordInv /\ [SystemNext]_systemVars => RecordInv'
  BY NextWriting, NextPlaced, NextWhole, NextSorted DEF PartsInv, RecordInv
<1> QED BY <1>1, InitRecords, Parts, PTL DEF SystemSpec

\* An entry counted as stored was written, and no record in logs.txt is ever cut,
\* whatever is torn, trimmed, interrupted or deleted, for every limit and load.
THEOREM RecordsStayWhole == SystemSpec => []StoredIsWhole
<1>1. PartsInv /\ RecordInv => StoredIsWhole
  <2> SUFFICES ASSUME PartsInv, RecordInv, NEW e \in Entry
               PROVE  /\ outcome[e] = "stored" => place[e] # {}
                      /\ \A r \in place[e] :
                            \/ file = <<>> \/ r[2] <= file[1].from
                            \/ \E i \in 1..Len(file) : file[i].from <= r[1] /\ r[2] <= file[i].to
    BY DEF StoredIsWhole
  <2> QED BY DEF RecordInv, PlacedInv, WholeInv, FP!Intact, FP!Within, FP!First
<1> QED BY <1>1, Records, PTL

\* An entry is written to logs.txt at most once, never when the server confirmed it,
\* and in the order in which entries were accepted, for every limit and load.
THEOREM WrittenOnce == SystemSpec => []WrittenOnceInOrder
<1>1. PartsInv /\ RecordInv => WrittenOnceInOrder
  <2> SUFFICES ASSUME PartsInv, RecordInv PROVE WrittenOnceInOrder
    OBVIOUS
  <2>1. ASSUME NEW e \in Entry PROVE Cardinality(place[e]) <= 1
    <3>1. CASE place[e] = {}
      BY <3>1, FS_EmptySet
    <3>2. CASE place[e] # {}
      <4>1. PICK r \in place[e] : TRUE
        BY <3>2
      <4>2. place[e] = {r}
        BY <4>1 DEF RecordInv, PlacedInv
      <4> QED BY <4>2, FS_Singleton
    <3> QED BY <3>1, <3>2
  <2>2. \A e \in Entry : place[e] # {} => outcome[e] \in {"none", "stored", "lost"}
    BY DEF RecordInv, PlacedInv, Written
  <2> QED BY <2>1, <2>2 DEF RecordInv, SortedInv, WrittenOnceInOrder
<1> QED BY <1>1, Records, PTL
=============================================================================
