---------------------------- MODULE FallbackFile ----------------------------
(***************************************************************************)
(* The fallback file logs.txt of src/logger.rs: LoggerInner::write_fallback *)
(* and the functions it calls, one action per system call that can fail or  *)
(* be cut short by the end of the process.                                  *)
(*                                                                          *)
(* Contents are abstracted to byte offsets.  `stream` counts every byte any *)
(* write ever put at the end of logs.txt; a line of the file is the range   *)
(* of offsets it occupies, with the two facts read_line depends on: whether *)
(* it ends in '\n' and whether it is valid UTF-8.                           *)
(***************************************************************************)
EXTENDS Integers, Sequences

CONSTANTS
    Max,         \* fallback_max_bytes()
    Sizes,       \* lengths in bytes of the records the worker writes
    MaxWrites,   \* bound: calls of write_fallback
    MaxFaults    \* bound: failed system calls, crashes and outside deletions

ASSUME FallbackAssumption ==
    /\ Max \in Nat \ {0}
    /\ Sizes \subseteq Nat \ {0}
    /\ MaxWrites \in Nat
    /\ MaxFaults \in Nat

VARIABLES
    pc,        \* the step write_fallback is at, "idle" between calls
    size,      \* log_bytes.len() of the current (or latest) call
    result,    \* what the latest call returned; "none" while it runs
    exists,    \* logs.txt exists
    file,      \* its lines
    bytes,     \* its length, as fs::metadata reports it
    src,       \* lines of the opened logs.txt that trim has not read yet
    tmp,       \* lines of logs.tmp
    tmpBytes,  \* its length
    removed,   \* `removed` of trim_oldest_lines
    toFree,    \* `bytes_to_free` of trim_oldest_lines
    stream,    \* history: bytes appended to logs.txt since the beginning
    faulted,   \* history: a fault hit the current (or latest) call
    writes,    \* calls made (bounded by MaxWrites)
    faults     \* faults so far (bounded by MaxFaults)

disk   == <<exists, file, bytes>>
reader == <<src, removed, toFree>>
temp   == <<tmp, tmpBytes>>
vars   == <<pc, size, result, disk, reader, temp, stream, faulted, writes, faults>>

-----------------------------------------------------------------------------
(* Lines *)

Line == [from : Nat, to : Nat, nl : BOOLEAN, utf8 : BOOLEAN]

Length(line) == line.to - line.from

\* A file after n more bytes: they extend a line that has no '\n' yet.
Extended(lines, n, nl, utf8) ==
    IF lines # <<>> /\ ~lines[Len(lines)].nl
    THEN [lines EXCEPT ![Len(lines)] =
              [from |-> @.from, to |-> stream + n, nl |-> nl, utf8 |-> @.utf8 /\ utf8]]
    ELSE Append(lines, [from |-> stream, to |-> stream + n, nl |-> nl, utf8 |-> utf8])

-----------------------------------------------------------------------------
Init ==
    /\ pc = "idle" /\ size = 0 /\ result = "none"
    /\ exists = FALSE /\ file = <<>> /\ bytes = 0
    /\ src = <<>> /\ removed = 0 /\ toFree = 0
    /\ tmp = <<>> /\ tmpBytes = 0
    /\ stream = 0 /\ faulted = FALSE /\ writes = 0 /\ faults = 0

Return(r) == pc' = "idle" /\ result' = r

\* build_fallback_bytes, then the lock: the worker is the only caller, so the
\* lock is always free.  A record larger than the whole file is dropped and
\* the caller is told Ok.
Begin(n) ==
    /\ pc = "idle" /\ writes < MaxWrites
    /\ writes' = writes + 1 /\ size' = n /\ faulted' = FALSE
    /\ IF n > Max
       THEN Return("skipped")
       ELSE pc' = "ensure" /\ result' = "none"
    /\ UNCHANGED <<disk, reader, temp, stream, faults>>

\* Mutant: a log file that is missing is not created.
EnsureFileNoCreate ==
    /\ pc = "ensure" /\ pc' = "capacity"
    /\ UNCHANGED <<size, result, disk, reader, temp, stream, faulted, writes, faults>>

EnsureFile ==
    /\ pc = "ensure" /\ pc' = "capacity"
    /\ exists' = TRUE
    /\ UNCHANGED <<size, result, file, bytes, reader, temp, stream, faulted, writes, faults>>

\* Mutant: the record about to be written is not counted.
EnsureCapacityOfOldFile ==
    /\ pc = "capacity" /\ exists
    /\ IF bytes <= Max
       THEN pc' = "append" /\ UNCHANGED toFree
       ELSE pc' = "open" /\ toFree' = bytes - Max
    /\ UNCHANGED <<size, result, disk, src, removed, temp, stream, faulted, writes, faults>>

\* Mutant: frees the whole requirement, not its excess over the limit: no line
\* reaches it, so the trim renames an empty logs.tmp.
EnsureCapacityFreesAll ==
    /\ pc = "capacity" /\ exists
    /\ IF bytes + size <= Max
       THEN pc' = "append" /\ UNCHANGED toFree
       ELSE pc' = "open" /\ toFree' = bytes + size
    /\ UNCHANGED <<size, result, disk, src, removed, temp, stream, faulted, writes, faults>>

\* Mutant: the excess of the record alone (an unsigned subtraction below zero).
EnsureCapacityOfRecord ==
    /\ pc = "capacity" /\ exists
    /\ IF bytes + size <= Max
       THEN pc' = "append" /\ UNCHANGED toFree
       ELSE pc' = "open" /\ toFree' = size - Max
    /\ UNCHANGED <<size, result, disk, src, removed, temp, stream, faulted, writes, faults>>

EnsureCapacity ==
    /\ pc = "capacity" /\ exists
    /\ IF bytes + size <= Max
       THEN pc' = "append" /\ UNCHANGED toFree
       ELSE pc' = "open" /\ toFree' = bytes + size - Max
    /\ UNCHANGED <<size, result, disk, src, removed, temp, stream, faulted, writes, faults>>

\* Mutant: logs.tmp of an interrupted trim is opened without truncating it.
OpenFilesKeepTemp ==
    /\ pc = "open" /\ exists /\ pc' = "drop"
    /\ src' = file /\ removed' = 0
    /\ UNCHANGED <<size, result, disk, toFree, temp, stream, faulted, writes, faults>>

\* trim_oldest_lines opens logs.txt and truncates logs.tmp.
OpenFiles ==
    /\ pc = "open" /\ exists /\ pc' = "drop"
    /\ src' = file /\ removed' = 0
    /\ tmp' = <<>> /\ tmpBytes' = 0
    /\ UNCHANGED <<size, result, disk, toFree, stream, faulted, writes, faults>>

\* fs::metadata or File::open finds logs.txt gone since the previous step.
FileGone ==
    /\ pc \in {"capacity", "open"} /\ ~exists
    /\ Return("err")
    /\ UNCHANGED <<size, disk, reader, temp, stream, faulted, writes, faults>>

KeepLine ==
    /\ tmp' = Append(tmp, Head(src))
    /\ tmpBytes' = tmpBytes + Length(Head(src))

\* Mutant: the loop reads the same line again.
DropLineAgain ==
    /\ pc = "drop" /\ src # <<>> /\ Head(src).utf8
    /\ IF removed + Length(Head(src)) >= toFree
       THEN removed' = removed + Length(Head(src)) /\ pc' = "copy" /\ src' = Tail(src) /\ KeepLine
       ELSE UNCHANGED <<removed, pc, src, temp>>
    /\ UNCHANGED <<size, result, disk, toFree, stream, faulted, writes, faults>>

\* The first loop: count lines until bytes_to_free is reached; the line that
\* reaches it is written to the new file all the same.
DropLine ==
    /\ pc = "drop" /\ src # <<>> /\ Head(src).utf8
    /\ removed' = removed + Length(Head(src))
    /\ src' = Tail(src)
    /\ IF removed' >= toFree
       THEN pc' = "copy" /\ KeepLine
       ELSE UNCHANGED <<pc, temp>>
    /\ UNCHANGED <<size, result, disk, toFree, stream, faulted, writes, faults>>

\* The second loop: write the remaining lines.
CopyLine ==
    /\ pc = "copy" /\ src # <<>> /\ Head(src).utf8
    /\ src' = Tail(src) /\ KeepLine
    /\ UNCHANGED <<pc, size, result, disk, removed, toFree, stream, faulted, writes, faults>>

\* read_line refuses a line that is not UTF-8; logs.tmp stays behind.
ReadInvalidLine ==
    /\ pc \in {"drop", "copy"} /\ src # <<>> /\ ~Head(src).utf8
    /\ Return("err")
    /\ UNCHANGED <<size, disk, reader, temp, stream, faulted, writes, faults>>

\* End of file: flush logs.tmp and rename it over logs.txt.
Replace ==
    /\ pc \in {"drop", "copy"} /\ src = <<>> /\ pc' = "append"
    /\ exists' = TRUE /\ file' = tmp /\ bytes' = tmpBytes
    /\ tmp' = <<>> /\ tmpBytes' = 0
    /\ UNCHANGED <<size, result, reader, stream, faulted, writes, faults>>

\* open(create, append), then every byte of the record.
AppendRecord ==
    /\ pc = "append" /\ Return("ok")
    /\ exists' = TRUE
    /\ file' = Extended(file, size, TRUE, TRUE)
    /\ bytes' = bytes + size /\ stream' = stream + size
    /\ UNCHANGED <<size, reader, temp, faulted, writes, faults>>

-----------------------------------------------------------------------------
(* Faults *)

Fault == faults < MaxFaults /\ faults' = faults + 1 /\ faulted' = TRUE

\* A system call fails before it changes logs.txt: `?` returns the error.
IOError ==
    /\ pc # "idle" /\ Fault /\ Return("err")
    /\ UNCHANGED <<size, disk, reader, temp, stream, writes>>

\* write_all stores some bytes, then fails (the disk is full).  The cut may
\* fall inside a multi-byte character.
TornAppend(n, utf8) ==
    /\ pc = "append" /\ n < size /\ Fault /\ Return("err")
    /\ exists' = TRUE
    /\ file' = Extended(file, n, FALSE, utf8)
    /\ bytes' = bytes + n /\ stream' = stream + n
    /\ UNCHANGED <<size, reader, temp, writes>>

\* The process ends during a call and a new one starts; both files stay.
Crash ==
    /\ pc # "idle" /\ Fault /\ Return("none")
    /\ UNCHANGED <<size, disk, reader, temp, stream, writes>>

\* Somebody else removes logs.txt (rotation, clean-up).
DeleteFile ==
    /\ exists /\ Fault
    /\ exists' = FALSE /\ file' = <<>> /\ bytes' = 0
    /\ UNCHANGED <<pc, size, result, reader, temp, stream, writes>>

-----------------------------------------------------------------------------
\* The steps a running call takes by itself.
Step ==
    \/ EnsureFile \/ EnsureCapacity \/ OpenFiles \/ FileGone
    \/ DropLine \/ CopyLine \/ ReadInvalidLine \/ Replace \/ AppendRecord

Disturb ==
    \/ IOError \/ Crash \/ DeleteFile
    \/ \E n \in 1..Max, utf8 \in BOOLEAN : TornAppend(n, utf8)

Next == (\E n \in Sizes : Begin(n)) \/ Step \/ Disturb

Spec == Init /\ [][Next]_vars

\* The worker thread keeps running while the process does.
FairSpec == Spec /\ WF_vars(Step)

-----------------------------------------------------------------------------
(* Properties *)

Steps == {"idle", "ensure", "capacity", "open", "drop", "copy", "append"}

\* Every variable of write_fallback has its type.
TypeOK ==
    /\ pc \in Steps
    /\ size \in Nat
    /\ result \in {"none", "ok", "skipped", "err"}
    /\ exists \in BOOLEAN /\ file \in Seq(Line) /\ bytes \in Nat
    /\ src \in Seq(Line) /\ removed \in Nat /\ toFree \in Nat
    /\ tmp \in Seq(Line) /\ tmpBytes \in Nat
    /\ stream \in Nat /\ faulted \in BOOLEAN
    /\ writes \in 0..MaxWrites /\ faults \in 0..MaxFaults

\* Lines occupy adjacent ranges of the stream, up to offset `end`.
Contiguous(lines, end) ==
    /\ \A i \in 1..Len(lines) : lines[i].from < lines[i].to
    /\ \A i \in 1..Len(lines) - 1 : lines[i].to = lines[i+1].from /\ lines[i].nl
    /\ lines # <<>> => lines[Len(lines)].to = end

\* Whatever fails, is cut short or is interrupted, logs.txt is always the most
\* recent bytes written, with no gap, no duplicate and no reordering: trimming
\* (copy to logs.tmp, rename) only ever forgets a prefix.
NewestSuffix ==
    /\ Contiguous(file, stream)
    /\ bytes = IF file = <<>> THEN 0 ELSE stream - file[1].from

\* logs.txt exceeds its limit by at most the line trimming kept on top:
\* everything after its first line always fits (ensure_fallback_capacity).
AtMostOneLineOver ==
    file # <<>> => bytes - Length(file[1]) <= Max

\* Unless somebody removes logs.txt, a stored line is forgotten only in the
\* rename that ends a trim, and no line that would have fitted together with the
\* newer ones and the record being written; the newest line always stays.
ForgetsOnlyToMakeRoom ==
    [][ (exists' /\ file # <<>> /\ (file' = <<>> \/ file'[1].from > file[1].from)) =>
          /\ pc \in {"drop", "copy"} /\ file' # <<>>
          /\ \E k \in 1..Len(file) - 1 :
                /\ file[k].to = file'[1].from
                /\ bytes' + size + Length(file[k]) > Max ]_vars

\* write_fallback returns an error only because a fault hit this very call, or
\* because an earlier torn write left a line that is not UTF-8 in a file that
\* has no room for the record.
ErrorHasCause ==
    result = "err" =>
        \/ faulted
        \/ bytes + size > Max /\ \E i \in 1..Len(file) : ~file[i].utf8

\* A call of write_fallback ends: neither loop of trim_oldest_lines spins.
WriteReturns == pc # "idle" ~> pc = "idle"

-----------------------------------------------------------------------------
(* What the documentation says and the code does not do *)

\* "write one-line JSON to logs.txt (max 1GB, trimmed from the top)".
SizeWithinLimit == bytes <= Max

\* "write one-line JSON to logs.txt": a record stored with Ok is a line by itself.
StoredRecordIsOneLine ==
    result = "ok" /\ exists => file[Len(file)].from = stream - size

\* "logs are appended to logs.txt, trimming the oldest lines when the file would
\* exceed 1GB": a write nothing disturbs succeeds.
UndisturbedWriteSucceeds == result = "err" => faulted
=============================================================================
