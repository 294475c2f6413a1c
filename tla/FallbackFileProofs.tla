-------------------------- MODULE FallbackFileProofs --------------------------
(***************************************************************************)
(* For every limit, record size and number of writes and faults: the type  *)
(* invariant of FallbackFile, that logs.txt is the newest gap-free part of *)
(* what was written, that it exceeds its limit by its first line only, and *)
(* that a trim forgets no line that would have fitted.                     *)
(*                                                                         *)
(* None of the invariants is inductive.  The strengthening IInv follows a  *)
(* trim by offsets: it says where in the stream the reader and the new     *)
(* file are at each step of write_fallback.                                *)
(***************************************************************************)
EXTENDS FallbackFile, SequenceTheorems, TLAPS

\* The offset at which a run of lines that ends at `end` begins.
First(lines, end) == IF lines = <<>> THEN end ELSE lines[1].from

FileInv ==
    /\ Contiguous(file, stream)
    /\ bytes = stream - First(file, stream)
    /\ file # <<>> => stream - file[1].to <= Max

SizeInv == pc # "idle" => size > 0 /\ size <= Max

\* trim_oldest_lines is asked for exactly the excess.
OpenInv == pc = "open" => toFree > 0 /\ (exists => toFree = bytes + size - Max)

\* In the first loop the reader is `removed` bytes into the old contents.
DropInv ==
    pc = "drop" =>
        /\ removed < toFree
        /\ tmp = <<>> /\ tmpBytes = 0
        /\ Contiguous(src, stream)
        /\ First(src, stream) = stream + size - Max - toFree + removed

\* In the second loop the new file ends where the reader is, and what follows
\* its first line leaves room for the record.
CopyInv ==
    pc = "copy" =>
        /\ Contiguous(src, stream)
        /\ tmp # <<>> /\ Contiguous(tmp, First(src, stream))
        /\ src # <<>> => tmp[Len(tmp)].nl
        /\ tmpBytes = First(src, stream) - tmp[1].from
        /\ stream - tmp[1].to <= Max - size

AppendInv == pc = "append" /\ file # <<>> => stream - file[1].to <= Max - size

IInv ==
    /\ TypeOK
    /\ FileInv /\ SizeInv /\ OpenInv /\ DropInv /\ CopyInv /\ AppendInv

-----------------------------------------------------------------------------
LEMMA LineFields ==
    ASSUME NEW line \in Line
    PROVE  /\ line.from \in Nat /\ line.to \in Nat /\ line.nl \in BOOLEAN
           /\ Length(line) = line.to - line.from
           /\ line.from < line.to => Length(line) \in Nat \ {0}
BY DEF Line, Length

LEMMA FirstLine ==
    ASSUME NEW lines \in Seq(Line), lines # <<>>, NEW end, Contiguous(lines, end)
    PROVE  /\ lines[1] \in Line /\ lines[1].from \in Nat /\ lines[1].to \in Nat
           /\ lines[1].from < lines[1].to
           /\ First(lines, end) = lines[1].from
<1>1. Len(lines) \in Nat \ {0}
  BY EmptySeq
<1>2. lines[1] \in Line
  BY <1>1, ElementOfSeq
<1> QED BY <1>1, <1>2, LineFields DEF Contiguous, First

\* Reading a line moves the reader to the end of that line, and what is left is
\* still a gap-free run (BufReader::read_line in both loops of trim_oldest_lines).
LEMMA ReadLine ==
    ASSUME NEW lines \in Seq(Line), NEW end \in Nat,
           Contiguous(lines, end), lines # <<>>
    PROVE  /\ Tail(lines) \in Seq(Line)
           /\ Contiguous(Tail(lines), end)
           /\ Head(lines) = lines[1] /\ Head(lines) \in Line
           /\ Head(lines).from < Head(lines).to
           /\ First(Tail(lines), end) = Head(lines).to
           /\ Tail(lines) # <<>> => Head(lines).nl
<1>1. Len(lines) \in Nat \ {0}
  BY EmptySeq
<1>2. /\ Tail(lines) \in Seq(Line) /\ Len(Tail(lines)) = Len(lines) - 1
      /\ \A i \in 1..Len(Tail(lines)) : Tail(lines)[i] = lines[i+1]
  BY HeadTailProperties
<1>3. Head(lines) = lines[1] /\ Head(lines) \in Line
  BY HeadTailProperties
<1>4. lines[1].from < lines[1].to
  BY <1>1 DEF Contiguous
<1>5. Contiguous(Tail(lines), end)
  BY <1>1, <1>2 DEF Contiguous
<1>6. First(Tail(lines), end) = lines[1].to
  <2>1. CASE Tail(lines) = <<>>
    <3>1. Len(lines) = 1
      <4>1. Len(Tail(lines)) = 0
        BY <2>1, EmptySeq
      <4>2. Len(lines) - 1 = 0
        BY <1>2, <4>1, Zenon
      <4> QED BY <1>1, <4>2
    <3>2. lines[1].to = end
      BY <3>1 DEF Contiguous
    <3> QED BY <2>1, <3>2 DEF First
  <2>2. CASE Tail(lines) # <<>>
    BY <1>1, <1>2, <2>2, EmptySeq DEF Contiguous, First
  <2> QED BY <2>1, <2>2
<1>7. Tail(lines) # <<>> => lines[1].nl
  BY <1>1, <1>2, EmptySeq DEF Contiguous
<1> QED BY <1>2, <1>3, <1>4, <1>5, <1>6, <1>7

\* Writing a line at the end of a run that stops where the line begins.
LEMMA WriteLine ==
    ASSUME NEW lines \in Seq(Line), NEW end \in Nat, NEW line \in Line,
           Contiguous(lines, end), line.from = end, line.from < line.to,
           lines # <<>> => lines[Len(lines)].nl
    PROVE  /\ Append(lines, line) \in Seq(Line)
           /\ Append(lines, line) # <<>>
           /\ Contiguous(Append(lines, line), line.to)
           /\ Append(lines, line)[Len(Append(lines, line))] = line
           /\ Append(lines, line)[1] = IF lines = <<>> THEN line ELSE lines[1]
<1> DEFINE new == Append(lines, line)
<1>1. /\ new \in Seq(Line) /\ new # <<>> /\ Len(new) = Len(lines) + 1
      /\ \A i \in 1..Len(lines) : new[i] = lines[i]
      /\ new[Len(lines) + 1] = line
  BY AppendProperties
<1>2. Len(lines) \in Nat /\ (lines # <<>> => Len(lines) > 0) /\ (lines = <<>> => Len(lines) = 0)
  BY EmptySeq, LenProperties
<1>3. \A i \in 1..Len(new) : new[i].from < new[i].to
  BY <1>1, <1>2 DEF Contiguous
<1>4. \A i \in 1..Len(new) - 1 : new[i].to = new[i+1].from /\ new[i].nl
  BY <1>1, <1>2 DEF Contiguous
<1> QED BY <1>1, <1>2, <1>3, <1>4 DEF Contiguous

\* open(append) + write_all of n more bytes, complete or cut short.
LEMMA ExtendFile ==
    ASSUME NEW n \in Nat \ {0}, NEW nl \in BOOLEAN, NEW utf8 \in BOOLEAN,
           stream \in Nat, file \in Seq(Line), Contiguous(file, stream)
    PROVE  LET new == Extended(file, n, nl, utf8)
           IN  /\ new \in Seq(Line) /\ new # <<>>
               /\ Contiguous(new, stream + n)
               /\ new[1].from = First(file, stream)
               /\ new[1].to = stream + n \/ (file # <<>> /\ new[1].to = file[1].to)
<1> DEFINE new == Extended(file, n, nl, utf8)
<1>1. CASE file # <<>> /\ ~file[Len(file)].nl
  <2> DEFINE k    == Len(file)
             last == [from |-> file[k].from, to |-> stream + n,
                      nl |-> nl, utf8 |-> file[k].utf8 /\ utf8]
  <2>1. k \in Nat \ {0} /\ file[k] \in Line
    BY <1>1, EmptySeq, ElementOfSeq
  <2>2. last \in Line
    <3>1. file[k].from \in Nat /\ file[k].utf8 \in BOOLEAN
      BY <2>1 DEF Line
    <3>2. (file[k].utf8 /\ utf8) \in BOOLEAN
      OBVIOUS
    <3>3. stream + n \in Nat
      OBVIOUS
    <3> HIDE DEF k
    <3> QED BY <3>1, <3>2, <3>3 DEF Line
  <2>3. new = [file EXCEPT ![k] = last]
    BY <1>1 DEF Extended
  <2> HIDE DEF last, new
  <2>4. /\ new \in Seq(Line) /\ Len(new) = k
        /\ \A j \in 1..k : new[j] = IF j = k THEN last ELSE file[j]
    BY <2>1, <2>2, <2>3, ExceptSeq
  <2>5. last.from = file[k].from /\ last.to = stream + n /\ last.from < last.to
    <3>1. file[k].from < file[k].to /\ file[k].to = stream
      BY <1>1, <2>1 DEF Contiguous
    <3>2. file[k].from \in Nat
      BY <2>1 DEF Line
    <3> QED BY <3>1, <3>2 DEF last
  <2>6. new # <<>>
    BY <2>1, <2>4, EmptySeq
  <2>7. Contiguous(new, stream + n)
    <3>1. \A i \in 1..Len(new) : new[i].from < new[i].to
      BY <2>4, <2>5 DEF Contiguous
    <3>2. ASSUME NEW i \in 1..Len(new) - 1 PROVE new[i].to = new[i+1].from /\ new[i].nl
      <4> HIDE DEF k
      <4>1. i \in 1..k - 1 /\ i \in 1..k /\ i + 1 \in 1..k /\ i # k
        BY <2>1, <2>4
      <4>2. new[i] = file[i] /\ new[i+1].from = file[i+1].from
        BY <2>4, <2>5, <4>1
      <4>3. file[i].to = file[i+1].from /\ file[i].nl
        BY <4>1 DEF Contiguous, k
      <4> QED BY <4>2, <4>3
    <3>3. new[Len(new)].to = stream + n
      BY <2>1, <2>4, <2>5
    <3> QED BY <3>1, <3>2, <3>3 DEF Contiguous
  <2>8. new[1].from = file[1].from /\ (new[1].to = stream + n \/ new[1].to = file[1].to)
    BY <2>1, <2>4, <2>5
  <2> QED BY <1>1, <2>4, <2>6, <2>7, <2>8 DEF new, First
<1>2. CASE ~(file # <<>> /\ ~file[Len(file)].nl)
  <2> DEFINE line == [from |-> stream, to |-> stream + n, nl |-> nl, utf8 |-> utf8]
  <2>1. line \in Line /\ line.from = stream /\ line.to = stream + n /\ line.from < line.to
    BY DEF Line
  <2>2. new = Append(file, line)
    BY <1>2 DEF Extended
  <2>3. file # <<>> => file[Len(file)].nl
    <3>1. ASSUME file # <<>> PROVE file[Len(file)] \in Line
      BY <3>1, EmptySeq, ElementOfSeq
    <3> QED BY <1>2, <3>1 DEF Line
  <2> HIDE DEF line, new
  <2>4. /\ new \in Seq(Line) /\ new # <<>> /\ Contiguous(new, line.to)
        /\ new[1] = IF file = <<>> THEN line ELSE file[1]
    BY <2>1, <2>2, <2>3, WriteLine
  <2> QED BY <2>1, <2>4 DEF new, First
<1> QED BY <1>1, <1>2
-----------------------------------------------------------------------------
LEMMA InitInv == Init => IInv
<1> SUFFICES ASSUME Init PROVE IInv
  OBVIOUS
<1> USE FallbackAssumption
<1>1. TypeOK
  <2>1. <<>> \in Seq(Line)
    BY EmptySeq
  <2>2. exists \in BOOLEAN /\ faulted \in BOOLEAN
    BY DEF Init
  <2> QED BY <2>1, <2>2 DEF Init, TypeOK, Steps
<1>2. FileInv
  <2>1. Len(file) = 0
    BY EmptySeq DEF Init
  <2> QED BY <2>1 DEF Init, FileInv, Contiguous, First
<1>3. SizeInv /\ OpenInv /\ DropInv /\ CopyInv /\ AppendInv
  BY DEF Init, SizeInv, OpenInv, DropInv, CopyInv, AppendInv
<1> QED BY <1>1, <1>2, <1>3 DEF IInv

\* The actions before and between the loops of trim_oldest_lines.
LEMMA StepBegin == ASSUME IInv, NEW n \in Sizes, Begin(n) PROVE IInv'
<1> USE FallbackAssumption
<1>1. TypeOK'
  <2>1. pc' \in Steps /\ result' \in {"none", "ok", "skipped", "err"}
    BY DEF Begin, Return, Steps
  <2>2. faulted' \in BOOLEAN
    BY DEF Begin
  <2>3. size' \in Nat
    BY DEF Begin
  <2>4. writes' \in 0..MaxWrites
    BY DEF IInv, TypeOK, Begin
  <2> QED BY <2>1, <2>2, <2>3, <2>4 DEF IInv, TypeOK, Begin, disk, reader, temp
<1>2. FileInv' /\ OpenInv' /\ DropInv' /\ CopyInv' /\ AppendInv'
  BY DEF IInv, FileInv, OpenInv, DropInv, CopyInv, AppendInv, Contiguous, First,
         Begin, Return, disk, reader, temp
<1>3. SizeInv'
  BY DEF IInv, SizeInv, Begin, Return
<1> QED BY <1>1, <1>2, <1>3 DEF IInv

LEMMA StepEnsureFile == ASSUME IInv, EnsureFile PROVE IInv'
<1>1. TypeOK'
  BY DEF IInv, TypeOK, Steps, EnsureFile, reader, temp
<1>2. FileInv' /\ SizeInv' /\ OpenInv' /\ DropInv' /\ CopyInv' /\ AppendInv'
  BY DEF IInv, FileInv, SizeInv, OpenInv, DropInv, CopyInv, AppendInv, Contiguous, First,
         EnsureFile, reader, temp
<1> QED BY <1>1, <1>2 DEF IInv

LEMMA StepEnsureCapacity == ASSUME IInv, EnsureCapacity PROVE IInv'
<1> USE FallbackAssumption
<1>1. TypeOK'
  BY DEF IInv, TypeOK, Steps, EnsureCapacity, disk, temp
<1>2. FileInv' /\ SizeInv' /\ DropInv' /\ CopyInv'
  BY DEF IInv, FileInv, SizeInv, DropInv, CopyInv, Contiguous, First,
         EnsureCapacity, disk, temp
<1>3. OpenInv'
  BY DEF IInv, TypeOK, OpenInv, EnsureCapacity, disk
<1>4. AppendInv'
  <2> SUFFICES ASSUME pc' = "append", file # <<>>
               PROVE  stream - file[1].to <= Max - size
    BY DEF AppendInv, EnsureCapacity, disk
  <2>1. bytes + size <= Max /\ bytes = stream - file[1].from
    BY DEF IInv, FileInv, First, EnsureCapacity
  <2>2. file[1].from \in Nat /\ file[1].to \in Nat /\ file[1].from < file[1].to
    BY FirstLine DEF IInv, TypeOK, FileInv
  <2>3. stream \in Nat /\ bytes \in Nat /\ size \in Nat /\ Max \in Nat
    BY DEF IInv, TypeOK
  <2> QED BY ONLY <2>1, <2>2, <2>3
<1> QED BY <1>1, <1>2, <1>3, <1>4 DEF IInv

LEMMA StepOpenFiles == ASSUME IInv, OpenFiles PROVE IInv'
<1> USE FallbackAssumption
<1>1. TypeOK'
  BY DEF IInv, TypeOK, Steps, OpenFiles, disk
<1>2. FileInv' /\ SizeInv' /\ OpenInv' /\ CopyInv' /\ AppendInv'
  BY DEF IInv, FileInv, SizeInv, OpenInv, CopyInv, AppendInv, Contiguous, First,
         OpenFiles, disk
<1>3. DropInv'
  <2>1. bytes = stream - First(file, stream) /\ Contiguous(file, stream)
    BY DEF IInv, FileInv
  <2>2. toFree > 0 /\ toFree = bytes + size - Max
    BY DEF IInv, OpenInv, OpenFiles
  <2>3. First(file, stream) \in Int
    BY <2>1, FirstLine DEF IInv, TypeOK, First
  <2>4. /\ removed' = 0 /\ src' = file /\ tmp' = <<>> /\ tmpBytes' = 0
        /\ UNCHANGED <<stream, toFree, size>>
    BY DEF OpenFiles
  <2>5. First(src, stream)' = First(file, stream) /\ Contiguous(src, stream)'
    BY <2>1, <2>4 DEF First, Contiguous
  <2>6. First(file, stream) = stream + size - Max - toFree
    <3>1. stream \in Nat /\ size \in Nat /\ toFree \in Nat /\ Max \in Nat
      BY DEF IInv, TypeOK
    <3> QED BY <2>1, <2>2, <2>3, <3>1
  <2> QED BY <2>2, <2>4, <2>5, <2>6 DEF DropInv, IInv, TypeOK
<1> QED BY <1>1, <1>2, <1>3 DEF IInv

\* A call that returns without touching either file.
LEMMA StepReturn ==
    ASSUME IInv, pc' = "idle", result' \in {"none", "err"},
           UNCHANGED <<size, disk, reader, temp, stream, writes>>,
           faulted' \in BOOLEAN, faults' \in 0..MaxFaults
    PROVE  IInv'
<1>1. TypeOK'
  BY DEF IInv, TypeOK, Steps, disk, reader, temp
<1>2. FileInv' /\ SizeInv' /\ OpenInv' /\ DropInv' /\ CopyInv' /\ AppendInv'
  BY DEF IInv, FileInv, SizeInv, OpenInv, DropInv, CopyInv, AppendInv, Contiguous, First,
         disk, reader, temp
<1> QED BY <1>1, <1>2 DEF IInv
-----------------------------------------------------------------------------
\* The loops of trim_oldest_lines.
LEMMA StepDropLine == ASSUME IInv, DropLine PROVE IInv'
<1> USE FallbackAssumption
<1> DEFINE line == Head(src)
<1>1. /\ pc = "drop" /\ src # <<>>
      /\ src' = Tail(src) /\ removed' = removed + Length(line)
      /\ UNCHANGED <<size, result, disk, toFree, stream, faulted, writes, faults>>
  BY DEF DropLine
<1>2. /\ src \in Seq(Line) /\ stream \in Nat /\ Contiguous(src, stream)
      /\ tmp = <<>> /\ tmpBytes = 0
      /\ First(src, stream) = stream + size - Max - toFree + removed
  BY <1>1 DEF IInv, TypeOK, DropInv
<1>3. /\ src' \in Seq(Line) /\ Contiguous(src', stream)
      /\ line = src[1] /\ line \in Line /\ line.from < line.to
      /\ First(src', stream) = line.to
      /\ src' # <<>> => line.nl
  BY <1>1, <1>2, ReadLine
<1> HIDE DEF line
<1>4. /\ line.from \in Nat /\ line.to \in Nat
      /\ Length(line) = line.to - line.from /\ Length(line) \in Nat
      /\ line.from = First(src, stream)
  BY <1>1, <1>3, LineFields DEF First
<1>5. removed' \in Nat /\ line.to = stream + size - Max - toFree + removed'
  <2>1. stream \in Nat /\ size \in Nat /\ toFree \in Nat /\ removed \in Nat /\ Max \in Nat
    BY DEF IInv, TypeOK
  <2> QED BY <1>1, <1>2, <1>4, <2>1
<1>6. FileInv' /\ SizeInv' /\ OpenInv' /\ AppendInv'
  BY <1>1 DEF IInv, FileInv, SizeInv, OpenInv, AppendInv, Contiguous, First, DropLine, disk
<1>7. CASE removed' >= toFree
  <2>1. pc' = "copy" /\ tmp' = Append(tmp, line) /\ tmpBytes' = Length(line)
    BY <1>2, <1>4, <1>7 DEF DropLine, KeepLine, line
  <2>2. Contiguous(tmp, line.from)
    <3>1. Len(tmp) = 0
      BY <1>2, EmptySeq
    <3> QED BY <1>2, <3>1 DEF Contiguous
  <2>3. /\ tmp' \in Seq(Line) /\ tmp' # <<>> /\ Contiguous(tmp', line.to)
        /\ tmp'[Len(tmp')] = line /\ tmp'[1] = line
    <3> DEFINE new == Append(tmp, line)
    <3>1. tmp \in Seq(Line)
      BY DEF IInv, TypeOK
    <3>2. /\ new \in Seq(Line) /\ new # <<>> /\ Contiguous(new, line.to)
          /\ new[Len(new)] = line /\ new[1] = line
      <4>1. line \in Line /\ line.from \in Nat /\ line.from < line.to /\ tmp = <<>>
        BY <1>2, <1>3, <1>4
      <4> QED BY <2>2, <3>1, <4>1, WriteLine, ZenonT(60)
    <3> QED BY <2>1, <3>2
  <2>4. TypeOK'
    BY <1>1, <1>3, <1>4, <1>5, <2>1, <2>3 DEF IInv, TypeOK, Steps, disk
  <2>5. stream - line.to <= Max - size
    BY <1>1, <1>4, <1>5, <1>7, SMTT(20) DEF IInv, TypeOK
  <2>6. CopyInv'
    BY <1>1, <1>3, <1>4, <2>1, <2>3, <2>5 DEF CopyInv
  <2>7. DropInv'
    BY <2>1 DEF DropInv
  <2> QED BY <1>6, <2>4, <2>6, <2>7 DEF IInv
<1>8. CASE ~(removed' >= toFree)
  <2>1. UNCHANGED <<pc, tmp, tmpBytes>>
    BY <1>8 DEF DropLine, temp
  <2>2. TypeOK'
    BY <1>1, <1>3, <1>5, <2>1 DEF IInv, TypeOK, disk
  <2>3. DropInv'
    BY <1>1, <1>2, <1>3, <1>5, <1>8, <2>1, SMTT(20) DEF DropInv, IInv, TypeOK
  <2>4. CopyInv'
    BY <1>1, <2>1 DEF CopyInv
  <2> QED BY <1>6, <2>2, <2>3, <2>4 DEF IInv
<1> QED BY <1>7, <1>8

LEMMA StepCopyLine == ASSUME IInv, CopyLine PROVE IInv'
<1> USE FallbackAssumption
<1> DEFINE line == Head(src)
<1>1. /\ pc = "copy" /\ src # <<>> /\ pc' = pc
      /\ src' = Tail(src) /\ tmp' = Append(tmp, line) /\ tmpBytes' = tmpBytes + Length(line)
      /\ UNCHANGED <<size, result, disk, removed, toFree, stream, faulted, writes, faults>>
  BY DEF CopyLine, KeepLine
<1>2. /\ src \in Seq(Line) /\ tmp \in Seq(Line) /\ stream \in Nat /\ Contiguous(src, stream)
      /\ tmp # <<>> /\ Contiguous(tmp, First(src, stream)) /\ tmp[Len(tmp)].nl
      /\ tmpBytes = First(src, stream) - tmp[1].from
      /\ stream - tmp[1].to <= Max - size
  BY <1>1 DEF IInv, TypeOK, CopyInv
<1>3. /\ src' \in Seq(Line) /\ Contiguous(src', stream)
      /\ line = src[1] /\ line \in Line /\ line.from < line.to
      /\ First(src', stream) = line.to
      /\ src' # <<>> => line.nl
  BY <1>1, <1>2, ReadLine
<1> HIDE DEF line
<1>4. /\ line.from \in Nat /\ line.to \in Nat
      /\ Length(line) = line.to - line.from /\ Length(line) \in Nat
      /\ line.from = First(src, stream)
  BY <1>1, <1>3, LineFields DEF First
<1>5. /\ tmp' \in Seq(Line) /\ tmp' # <<>> /\ Contiguous(tmp', line.to)
      /\ tmp'[Len(tmp')] = line /\ tmp'[1] = tmp[1]
  <2> DEFINE new == Append(tmp, line)
  <2>1. line \in Line /\ line.from \in Nat /\ line.from < line.to
    BY <1>3, <1>4
  <2>2. tmp \in Seq(Line) /\ tmp # <<>> /\ Contiguous(tmp, line.from) /\ tmp[Len(tmp)].nl
    BY <1>2, <1>4
  <2>3. /\ new \in Seq(Line) /\ new # <<>> /\ Contiguous(new, line.to)
        /\ new[Len(new)] = line /\ new[1] = tmp[1]
    BY <2>1, <2>2, WriteLine
  <2> QED BY <1>1, <2>3
<1>6. tmp[1].from \in Nat
  BY <1>2, FirstLine
<1>7. TypeOK'
  BY <1>1, <1>3, <1>4, <1>5, SMTT(20) DEF IInv, TypeOK, disk
<1>8. CopyInv'
  <2>1. tmpBytes' = line.to - tmp[1].from
    <3>1. tmpBytes = line.from - tmp[1].from
      BY <1>2, <1>4
    <3>2. tmpBytes' = tmpBytes + (line.to - line.from)
      BY <1>1, <1>4
    <3> QED BY <1>4, <1>6, <3>1, <3>2
  <2>2. First(src', stream) = First(src, stream)' /\ Contiguous(src', stream) = Contiguous(src, stream)'
    BY <1>1 DEF First, Contiguous
  <2> QED BY <1>1, <1>2, <1>3, <1>5, <2>1, <2>2 DEF CopyInv
<1>9. FileInv' /\ SizeInv' /\ OpenInv' /\ AppendInv' /\ DropInv'
  BY <1>1 DEF IInv, FileInv, SizeInv, OpenInv, AppendInv, DropInv, Contiguous, First, disk
<1> QED BY <1>7, <1>8, <1>9 DEF IInv

\* The first loop always finds the line that reaches bytes_to_free, so logs.tmp
\* is never renamed empty.
LEMMA LoopFindsLine == ASSUME IInv, pc \in {"drop", "copy"}, src = <<>> PROVE pc = "copy"
<1> SUFFICES ASSUME pc = "drop" PROVE FALSE
  OBVIOUS
<1>1. First(src, stream) = stream
  BY DEF First
<1>2. removed < toFree /\ stream = stream + size - Max - toFree + removed /\ size <= Max
  BY <1>1 DEF IInv, DropInv, SizeInv
<1> QED BY <1>2, FallbackAssumption DEF IInv, TypeOK

LEMMA StepReplace == ASSUME IInv, Replace PROVE IInv'
<1> USE FallbackAssumption
<1>1. /\ pc \in {"drop", "copy"} /\ src = <<>> /\ pc' = "append"
      /\ exists' = TRUE /\ file' = tmp /\ bytes' = tmpBytes /\ tmp' = <<>> /\ tmpBytes' = 0
      /\ UNCHANGED <<size, result, src, removed, toFree, stream, faulted, writes, faults>>
  BY DEF Replace, reader
<1>2. First(src, stream) = stream
  BY <1>1 DEF First
<1>3. pc = "copy"
  BY <1>1, LoopFindsLine
<1>4. /\ tmp # <<>> /\ Contiguous(tmp, stream) /\ tmpBytes = stream - tmp[1].from
      /\ stream - tmp[1].to <= Max - size
  BY <1>2, <1>3 DEF IInv, CopyInv
<1>5. TypeOK'
  <2>1. <<>> \in Seq(Line)
    BY EmptySeq
  <2> QED BY <1>1, <2>1 DEF IInv, TypeOK, Steps
<1>6. FileInv'
  <2>1. tmp[1].to \in Nat
    BY <1>4, FirstLine DEF IInv, TypeOK
  <2>2. stream - tmp[1].to <= Max
    BY <1>4, <2>1 DEF IInv, TypeOK
  <2> QED BY <1>1, <1>4, <2>2 DEF FileInv, First
<1>7. SizeInv' /\ OpenInv' /\ DropInv' /\ CopyInv' /\ AppendInv'
  BY <1>1, <1>4 DEF IInv, SizeInv, OpenInv, DropInv, CopyInv, AppendInv
<1> QED BY <1>5, <1>6, <1>7 DEF IInv
-----------------------------------------------------------------------------
\* write_all, complete or cut short: n more bytes at the end of logs.txt.
LEMMA StepExtend ==
    ASSUME IInv, pc = "append", pc' = "idle", NEW n \in 1..size,
           NEW nl \in BOOLEAN, NEW utf8 \in BOOLEAN,
           result' \in {"ok", "err"}, exists' = TRUE,
           file' = Extended(file, n, nl, utf8),
           bytes' = bytes + n, stream' = stream + n,
           UNCHANGED <<size, reader, temp, writes>>,
           faulted' \in BOOLEAN, faults' \in 0..MaxFaults
    PROVE  IInv'
<1> USE FallbackAssumption
<1>1. /\ file \in Seq(Line) /\ stream \in Nat /\ bytes \in Nat /\ size \in Nat
      /\ n \in Nat \ {0} /\ n <= size /\ Max \in Nat
  BY DEF IInv, TypeOK
<1>2. /\ Contiguous(file, stream) /\ bytes = stream - First(file, stream)
      /\ file # <<>> => stream - file[1].to <= Max - size
  BY DEF IInv, FileInv, AppendInv
<1>3. /\ file' \in Seq(Line) /\ file' # <<>> /\ Contiguous(file', stream + n)
      /\ file'[1].from = First(file, stream)
      /\ file'[1].to = stream + n \/ (file # <<>> /\ file'[1].to = file[1].to)
  <2> DEFINE new == Extended(file, n, nl, utf8)
  <2>1. /\ new \in Seq(Line) /\ new # <<>> /\ Contiguous(new, stream + n)
        /\ new[1].from = First(file, stream)
        /\ new[1].to = stream + n \/ (file # <<>> /\ new[1].to = file[1].to)
    BY <1>1, <1>2, ExtendFile
  <2> QED BY <2>1
<1>4. TypeOK'
  <2>1. exists' \in BOOLEAN
    OBVIOUS
  <2>2. bytes' \in Nat /\ stream' \in Nat
    BY <1>1
  <2> QED BY <1>3, <2>1, <2>2 DEF IInv, TypeOK, Steps, reader, temp
<1>5. FileInv'
  <2>1. bytes' = (stream + n) - file'[1].from
    <3>1. file'[1].from \in Nat
      BY <1>3, FirstLine
    <3>2. bytes = stream - file'[1].from
      BY <1>2, <1>3
    <3> QED BY <1>1, <3>1, <3>2
  <2>2. (stream + n) - file'[1].to <= Max
    <3>1. CASE file'[1].to = stream + n
      BY <1>1, <3>1
    <3>2. CASE file # <<>> /\ file'[1].to = file[1].to
      <4>1. file[1].to \in Nat
        BY <1>1, <1>2, <3>2, FirstLine
      <4> QED BY <1>1, <1>2, <3>2, <4>1, SMTT(20)
    <3> QED BY <1>3, <3>1, <3>2
  <2> QED BY <1>3, <2>1, <2>2 DEF FileInv, First
<1>6. SizeInv' /\ OpenInv' /\ DropInv' /\ CopyInv' /\ AppendInv'
  BY DEF SizeInv, OpenInv, DropInv, CopyInv, AppendInv
<1> QED BY <1>4, <1>5, <1>6 DEF IInv

\* Nothing a trim in progress relies on is on the file that is removed.
LEMMA StepDeleteFile == ASSUME IInv, DeleteFile PROVE IInv'
<1> USE FallbackAssumption
<1>1. file' = <<>> /\ bytes' = 0 /\ exists' = FALSE /\ faulted' = TRUE
      /\ UNCHANGED <<pc, size, result, src, removed, toFree, tmp, tmpBytes, stream, writes>>
  BY DEF DeleteFile, Fault, reader, temp
<1>2. <<>> \in Seq(Line) /\ Len(<<>>) = 0
  BY EmptySeq
<1>3. TypeOK'
  <2>1. exists' \in BOOLEAN /\ faulted' \in BOOLEAN
    BY <1>1
  <2>2. faults' \in 0..MaxFaults
    BY DEF IInv, TypeOK, DeleteFile, Fault
  <2> QED BY <1>1, <1>2, <2>1, <2>2 DEF IInv, TypeOK
<1>4. FileInv'
  <2>1. stream \in Nat
    BY DEF IInv, TypeOK
  <2> QED BY <1>1, <1>2, <2>1 DEF FileInv, Contiguous, First
<1>5. SizeInv' /\ AppendInv'
  BY <1>1 DEF IInv, SizeInv, AppendInv
<1>6. OpenInv'
  BY <1>1 DEF IInv, OpenInv
<1>7. DropInv' /\ CopyInv'
  BY <1>1 DEF IInv, DropInv, CopyInv, Contiguous, First
<1> QED BY <1>3, <1>4, <1>5, <1>6, <1>7 DEF IInv

LEMMA FaultTypes ==
    ASSUME IInv, Fault
    PROVE  faulted' \in BOOLEAN /\ faults' \in 0..MaxFaults
<1>1. faulted' \in BOOLEAN
  BY DEF Fault
<1>2. faults' \in 0..MaxFaults
  BY FallbackAssumption DEF IInv, TypeOK, Fault
<1> QED BY <1>1, <1>2

LEMMA NextInv == IInv /\ [Next]_vars => IInv'
<1> SUFFICES ASSUME IInv, [Next]_vars PROVE IInv'
  OBVIOUS
<1> USE FallbackAssumption
<1>1. ASSUME NEW n \in Sizes, Begin(n) PROVE IInv'
  BY <1>1, StepBegin
<1>2. CASE EnsureFile
  BY <1>2, StepEnsureFile
<1>3. CASE EnsureCapacity
  BY <1>3, StepEnsureCapacity
<1>4. CASE OpenFiles
  BY <1>4, StepOpenFiles
<1>5. ASSUME FileGone \/ ReadInvalidLine PROVE IInv'
  <2>1. /\ pc' = "idle" /\ result' \in {"none", "err"}
        /\ UNCHANGED <<size, disk, reader, temp, stream, writes>>
    BY <1>5 DEF FileGone, ReadInvalidLine, Return
  <2>2. faulted' \in BOOLEAN /\ faults' \in 0..MaxFaults
    BY <1>5 DEF IInv, TypeOK, FileGone, ReadInvalidLine
  <2> QED BY <2>1, <2>2, StepReturn
<1>6. CASE DropLine
  BY <1>6, StepDropLine
<1>7. CASE CopyLine
  BY <1>7, StepCopyLine
<1>8. CASE Replace
  BY <1>8, StepReplace
<1>9. CASE AppendRecord
  <2>1. size \in 1..size
    BY <1>9 DEF IInv, TypeOK, SizeInv, AppendRecord
  <2>2. faulted' \in BOOLEAN /\ faults' \in 0..MaxFaults
    BY <1>9 DEF IInv, TypeOK, AppendRecord
  <2>3. /\ pc = "append" /\ pc' = "idle" /\ result' \in {"ok", "err"} /\ exists' = TRUE
        /\ file' = Extended(file, size, TRUE, TRUE)
        /\ bytes' = bytes + size /\ stream' = stream + size
        /\ UNCHANGED <<size, reader, temp, writes>>
    BY <1>9 DEF AppendRecord, Return
  <2> QED BY <2>1, <2>2, <2>3, StepExtend
<1>10. ASSUME IOError \/ Crash PROVE IInv'
  <2>1. /\ pc' = "idle" /\ result' \in {"none", "err"}
        /\ UNCHANGED <<size, disk, reader, temp, stream, writes>>
    BY <1>10 DEF IOError, Crash, Return
  <2>2. faulted' \in BOOLEAN /\ faults' \in 0..MaxFaults
    BY <1>10, FaultTypes DEF IOError, Crash
  <2> QED BY <2>1, <2>2, StepReturn
<1>11. ASSUME NEW n \in 1..Max, NEW utf8 \in BOOLEAN, TornAppend(n, utf8) PROVE IInv'
  <2>1. n \in 1..size
    BY <1>11 DEF IInv, TypeOK, TornAppend
  <2>2. faulted' \in BOOLEAN /\ faults' \in 0..MaxFaults
    BY <1>11, FaultTypes DEF TornAppend
  <2>3. /\ pc = "append" /\ pc' = "idle" /\ result' \in {"ok", "err"} /\ exists' = TRUE
        /\ file' = Extended(file, n, FALSE, utf8)
        /\ bytes' = bytes + n /\ stream' = stream + n
        /\ UNCHANGED <<size, reader, temp, writes>>
    BY <1>11 DEF TornAppend, Return
  <2> QED BY <2>1, <2>2, <2>3, StepExtend
<1>12. CASE DeleteFile
  BY <1>12, StepDeleteFile
<1>13. CASE UNCHANGED vars
  BY <1>13 DEF vars, disk, reader, temp, IInv, TypeOK, FileInv, SizeInv, OpenInv, DropInv,
               CopyInv, AppendInv, Contiguous, First
<1> QED BY <1>1, <1>2, <1>3, <1>4, <1>5, <1>6, <1>7, <1>8, <1>9, <1>10, <1>11, <1>12, <1>13
        DEF Next, Step, Disturb

LEMMA Inductive == Spec => []IInv
BY InitInv, NextInv, PTL DEF Spec

-----------------------------------------------------------------------------
\* Every variable of write_fallback keeps its type, for every limit and load.
THEOREM TypeCorrect == Spec => []TypeOK
<1>1. IInv => TypeOK
  BY DEF IInv
<1> QED BY <1>1, Inductive, PTL

\* logs.txt is the newest gap-free run of the bytes written, whatever system
\* calls fail and wherever the process stops.
THEOREM FileIsNewestSuffix == Spec => []NewestSuffix
<1>1. IInv => NewestSuffix
  BY DEF IInv, TypeOK, FileInv, NewestSuffix, First
<1> QED BY <1>1, Inductive, PTL

\* What follows the first line of logs.txt fits the limit, whatever system calls
\* fail and however long that line is.
THEOREM OverBySingleLine == Spec => []AtMostOneLineOver
<1>1. IInv => AtMostOneLineOver
  <2> SUFFICES ASSUME IInv, file # <<>> PROVE bytes - Length(file[1]) <= Max
    BY DEF AtMostOneLineOver
  <2>1. /\ file \in Seq(Line) /\ stream \in Nat /\ Contiguous(file, stream)
        /\ bytes = stream - First(file, stream) /\ stream - file[1].to <= Max
    BY DEF IInv, TypeOK, FileInv
  <2>2. /\ file[1].from \in Nat /\ file[1].to \in Nat
        /\ bytes = stream - file[1].from /\ Length(file[1]) = file[1].to - file[1].from
    BY <2>1, FirstLine, LineFields
  <2> QED BY <2>1, <2>2, FallbackAssumption
<1> QED BY <1>1, Inductive, PTL

-----------------------------------------------------------------------------
(* What a trim forgets *)

\* Unless logs.txt was removed meanwhile, a trim reads its lines and no others.
ReadInv ==
    pc \in {"drop", "copy"} /\ file # <<>> =>
        \A i \in 1..Len(src) : \E k \in 1..Len(file) : src[i] = file[k]

\* The line kept on top is one of them, and without the lines before it there was
\* still no room for the record.
KeepInv ==
    pc = "copy" =>
        /\ (stream - tmp[1].from) + size > Max
        /\ file # <<>> => \E k \in 1..Len(file) : tmp[1] = file[k]

RoomInv == IInv /\ ReadInv /\ KeepInv

LEMMA InitRoom == Init => RoomInv
BY InitInv DEF Init, RoomInv, ReadInv, KeepInv

LEMMA RoomDropLine == ASSUME RoomInv, DropLine PROVE ReadInv' /\ KeepInv'
<1> USE FallbackAssumption
<1> DEFINE line == Head(src)
<1>1. /\ pc = "drop" /\ src # <<>> /\ src' = Tail(src)
      /\ UNCHANGED <<file, stream, size, toFree>>
  BY DEF DropLine, disk
<1>2. /\ src \in Seq(Line) /\ stream \in Nat /\ Contiguous(src, stream)
      /\ tmp = <<>> /\ removed < toFree
      /\ First(src, stream) = stream + size - Max - toFree + removed
  BY <1>1 DEF RoomInv, IInv, TypeOK, DropInv
<1>3. /\ line = src[1] /\ line \in Line
      /\ Len(Tail(src)) = Len(src) - 1 /\ Len(src) \in Nat \ {0}
      /\ \A i \in 1..Len(Tail(src)) : Tail(src)[i] = src[i+1]
  BY <1>1, <1>2, HeadTailProperties, EmptySeq
<1>4. file # <<>> => \A i \in 1..Len(src) : \E k \in 1..Len(file) : src[i] = file[k]
  BY <1>1 DEF RoomInv, ReadInv
<1>5. ReadInv'
  <2> DEFINE rest == Tail(src)
  <2>1. \A i \in 1..Len(rest) : rest[i] = src[i+1] /\ i + 1 \in 1..Len(src)
    BY <1>3
  <2> HIDE DEF rest
  <2>2. file # <<>> => \A i \in 1..Len(rest) : \E k \in 1..Len(file) : rest[i] = file[k]
    BY <1>4, <2>1
  <2> QED BY <1>1, <2>2 DEF ReadInv, rest
<1>6. KeepInv'
  <2> SUFFICES ASSUME pc' = "copy" PROVE KeepInv'
    BY DEF KeepInv
  <2> HIDE DEF line
  <2>1. tmp' = Append(tmp, line)
    BY <1>1 DEF DropLine, KeepLine, line
  <2>2. tmp'[1] = line
    <3>1. <<>> \in Seq(Line) /\ Len(<<>>) = 0
      BY EmptySeq
    <3>2. Append(<<>>, line)[Len(<<>>) + 1] = line
      BY <1>3, <3>1, AppendProperties
    <3> QED BY <1>2, <2>1, <3>1, <3>2
  <2>3. line.from = First(src, stream) /\ line.from \in Nat
    BY <1>1, <1>3, LineFields DEF First
  <2>4. stream \in Nat /\ size \in Nat /\ toFree \in Nat /\ removed \in Nat /\ Max \in Nat
    BY DEF RoomInv, IInv, TypeOK
  <2>5. (stream - line.from) + size > Max
    BY <1>2, <2>3, <2>4
  <2>6. file # <<>> => \E k \in 1..Len(file) : line = file[k]
    BY <1>3, <1>4
  <2> QED BY <1>1, <2>2, <2>5, <2>6 DEF KeepInv
<1> QED BY <1>5, <1>6

LEMMA RoomCopyLine == ASSUME RoomInv, CopyLine PROVE ReadInv' /\ KeepInv'
<1>1. /\ pc = "copy" /\ src # <<>> /\ src' = Tail(src) /\ tmp' = Append(tmp, Head(src))
      /\ UNCHANGED <<pc, file, stream, size>>
  BY DEF CopyLine, KeepLine, disk
<1>2. src \in Seq(Line) /\ tmp \in Seq(Line) /\ tmp # <<>>
  BY <1>1 DEF RoomInv, IInv, TypeOK, CopyInv
<1>3. /\ Head(src) \in Line
      /\ Len(Tail(src)) = Len(src) - 1 /\ Len(src) \in Nat \ {0}
      /\ \A i \in 1..Len(Tail(src)) : Tail(src)[i] = src[i+1]
  BY <1>1, <1>2, HeadTailProperties, EmptySeq
<1>4. tmp'[1] = tmp[1]
  <2>1. Len(tmp) \in Nat \ {0}
    BY <1>2, EmptySeq
  <2> DEFINE line == Head(src)
  <2> HIDE DEF line
  <2>2. Append(tmp, line)[1] = tmp[1]
    BY <1>2, <1>3, <2>1, AppendProperties DEF line
  <2> QED BY <1>1, <2>2 DEF line
<1>5. ReadInv'
  <2> DEFINE rest == Tail(src)
  <2>1. \A i \in 1..Len(rest) : rest[i] = src[i+1] /\ i + 1 \in 1..Len(src)
    BY <1>3
  <2> HIDE DEF rest
  <2>2. file # <<>> => \A i \in 1..Len(src) : \E k \in 1..Len(file) : src[i] = file[k]
    BY <1>1 DEF RoomInv, ReadInv
  <2>3. file # <<>> => \A i \in 1..Len(rest) : \E k \in 1..Len(file) : rest[i] = file[k]
    BY <2>1, <2>2
  <2> QED BY <1>1, <2>3 DEF ReadInv, rest
<1>6. KeepInv'
  BY <1>1, <1>4 DEF RoomInv, KeepInv
<1> QED BY <1>5, <1>6

LEMMA NextRoom == RoomInv /\ [Next]_vars => RoomInv'
<1> SUFFICES ASSUME RoomInv, [Next]_vars PROVE ReadInv' /\ KeepInv'
  BY NextInv DEF RoomInv
<1>1. CASE DropLine
  BY <1>1, RoomDropLine
<1>2. CASE CopyLine
  BY <1>2, RoomCopyLine
<1>3. CASE OpenFiles
  BY <1>3 DEF OpenFiles, disk, ReadInv, KeepInv
<1>4. CASE DeleteFile
  BY <1>4 DEF DeleteFile, reader, temp, RoomInv, ReadInv, KeepInv
<1>5. CASE UNCHANGED vars
  BY <1>5 DEF vars, disk, reader, temp, RoomInv, ReadInv, KeepInv
<1>6. ASSUME \/ \E n \in Sizes : Begin(n)
             \/ EnsureFile \/ EnsureCapacity \/ FileGone \/ ReadInvalidLine \/ Replace
             \/ AppendRecord \/ IOError \/ Crash
             \/ \E n \in 1..Max, utf8 \in BOOLEAN : TornAppend(n, utf8)
      PROVE  ReadInv' /\ KeepInv'
  <2>1. pc' \notin {"drop", "copy"}
    BY <1>6 DEF Begin, EnsureFile, EnsureCapacity, FileGone, ReadInvalidLine, Replace,
                AppendRecord, IOError, Crash, TornAppend, Return
  <2> QED BY <2>1 DEF ReadInv, KeepInv
<1> QED BY <1>1, <1>2, <1>3, <1>4, <1>5, <1>6 DEF Next, Step, Disturb

\* A step that moves the beginning of logs.txt, or empties it without removing it.
Forgets == exists' /\ file # <<>> /\ (file' = <<>> \/ file'[1].from > file[1].from)

\* Only the rename does.
LEMMA ForgetsByReplace == ASSUME RoomInv, [Next]_vars, Forgets PROVE Replace
<1>1. file \in Seq(Line) /\ stream \in Nat /\ Contiguous(file, stream) /\ file # <<>>
  BY DEF RoomInv, IInv, TypeOK, FileInv, Forgets
<1>2. file[1].from \in Nat /\ First(file, stream) = file[1].from
  BY <1>1, FirstLine
<1>3. ASSUME NEW n \in Nat \ {0}, NEW nl \in BOOLEAN, NEW utf8 \in BOOLEAN,
             file' = Extended(file, n, nl, utf8)
      PROVE  FALSE
  <2>1. file' # <<>> /\ file'[1].from = file[1].from
    BY <1>1, <1>2, <1>3, ExtendFile
  <2> QED BY <1>2, <2>1 DEF Forgets
<1>4. ASSUME UNCHANGED file PROVE FALSE
  BY <1>1, <1>2, <1>4 DEF Forgets
<1>5. CASE AppendRecord
  <2>1. size \in Nat \ {0}
    BY <1>5 DEF RoomInv, IInv, TypeOK, SizeInv, AppendRecord
  <2> QED BY <1>3, <1>5, <2>1 DEF AppendRecord
<1>6. ASSUME NEW n \in 1..Max, NEW utf8 \in BOOLEAN, TornAppend(n, utf8) PROVE FALSE
  <2>1. n \in Nat \ {0}
    BY FallbackAssumption
  <2> QED BY <1>3, <1>6, <2>1 DEF TornAppend
<1>7. CASE DeleteFile
  BY <1>7 DEF DeleteFile, Forgets
<1>8. ASSUME \/ \E n \in Sizes : Begin(n)
             \/ EnsureFile \/ EnsureCapacity \/ OpenFiles \/ FileGone \/ DropLine \/ CopyLine
             \/ ReadInvalidLine \/ IOError \/ Crash \/ UNCHANGED vars
      PROVE  FALSE
  <2>1. UNCHANGED file
    BY <1>8 DEF Begin, EnsureFile, EnsureCapacity, OpenFiles, FileGone, DropLine, CopyLine,
                ReadInvalidLine, IOError, Crash, vars, disk
  <2> QED BY <1>4, <2>1
<1> QED BY <1>5, <1>6, <1>7, <1>8 DEF Next, Step, Disturb

\* A line leaves a logs.txt that nobody removes only in the rename that ends a
\* trim, which keeps at least the newest line, and only when it and everything
\* newer would not have fitted together with the record.
THEOREM ForgetsForRoomOnly == Spec => ForgetsOnlyToMakeRoom
<1> DEFINE Justified ==
             /\ pc \in {"drop", "copy"} /\ file' # <<>>
             /\ \E k \in 1..Len(file) - 1 :
                   /\ file[k].to = file'[1].from
                   /\ bytes' + size + Length(file[k]) > Max
<1>1. ASSUME RoomInv, [Next]_vars, Forgets PROVE Justified
  <2> USE FallbackAssumption
  <2>1. /\ pc \in {"drop", "copy"} /\ src = <<>> /\ file' = tmp /\ bytes' = tmpBytes
    BY <1>1, ForgetsByReplace DEF Replace
  <2>2. pc = "copy"
    BY <1>1, <2>1, LoopFindsLine DEF RoomInv
  <2>3. /\ tmp \in Seq(Line) /\ tmp # <<>> /\ Contiguous(tmp, stream)
        /\ tmpBytes = stream - tmp[1].from
    BY <1>1, <2>1, <2>2 DEF RoomInv, IInv, TypeOK, CopyInv, First
  <2>4. (stream - tmp[1].from) + size > Max
    BY <1>1, <2>2 DEF RoomInv, KeepInv
  <2>5. PICK j \in 1..Len(file) : tmp[1] = file[j]
    BY <1>1, <2>2 DEF RoomInv, KeepInv, Forgets
  <2>6. /\ file \in Seq(Line) /\ Contiguous(file, stream) /\ Len(file) \in Nat
        /\ file[1].from \in Nat
    BY <1>1, FirstLine, LenProperties DEF RoomInv, IInv, TypeOK, FileInv, Forgets
  <2>7. j # 1
    BY <1>1, <2>1, <2>3, <2>5, <2>6 DEF Forgets
  <2> DEFINE k == j - 1
  <2>8. k \in 1..Len(file) - 1 /\ k \in 1..Len(file) /\ k + 1 = j
    BY <2>6, <2>7
  <2> HIDE DEF k
  <2>9. file[k].to = file'[1].from
    BY <2>1, <2>5, <2>6, <2>8 DEF Contiguous
  <2>10. Length(file[k]) \in Nat \ {0}
    <3>1. file[k] \in Line /\ file[k].from < file[k].to
      BY <2>6, <2>8, ElementOfSeq DEF Contiguous
    <3> QED BY <3>1, LineFields
  <2>11. bytes' + size + Length(file[k]) > Max
    <3>1. tmp[1].from \in Nat /\ stream \in Nat /\ size \in Nat /\ Max \in Nat
      BY <1>1, <2>3, FirstLine DEF RoomInv, IInv, TypeOK
    <3> QED BY <2>1, <2>3, <2>4, <2>10, <3>1, SMTT(20)
  <2> QED BY <2>1, <2>3, <2>8, <2>9, <2>11
<1>2. RoomInv /\ [Next]_vars => [Forgets => Justified]_vars
  BY <1>1
<1> HIDE DEF Justified
<1>3. Spec => [][Forgets => Justified]_vars
  BY <1>2, InitRoom, NextRoom, PTL DEF Spec
<1> QED BY <1>3 DEF ForgetsOnlyToMakeRoom, Forgets, Justified

-----------------------------------------------------------------------------
(* Why a call fails *)

\* In a call that nothing disturbs logs.txt is there once it was ensured, and a
\* trim runs only when there is no room for the record.
CauseInv ==
    /\ pc \in {"capacity", "open"} => exists \/ faulted
    /\ pc \in {"open", "drop", "copy"} => faulted \/ bytes + size > Max
    /\ ErrorHasCause

\* While a call runs it has no result yet.
RunningInv == pc # "idle" => result = "none"

FailInv == RoomInv /\ RunningInv /\ CauseInv

LEMMA NextRunning == RoomInv /\ RunningInv /\ [Next]_vars => RunningInv'
<1> SUFFICES ASSUME RoomInv, RunningInv, [Next]_vars PROVE RunningInv'
  OBVIOUS
<1>1. ASSUME NEW n \in Sizes, Begin(n) PROVE RunningInv'
  BY <1>1 DEF Begin, Return, RunningInv
<1>2. CASE Step
  BY <1>2 DEF Step, EnsureFile, EnsureCapacity, OpenFiles, FileGone, DropLine, CopyLine,
              ReadInvalidLine, Replace, AppendRecord, Return, RunningInv
<1>3. CASE Disturb
  BY <1>3 DEF Disturb, IOError, Crash, DeleteFile, TornAppend, Return, RunningInv
<1>4. CASE UNCHANGED vars
  BY <1>4 DEF vars, RunningInv
<1> QED BY <1>1, <1>2, <1>3, <1>4 DEF Next

\* A line that read_line refuses is a line of a file that has no room.
LEMMA CauseInvalidLine == ASSUME FailInv, ReadInvalidLine PROVE CauseInv'
<1> USE FallbackAssumption
<1>1. /\ pc \in {"drop", "copy"} /\ src # <<>> /\ ~Head(src).utf8 /\ pc' = "idle"
      /\ UNCHANGED <<file, bytes, size, faulted>>
  BY DEF ReadInvalidLine, Return, disk
<1>2. CASE faulted
  BY <1>1, <1>2 DEF CauseInv, ErrorHasCause
<1>3. CASE ~faulted
  <2>1. bytes + size > Max
    BY <1>1, <1>3 DEF FailInv, CauseInv
  <2>2. file # <<>>
    <3>1. /\ size <= Max /\ bytes = stream - First(file, stream)
          /\ size \in Nat /\ bytes \in Nat /\ stream \in Nat
      BY <1>1 DEF FailInv, RoomInv, IInv, TypeOK, SizeInv, FileInv
    <3> QED BY <2>1, <3>1 DEF First
  <2>3. Head(src) = src[1] /\ 1 \in 1..Len(src)
    <3>1. src \in Seq(Line)
      BY DEF FailInv, RoomInv, IInv, TypeOK
    <3> QED BY <1>1, <3>1, HeadTailProperties, EmptySeq
  <2>4. PICK k \in 1..Len(file) : src[1] = file[k]
    BY <1>1, <2>2, <2>3 DEF FailInv, RoomInv, ReadInv
  <2> QED BY <1>1, <2>1, <2>3, <2>4 DEF CauseInv, ErrorHasCause
<1> QED BY <1>2, <1>3

LEMMA NextCause == FailInv /\ [Next]_vars => CauseInv'
<1> SUFFICES ASSUME FailInv, [Next]_vars PROVE CauseInv'
  OBVIOUS
<1> USE FallbackAssumption
<1>1. ASSUME NEW n \in Sizes, Begin(n) PROVE CauseInv'
  BY <1>1 DEF Begin, Return, CauseInv, ErrorHasCause
<1>2. ASSUME EnsureFile \/ EnsureCapacity \/ OpenFiles PROVE CauseInv'
  <2>1. result' # "err"
    BY <1>2 DEF EnsureFile, EnsureCapacity, OpenFiles, FailInv, RunningInv
  <2>2. CASE EnsureFile
    BY <2>1, <2>2 DEF EnsureFile, CauseInv, ErrorHasCause
  <2>3. CASE EnsureCapacity
    <3>1. bytes \in Nat /\ size \in Nat
      BY DEF FailInv, RoomInv, IInv, TypeOK
    <3> QED BY <2>1, <2>3, <3>1 DEF EnsureCapacity, disk, CauseInv, ErrorHasCause
  <2>4. CASE OpenFiles
    BY <2>1, <2>4 DEF OpenFiles, disk, FailInv, CauseInv, ErrorHasCause
  <2> QED BY <1>2, <2>2, <2>3, <2>4
<1>3. CASE FileGone
  BY <1>3 DEF FileGone, Return, FailInv, CauseInv, ErrorHasCause
<1>4. ASSUME DropLine \/ CopyLine \/ Replace \/ AppendRecord PROVE CauseInv'
  <2>1. pc' \notin {"capacity", "open"} /\ result' # "err"
    <3>1. CASE DropLine
      BY <3>1 DEF DropLine, FailInv, RunningInv
    <3>2. ASSUME CopyLine \/ Replace \/ AppendRecord
          PROVE  pc' \notin {"capacity", "open"} /\ result' # "err"
      BY <3>2 DEF CopyLine, Replace, AppendRecord, Return, FailInv, RunningInv
    <3> QED BY <1>4, <3>1, <3>2
  <2>2. pc' \in {"drop", "copy"} => pc \in {"drop", "copy"} /\ UNCHANGED <<bytes, size, faulted>>
    BY <1>4 DEF DropLine, CopyLine, Replace, AppendRecord, Return, disk
  <2> QED BY <2>1, <2>2 DEF FailInv, CauseInv, ErrorHasCause
<1>5. CASE ReadInvalidLine
  BY <1>5, CauseInvalidLine
<1>6. CASE Disturb
  <2>1. faulted' = TRUE
    BY <1>6 DEF Disturb, IOError, Crash, DeleteFile, TornAppend, Fault
  <2> QED BY <2>1 DEF CauseInv, ErrorHasCause
<1>7. CASE UNCHANGED vars
  BY <1>7 DEF vars, disk, FailInv, CauseInv, ErrorHasCause
<1> QED BY <1>1, <1>2, <1>3, <1>4, <1>5, <1>6, <1>7 DEF Next, Step

LEMMA InitFail == Init => FailInv
BY InitRoom DEF Init, FailInv, RunningInv, CauseInv, ErrorHasCause

LEMMA NextFail == FailInv /\ [Next]_vars => FailInv'
BY NextRoom, NextRunning, NextCause DEF FailInv

\* write_fallback fails only when something disturbed this very call, or when a
\* full file holds a line that is not UTF-8, for every limit and load.
THEOREM ErrorsAreCaused == Spec => []ErrorHasCause
<1>1. FailInv => ErrorHasCause
  BY DEF FailInv, CauseInv
<1> QED BY <1>1, InitFail, NextFail, PTL DEF Spec

-----------------------------------------------------------------------------
(* Records stay whole *)

Within(lines, r) == \E i \in 1..Len(lines) : lines[i].from <= r[1] /\ r[2] <= lines[i].to

\* The bytes r[1] to r[2] of the stream are in one line of logs.txt, or none of them
\* is there any more; the same of what a running trim will make of logs.txt.
Intact(r) ==
    /\ r[2] <= First(file, stream) \/ Within(file, r)
    /\ pc = "drop" => r[2] <= First(src, stream) \/ Within(src, r)
    /\ pc = "copy" => r[2] <= tmp[1].from \/ Within(tmp, r) \/ Within(src, r)

Bytes == Nat \X Nat

\* Reading a line: r is in that line, or in those that are left.
LEMMA WithinTail ==
    ASSUME NEW lines \in Seq(Line), lines # <<>>, NEW r \in Bytes, Within(lines, r)
    PROVE  \/ Head(lines).from <= r[1] /\ r[2] <= Head(lines).to
           \/ Within(Tail(lines), r)
<1>1. /\ Len(Tail(lines)) = Len(lines) - 1 /\ Head(lines) = lines[1]
      /\ \A i \in 1..Len(Tail(lines)) : Tail(lines)[i] = lines[i+1]
  BY HeadTailProperties
<1>2. PICK i \in 1..Len(lines) : lines[i].from <= r[1] /\ r[2] <= lines[i].to
  BY DEF Within
<1>3. CASE i = 1
  BY <1>1, <1>2, <1>3
<1>4. CASE i # 1
  <2> DEFINE j == i - 1
  <2>1. Len(lines) \in Nat
    BY LenProperties
  <2>2. j \in 1..Len(lines) - 1 /\ j + 1 = i
    BY <1>4, <2>1
  <2>3. j \in 1..Len(Tail(lines)) /\ Tail(lines)[j] = lines[i]
    BY <1>1, <2>2
  <2> QED BY <1>2, <2>3 DEF Within
<1> QED BY <1>3, <1>4

\* Copying a line takes along what is in it.
LEMMA WithinAppend ==
    ASSUME NEW lines \in Seq(Line), NEW line \in Line, NEW r \in Bytes,
           Within(lines, r) \/ (line.from <= r[1] /\ r[2] <= line.to)
    PROVE  Within(Append(lines, line), r)
<1>1. /\ Len(Append(lines, line)) = Len(lines) + 1 /\ Append(lines, line)[Len(lines) + 1] = line
      /\ \A i \in 1..Len(lines) : Append(lines, line)[i] = lines[i]
      /\ Len(lines) \in Nat
  BY AppendProperties, LenProperties
<1>2. CASE Within(lines, r)
  <2>1. PICK i \in 1..Len(lines) : lines[i].from <= r[1] /\ r[2] <= lines[i].to
    BY <1>2 DEF Within
  <2>2. i \in 1..Len(Append(lines, line))
    BY <1>1
  <2> QED BY <1>1, <2>1, <2>2 DEF Within
<1>3. CASE line.from <= r[1] /\ r[2] <= line.to
  <2>1. Len(lines) + 1 \in 1..Len(Append(lines, line))
    BY <1>1
  <2> QED BY <1>1, <1>3, <2>1 DEF Within
<1> QED BY <1>2, <1>3

\* Bytes at the end of logs.txt cut no record, and are together in one line.
LEMMA WithinExtended ==
    ASSUME IInv, NEW n \in Nat \ {0}, NEW nl \in BOOLEAN, NEW utf8 \in BOOLEAN
    PROVE  /\ \A r \in Bytes : Within(file, r) => Within(Extended(file, n, nl, utf8), r)
           /\ Within(Extended(file, n, nl, utf8), <<stream, stream + n>>)
<1> DEFINE new == Extended(file, n, nl, utf8)
<1>1. /\ stream \in Nat /\ file \in Seq(Line) /\ Contiguous(file, stream)
      /\ Len(file) \in Nat
  BY LenProperties DEF IInv, TypeOK, FileInv
<1>2. \A i \in 1..Len(file) : file[i].from \in Nat /\ file[i].to \in Nat /\ file[i].from < file[i].to
  BY <1>1, ElementOfSeq, LineFields DEF Contiguous
<1>3. CASE file # <<>> /\ ~file[Len(file)].nl
  <2> DEFINE k == Len(file)
  <2>1. k \in 1..Len(file) /\ file[k].to = stream
    BY <1>1, <1>3, EmptySeq DEF Contiguous
  <2>2. /\ Len(new) = Len(file)
        /\ new[k].from = file[k].from /\ new[k].to = stream + n
        /\ \A i \in 1..Len(file) : i # k => new[i] = file[i]
    <3>1. new = [file EXCEPT ![k] = [from |-> file[k].from, to |-> stream + n, nl |-> nl,
                                     utf8 |-> file[k].utf8 /\ utf8]]
      BY <1>3 DEF Extended
    <3> QED BY <1>1, <2>1, <3>1, ExceptSeq
  <2> HIDE DEF new, k
  <2>3. \A i \in 1..Len(file) : new[i].from = file[i].from /\ file[i].to <= new[i].to
    BY <1>1, <1>2, <2>1, <2>2
  <2>4. ASSUME NEW r \in Bytes, Within(file, r) PROVE Within(new, r)
    <3>1. PICK i \in 1..Len(file) : file[i].from <= r[1] /\ r[2] <= file[i].to
      BY <2>4 DEF Within
    <3>2. r[2] \in Nat /\ file[i].to \in Nat /\ new[i].to \in Nat
      BY <1>1, <1>2, <2>2 DEF Bytes
    <3>3. new[i].from <= r[1] /\ r[2] <= new[i].to
      BY <2>3, <3>1, <3>2
    <3> QED BY <2>2, <3>3 DEF Within
  <2>5. Within(new, <<stream, stream + n>>)
    <3>1. new[k].from <= stream /\ stream + n <= new[k].to
      BY <1>1, <1>2, <2>1, <2>2
    <3> QED BY <2>1, <2>2, <3>1 DEF Within
  <2> QED BY <2>4, <2>5 DEF new
<1>4. CASE ~(file # <<>> /\ ~file[Len(file)].nl)
  <2> DEFINE line == [from |-> stream, to |-> stream + n, nl |-> nl, utf8 |-> utf8]
  <2>1. new = Append(file, line)
    BY <1>4 DEF Extended
  <2>2. line \in Line /\ line.from <= stream /\ stream + n <= line.to
    BY <1>1 DEF Line
  <2> HIDE DEF line
  <2>3. \A r \in Bytes : Within(file, r) => Within(Append(file, line), r)
    BY <1>1, <2>2, WithinAppend
  <2>4. Within(Append(file, line), <<stream, stream + n>>)
    <3>1. <<stream, stream + n>> \in Bytes
      BY <1>1 DEF Bytes
    <3> QED BY <1>1, <2>2, <3>1, WithinAppend
  <2> QED BY <2>1, <2>3, <2>4
<1> QED BY <1>3, <1>4

LEMMA IntactExtended ==
    ASSUME IInv, pc' = "idle", NEW n \in Nat \ {0}, NEW nl \in BOOLEAN, NEW utf8 \in BOOLEAN,
           file' = Extended(file, n, nl, utf8), stream' = stream + n
    PROVE  /\ \A r \in Bytes : Intact(r) /\ r[2] <= stream => Intact(r)' /\ r[2] <= stream'
           /\ \A r \in Bytes : r = <<stream, stream + n>> => Intact(r)' /\ r[2] = stream'
<1>1. /\ stream \in Nat /\ file \in Seq(Line) /\ Contiguous(file, stream)
      /\ First(file, stream) \in Nat
  BY FirstLine DEF IInv, TypeOK, FileInv, First
<1>2. First(file', stream') = First(file, stream)
  <2>1. /\ Extended(file, n, nl, utf8) # <<>>
        /\ Extended(file, n, nl, utf8)[1].from = First(file, stream)
    BY <1>1, ExtendFile
  <2> QED BY <2>1 DEF First
<1>3. ASSUME NEW r \in Bytes, Intact(r), r[2] <= stream PROVE Intact(r)' /\ r[2] <= stream'
  <2>1. r[2] \in Nat
    BY DEF Bytes
  <2>2. r[2] <= stream'
    BY <1>1, <1>3, <2>1
  <2>3. Within(file, r) => Within(file', r)
    BY WithinExtended
  <2> QED BY <1>2, <1>3, <2>2, <2>3 DEF Intact
<1>4. Within(file', <<stream, stream + n>>)
  BY WithinExtended
<1> QED BY <1>3, <1>4 DEF Intact

\* The steps of a trim.
LEMMA IntactTrim ==
    ASSUME IInv, DropLine \/ CopyLine \/ Replace, NEW r \in Bytes, r[2] <= stream, Intact(r)
    PROVE  Intact(r)'
<1>1. /\ src \in Seq(Line) /\ tmp \in Seq(Line) /\ stream \in Nat /\ r[1] \in Nat /\ r[2] \in Nat
      /\ pc \in {"drop", "copy"} => Contiguous(src, stream)
  BY DEF IInv, TypeOK, DropInv, CopyInv, Bytes
<1>2. CASE Replace
  <2>1. src = <<>> /\ pc' = "append" /\ file' = tmp /\ UNCHANGED stream
    BY <1>2 DEF Replace
  <2>2. pc = "copy" /\ tmp # <<>>
    BY <1>2, LoopFindsLine DEF Replace, IInv, CopyInv
  <2>3. ~Within(src, r)
    BY <2>1, EmptySeq DEF Within
  <2>4. r[2] <= tmp[1].from \/ Within(tmp, r)
    BY <2>2, <2>3 DEF Intact
  <2> QED BY <2>1, <2>2, <2>4 DEF Intact, First
<1>3. ASSUME src # <<>>, pc \in {"drop", "copy"}
      PROVE  /\ Head(src) \in Line /\ Head(src).from \in Nat /\ Head(src).to \in Nat
             /\ Head(src).from < Head(src).to
             /\ First(src, stream) = Head(src).from /\ First(Tail(src), stream) = Head(src).to
             /\ Within(src, r) => \/ Head(src).from <= r[1] /\ r[2] <= Head(src).to
                                  \/ Within(Tail(src), r)
  BY <1>1, <1>3, ReadLine, LineFields, WithinTail DEF First
<1>4. CASE DropLine
  <2>1. /\ pc = "drop" /\ src # <<>> /\ src' = Tail(src) /\ UNCHANGED <<file, stream>>
        /\ tmp = <<>>
    BY <1>4 DEF DropLine, disk, IInv, DropInv
  <2>2. r[2] <= First(src, stream) \/ Within(src, r)
    BY <2>1 DEF Intact
  <2>3. CASE pc' = "drop"
    <3>1. r[2] <= First(src', stream') \/ Within(src', r)
      BY <1>1, <1>3, <2>1, <2>2
    <3> QED BY <2>1, <2>3, <3>1 DEF Intact
  <2>4. CASE pc' = "copy" /\ KeepLine
    <3>1. tmp' = Append(<<>>, Head(src))
      BY <2>1, <2>4 DEF KeepLine
    <3>2. tmp'[1] = Head(src)
      BY <1>3, <2>1, <3>1
    <3>3. <<>> \in Seq(Line)
      BY EmptySeq
    <3>4. Head(src).from <= r[1] /\ r[2] <= Head(src).to => Within(tmp', r)
      BY <1>3, <2>1, <3>1, <3>3, WithinAppend
    <3>5. r[2] <= tmp'[1].from \/ Within(tmp', r) \/ Within(src', r)
      BY <1>3, <2>1, <2>2, <3>2, <3>4
    <3> QED BY <2>1, <2>4, <3>5 DEF Intact
  <2> QED BY <1>4, <2>1, <2>3, <2>4 DEF DropLine
<1>5. CASE CopyLine
  <2>1. /\ pc = "copy" /\ pc' = "copy" /\ src # <<>> /\ src' = Tail(src)
        /\ tmp' = Append(tmp, Head(src)) /\ UNCHANGED <<file, stream>> /\ tmp # <<>>
    BY <1>5 DEF CopyLine, KeepLine, disk, IInv, CopyInv
  <2>2. r[2] <= tmp[1].from \/ Within(tmp, r) \/ Within(src, r)
    BY <2>1 DEF Intact
  <2>3. tmp'[1] = tmp[1]
    <3>1. Len(tmp) \in Nat \ {0}
      BY <1>1, <2>1, EmptySeq
    <3> QED BY <1>1, <1>3, <2>1, <3>1, AppendProperties
  <2>4. Within(tmp, r) => Within(tmp', r)
    BY <1>1, <1>3, <2>1, WithinAppend
  <2>5. Head(src).from <= r[1] /\ r[2] <= Head(src).to => Within(tmp', r)
    BY <1>1, <1>3, <2>1, WithinAppend
  <2>6. r[2] <= tmp'[1].from \/ Within(tmp', r) \/ Within(src', r)
    BY <1>3, <2>1, <2>2, <2>3, <2>4, <2>5
  <2> QED BY <2>1, <2>6 DEF Intact
<1> QED BY <1>2, <1>4, <1>5

\* Nothing the program does, no fault and no deletion cuts bytes that were whole.
LEMMA IntactStays ==
    ASSUME IInv, [Next]_vars, NEW r \in Bytes, r[2] <= stream, Intact(r)
    PROVE  Intact(r)' /\ r[2] <= stream'
<1> USE FallbackAssumption
<1>1. stream \in Nat /\ r[2] \in Nat /\ size \in Nat
  BY DEF Bytes, IInv, TypeOK
<1>2. ASSUME UNCHANGED <<file, stream>>, pc' \notin {"drop", "copy"} PROVE Intact(r)'
  BY <1>2 DEF Intact
<1>3. ASSUME NEW n \in Sizes, Begin(n) PROVE Intact(r)' /\ UNCHANGED stream
  BY <1>2, <1>3 DEF Begin, Return, disk
<1>4. ASSUME EnsureFile \/ EnsureCapacity \/ FileGone \/ ReadInvalidLine \/ IOError \/ Crash
      PROVE  Intact(r)' /\ UNCHANGED stream
  BY <1>2, <1>4
  DEF EnsureFile, EnsureCapacity, FileGone, ReadInvalidLine, IOError, Crash, Return, disk
<1>5. CASE OpenFiles
  BY <1>5 DEF OpenFiles, disk, Intact
<1>6. ASSUME DropLine \/ CopyLine \/ Replace PROVE Intact(r)' /\ UNCHANGED stream
  BY <1>6, IntactTrim DEF DropLine, CopyLine, Replace, disk
<1>7. CASE AppendRecord
  <2>1. size \in Nat \ {0}
    BY <1>1, <1>7 DEF AppendRecord, IInv, SizeInv
  <2> QED BY <1>7, <2>1, IntactExtended DEF AppendRecord, Return
<1>8. ASSUME NEW n \in 1..Max, NEW utf8 \in BOOLEAN, TornAppend(n, utf8)
      PROVE  Intact(r)' /\ r[2] <= stream'
  <2>1. n \in Nat \ {0}
    OBVIOUS
  <2> QED BY <1>8, <2>1, IntactExtended DEF TornAppend, Return
<1>9. CASE DeleteFile
  BY <1>9 DEF DeleteFile, reader, temp, Intact, First
<1>10. CASE UNCHANGED vars
  BY <1>10 DEF vars, disk, reader, temp, Intact
<1> QED BY <1>1, <1>3, <1>4, <1>5, <1>6, <1>7, <1>8, <1>9, <1>10 DEF Next, Step, Disturb

\* The record just appended is whole.
LEMMA IntactAppended ==
    ASSUME IInv, AppendRecord, NEW r, r = <<stream, stream'>>
    PROVE  r \in Bytes /\ Intact(r)' /\ r[2] = stream'
<1>1. stream \in Nat /\ size \in Nat \ {0}
  BY DEF AppendRecord, IInv, TypeOK, SizeInv
<1>2. stream' = stream + size /\ pc' = "idle" /\ file' = Extended(file, size, TRUE, TRUE)
  BY DEF AppendRecord, Return
<1>3. r \in Bytes
  BY <1>1, <1>2 DEF Bytes
<1> QED BY <1>1, <1>2, <1>3, IntactExtended
=============================================================================
