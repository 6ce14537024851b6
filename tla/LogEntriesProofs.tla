--------------------------- MODULE LogEntriesProofs ---------------------------
(***************************************************************************)
(* Proofs about LogEntries, for any contents of any number of files: the   *)
(* builder that the files of a job share never carries lines from one file *)
(* into the records of another (IInv), and what builder and records hold   *)
(* adds up to their sizes, is in order, and is all of the entries that     *)
(* were read if the file keeps the limits (Held).                          *)
(***************************************************************************)
EXTENDS LogEntries, Induction, SequenceTheorems, TLAPS

\* No entry begins after line i and before line n.
Latest(lines, i, n) == \A k \in DOMAIN lines : i < k /\ k < n => ~Stamped(lines[k])

\* The entry with these lines began at line i of the file that is being read, and
\* no entry began after it.
Began(P, time, i) ==
  /\ i \in DOMAIN File.lines /\ i < next /\ time = File.lines[i].stamp
  /\ PartOf(P, Len(files), File.lines, i) /\ Latest(File.lines, i, next)

BuilderInv ==
  builder.has => next # 0 /\ \E i \in Nat : Began(builder.lines, builder.time, i)

SizeInv == builder.has => builder.size <= MaxSize

IInv == TypeOK /\ BuilderInv /\ SizeInv /\ RecordsStayInStep /\ NoRecordTooLong

\* The file that is being read, and the line that was scanned.
LEMMA FileType ==
  ASSUME TypeOK, next # 0
  PROVE  /\ Len(files) \in DOMAIN files /\ File = files[Len(files)]
         /\ File.step \in Steps /\ File.lines \in Contents /\ File.lines \in Seq(Line)
<1>1. files \in Seq([step : Steps, lines : Contents]) /\ files # <<>>
  BY DEF TypeOK
<1>2. Len(files) \in 1 .. Len(files)
  <2>1. Len(files) \in Nat
    BY <1>1
  <2>2. Len(files) # 0
    BY <1>1, EmptySeq
  <2> QED
    BY <2>1, <2>2
<1>3. DOMAIN files = 1 .. Len(files)
  BY <1>1
<1>4. files[Len(files)] \in [step : Steps, lines : Contents]
  BY <1>1, <1>2, ElementOfSeq
<1> QED
  BY <1>2, <1>3, <1>4, LogAssumption DEF File

LEMMA CurrentType ==
  ASSUME TypeOK, Scanned
  PROVE  /\ next \in DOMAIN File.lines /\ Current = File.lines[next] /\ Current \in Line
         /\ next \in Nat /\ Current.size \in Nat /\ Current.size < MaxSize
         /\ Stamped(Current) => Current.stamp \in Times /\ Current.size >= StampSize
<1>1. next \in DOMAIN File.lines /\ next \in Nat /\ Current.size < MaxSize
  BY FileType DEF TypeOK, Scanned
<1>2. Current = File.lines[next] /\ Current \in Line
  BY <1>1, FileType DEF Scanned, Current
<1>3. Current.stamp \in Times => Current.size >= StampSize
  BY <1>1, <1>2, FileType, LogAssumption DEF Scanned
<1> QED
  BY <1>1, <1>2, <1>3 DEF Line, Stamped

\* A record of a file is still one when another file is opened.
LEMMA InStepStays ==
  ASSUME TypeOK, NEW step \in Steps, NEW lines \in Contents, OpenFile(step, lines),
         NEW r, InStep(r, files)
  PROVE  InStep(r, files')
<1>1. PICK f \in DOMAIN files : \E i \in DOMAIN files[f].lines :
        /\ r.step = files[f].step /\ r.time = files[f].lines[i].stamp
        /\ PartOf(r.lines, f, files[f].lines, i)
  BY DEF InStep
<1>2. f \in DOMAIN files' /\ files'[f] = files[f]
  BY DEF OpenFile, TypeOK
<1> QED
  BY <1>1, <1>2 DEF InStep

\* A line without a timestamp belongs to the entry that began last.
LEMMA Extends ==
  ASSUME NEW f, NEW lines \in Seq(Line), NEW i \in DOMAIN lines, NEW n \in DOMAIN lines,
         i < n, Latest(lines, i, n), ~Stamped(lines[n]), lines[n].size > 0
  PROVE  <<f, n>> \in EntryAt(f, lines, i)
<1>1. \A k \in i + 1 .. n : ~Stamped(lines[k])
  BY DEF Latest
<1> QED
  BY <1>1 DEF EntryAt

\* A line without a timestamp is passed, and maybe added to the builder.
LEMMA BuilderGoesOn ==
  ASSUME TypeOK, BuilderInv, Scanned, ~Stamped(Current), next' = next + 1,
         UNCHANGED files, builder'.has = builder.has, builder'.time = builder.time,
         \/ builder'.lines = builder.lines
         \/ Current.size > 0 /\ builder'.lines = builder.lines \cup {Here}
  PROVE  BuilderInv'
<1> SUFFICES ASSUME builder.has PROVE next' # 0 /\ \E i \in Nat : Began(builder.lines, builder.time, i)'
  BY DEF BuilderInv
<1>1. PICK i \in Nat : Began(builder.lines, builder.time, i)
  BY DEF BuilderInv
<1>2. Latest(File.lines, i, next + 1)
  BY <1>1, CurrentType, FileType DEF Began, Latest, Scanned
<1>3. PartOf(builder'.lines, Len(files), File.lines, i)
  <2>1. Current.size > 0 => Here \in EntryAt(Len(files), File.lines, i)
    BY <1>1, Extends, CurrentType, FileType DEF Began, Scanned, Here
  <2> QED
    BY <1>1, <2>1 DEF Began, PartOf
<1>4. File' = File
  BY DEF File
<1> QED
  BY <1>1, <1>2, <1>3, <1>4, CurrentType DEF Began

\* The record of the entry in the builder is one of the file that is being read.
LEMMA FinalizedInStep ==
  ASSUME IInv, records' = FinalizedIfAny, UNCHANGED files
  PROVE  /\ RecordsStayInStep' /\ NoRecordTooLong'
         /\ records' \in Seq(RecordType)
<1>1. CASE ~builder.has
  BY <1>1 DEF IInv, TypeOK, FinalizedIfAny, RecordsStayInStep, NoRecordTooLong
<1>2. CASE builder.has
  <2> DEFINE r == [step |-> File.step, time |-> builder.time,
                   lines |-> builder.lines, size |-> builder.size]
  <2>1. PICK i \in Nat : Began(builder.lines, builder.time, i)
    BY <1>2 DEF IInv, BuilderInv
  <2>2. next # 0 /\ TypeOK
    BY <1>2 DEF IInv, BuilderInv
  <2>3. InStep(r, files)
    BY <2>1, <2>2, FileType DEF Began, InStep
  <2>4. builder.time \in Times
    <3>1. File.lines[i] \in Line /\ Stamped(File.lines[i])
      BY <2>1, <2>2, FileType DEF Began, PartOf, Stamps
    <3> QED
      BY <2>1, <3>1 DEF Began, Line, Stamped
  <2>5. r \in RecordType
    BY <2>2, <2>4, FileType DEF TypeOK, RecordType, BuilderType
  <2>6. r.size <= MaxSize
    BY <1>2 DEF IInv, SizeInv
  <2>7. records' = Append(records, r)
    BY <1>2 DEF FinalizedIfAny, Finalized
  <2> HIDE DEF r
  <2>8. /\ DOMAIN records' = DOMAIN records \cup {Len(records) + 1}
        /\ records'[Len(records) + 1] = r
        /\ \A n \in DOMAIN records : records'[n] = records[n]
    BY <2>2, <2>7 DEF TypeOK
  <2>9. RecordsStayInStep'
    BY <2>3, <2>8 DEF IInv, RecordsStayInStep
  <2>10. NoRecordTooLong'
    BY <2>6, <2>8 DEF IInv, NoRecordTooLong
  <2> QED
    BY <2>2, <2>5, <2>7, <2>9, <2>10 DEF TypeOK
<1> QED
  BY <1>1, <1>2
-------------------------------------------------------------------------------
LEMMA OpenFileKeeps ==
  ASSUME IInv, NEW step \in Steps, NEW lines \in Contents, OpenFile(step, lines)
  PROVE  IInv'
<1>1. TypeOK'
  BY DEF IInv, TypeOK, OpenFile
<1>2. BuilderInv' /\ SizeInv' /\ NoRecordTooLong'
  BY DEF IInv, BuilderInv, SizeInv, NoRecordTooLong, OpenFile
<1>3. RecordsStayInStep'
  BY InStepStays DEF IInv, RecordsStayInStep, OpenFile
<1> QED
  BY <1>1, <1>2, <1>3 DEF IInv

LEMMA StartEntryKeeps == ASSUME IInv, StartEntry PROVE IInv'
<1>1. /\ Scanned /\ Stamped(Current) /\ records' = FinalizedIfAny /\ next' = next + 1
      /\ builder' = [has |-> TRUE, time |-> Current.stamp, lines |-> {Here},
                     size |-> RestSize(Current)]
      /\ UNCHANGED files /\ TypeOK
  BY DEF StartEntry, IInv
<1>2. /\ RecordsStayInStep' /\ NoRecordTooLong'
      /\ records' \in Seq(RecordType)
  BY <1>1, FinalizedInStep
<1>3. RestSize(Current) \in Nat /\ RestSize(Current) <= MaxSize
  BY <1>1, CurrentType, LogAssumption DEF RestSize
<1>4. Here \in Nat \X Nat
  BY <1>1, CurrentType DEF Here, TypeOK
<1>5. TypeOK'
  <2>1. builder' \in BuilderType
    BY <1>1, <1>3, <1>4, CurrentType DEF BuilderType
  <2>2. next' \in Nat /\ files # <<>>
    BY <1>1, CurrentType DEF TypeOK, Scanned
  <2> QED
    BY <1>1, <1>2, <2>1, <2>2 DEF TypeOK
<1>6. BuilderInv'
  <2>1. PartOf({Here}, Len(files), File.lines, next)
    BY <1>1, CurrentType DEF PartOf, Stamps, EntryAt, Here
  <2>2. Latest(File.lines, next, next + 1)
    BY <1>1, CurrentType, FileType DEF Latest, Scanned
  <2>3. File' = File
    BY <1>1 DEF File
  <2>4. next \in DOMAIN File.lines /\ next < next + 1 /\ next + 1 # 0
        /\ Current.stamp = File.lines[next].stamp
    BY <1>1, CurrentType
  <2>5. \E i \in Nat : Began(builder.lines, builder.time, i)'
    <3> DEFINE i == next
    <3>1. /\ i \in Nat /\ i \in DOMAIN File'.lines /\ i < next'
          /\ builder'.time = File'.lines[i].stamp
          /\ PartOf(builder'.lines, Len(files'), File'.lines, i)
          /\ Latest(File'.lines, i, next')
      BY <1>1, <2>1, <2>2, <2>3, <2>4, CurrentType
    <3> HIDE DEF i
    <3> QED
      BY <3>1 DEF Began
  <2> QED
    BY <1>1, <2>4, <2>5 DEF BuilderInv
<1>7. SizeInv'
  BY <1>1, <1>3 DEF SizeInv
<1> QED
  BY <1>2, <1>5, <1>6, <1>7 DEF IInv

LEMMA PassKeeps == ASSUME IInv, EmptyLine \/ Orphan \/ SkipLine PROVE IInv'
<1>1. /\ Scanned /\ ~Stamped(Current) /\ next' = next + 1 /\ UNCHANGED <<files, builder, records>>
      /\ TypeOK /\ BuilderInv
  BY CurrentType, LogAssumption DEF EmptyLine, Orphan, SkipLine, IInv
<1>2. TypeOK'
  <2>1. next' \in Nat /\ files # <<>>
    BY <1>1, CurrentType DEF TypeOK, Scanned
  <2> QED
    BY <1>1, <2>1 DEF TypeOK
<1>3. BuilderInv'
  BY <1>1, BuilderGoesOn
<1>4. SizeInv' /\ RecordsStayInStep' /\ NoRecordTooLong'
  BY <1>1 DEF IInv, SizeInv, RecordsStayInStep, NoRecordTooLong
<1> QED
  BY <1>2, <1>3, <1>4 DEF IInv

LEMMA ExtendEntryKeeps == ASSUME IInv, ExtendEntry PROVE IInv'
<1>1. /\ Scanned /\ ~Stamped(Current) /\ next' = next + 1 /\ UNCHANGED <<files, records>>
      /\ Current.size > 0 /\ builder.has /\ Fits /\ TypeOK /\ BuilderInv
      /\ builder' = [builder EXCEPT !.lines = @ \cup {Here}, !.size = @ + 1 + Current.size]
  BY DEF ExtendEntry, IInv
<1>2. TypeOK'
  <2>1. Here \in Nat \X Nat
    BY <1>1, CurrentType DEF Here, TypeOK
  <2>2. builder' \in BuilderType
    <3>1. builder \in BuilderType /\ Current.size \in Nat
      BY <1>1, CurrentType DEF TypeOK
    <3>2. builder.lines \cup {Here} \in SUBSET (Nat \X Nat)
      BY <2>1, <3>1 DEF BuilderType
    <3>3. builder.size + 1 + Current.size \in Nat
      BY <3>1 DEF BuilderType
    <3> QED
      BY <1>1, <3>1, <3>2, <3>3 DEF BuilderType
  <2>3. next' \in Nat /\ files # <<>>
    BY <1>1, CurrentType DEF TypeOK, Scanned
  <2> QED
    BY <1>1, <2>2, <2>3 DEF TypeOK
<1>3. BuilderInv'
  <2>1. /\ builder'.has = builder.has /\ builder'.time = builder.time
        /\ builder'.lines = builder.lines \cup {Here}
    BY <1>1 DEF TypeOK, BuilderType
  <2> QED
    BY <1>1, <2>1, BuilderGoesOn
<1>4. SizeInv'
  BY <1>1, CurrentType, LogAssumption DEF SizeInv, Fits, TypeOK, BuilderType
<1>5. RecordsStayInStep' /\ NoRecordTooLong'
  BY <1>1 DEF IInv, RecordsStayInStep, NoRecordTooLong
<1> QED
  BY <1>2, <1>3, <1>4, <1>5 DEF IInv

LEMMA CloseFileKeeps == ASSUME IInv, CloseFile PROVE IInv'
<1>1. /\ records' = FinalizedIfAny /\ next' = 0 /\ UNCHANGED files /\ TypeOK
      /\ builder' = IF builder.has THEN Reset ELSE builder
  BY DEF CloseFile, EndOfFile, IInv
<1>2. /\ RecordsStayInStep' /\ NoRecordTooLong'
      /\ records' \in Seq(RecordType)
  BY <1>1, FinalizedInStep
<1>3. TypeOK'
  BY <1>1, <1>2 DEF TypeOK, BuilderType, Reset
<1>4. BuilderInv' /\ SizeInv'
  BY <1>1 DEF BuilderInv, SizeInv, Reset
<1> QED
  BY <1>2, <1>3, <1>4 DEF IInv

LEMMA Inductive == Spec => []IInv
<1>1. Init => IInv
  BY DEF Init, Reset, IInv, TypeOK, BuilderType, BuilderInv, SizeInv, RecordsStayInStep, NoRecordTooLong
<1>2. IInv /\ UNCHANGED vars => IInv'
  BY DEF vars, IInv, TypeOK, BuilderInv, SizeInv, RecordsStayInStep, NoRecordTooLong,
         Began, File
<1>3. IInv /\ [Next]_vars => IInv'
  BY <1>2, OpenFileKeeps, StartEntryKeeps, PassKeeps, ExtendEntryKeeps, CloseFileKeeps
     DEF Next, Done
<1> QED
  BY <1>1, <1>3, PTL DEF Spec

\* TypeOK: the variables of the conversion keep their types.
THEOREM TypeCorrect == Spec => []TypeOK
BY Inductive, PTL DEF IInv

\* RecordsStayInStep: although processJobLogs passes one builder to every file, a
\* record has lines, time and step of one file.
THEOREM BuilderIsPrivate == Spec => []RecordsStayInStep
BY Inductive, PTL DEF IInv

\* NoRecordTooLong: maxLogEntryBytes bounds the body of every record.
THEOREM LimitIsKept == Spec => []NoRecordTooLong
BY Inductive, PTL DEF IInv
-------------------------------------------------------------------------------
\* The sizes of lines in files fs, the size of a text of lines P, and what WithinLimits
\* says of file f of fs: SizeOf and WithinLimits in terms of the files.
SizesIn(fs, P) == [p \in P |-> fs[p[1]].lines[p[2]].size + 1]
TextSize(fs, P) == SumFunctionOnSet(SizesIn(fs, P), P) - StampSize - 1
KeepsLimits(fs, f) ==
  /\ \A i \in DOMAIN fs[f].lines : fs[f].lines[i].size < MaxSize
  /\ \A i \in Stamps(fs[f].lines) : TextSize(fs, EntryAt(f, fs[f].lines, i)) <= MaxSize

\* Positions of lines, in the order they are read; those that were.
Precedes(p, q) == p[1] < q[1] \/ (p[1] = q[1] /\ p[2] < q[2])
Read(p) == p[1] < Len(files) \/ (p[1] = Len(files) /\ (next = 0 \/ p[2] < next))
Positions(P) ==
  /\ IsFiniteSet(P) /\ P \subseteq Nat \X Nat
  /\ \A p \in P : p[1] \in DOMAIN files /\ p[2] \in DOMAIN files[p[1]].lines /\ Read(p)

\* The builder and the records hold lines that were read, what they hold adds up, and
\* what was finalized comes before what is held.
LinesInv ==
  /\ \A n \in DOMAIN records :
       Positions(records[n].lines) /\ records[n].size = TextSize(files, records[n].lines)
  /\ builder.has => Positions(builder.lines) /\ builder.size = TextSize(files, builder.lines)
OrderInv ==
  /\ \A n, m \in DOMAIN records : n < m =>
       \A p \in records[n].lines, q \in records[m].lines : Precedes(p, q)
  /\ builder.has => \A n \in DOMAIN records :
       \A p \in records[n].lines, q \in builder.lines : Precedes(p, q)

\* The entry at line i of file f is one of the records; it is in the builder, as far as
\* it was read.
Recorded(f, i) == \E n \in DOMAIN records : records[n].lines = EntryAt(f, files[f].lines, i)
HeldAt(f, i) ==
  /\ next # 0 /\ f = Len(files) /\ builder.has /\ Latest(files[f].lines, i, next)
  /\ builder.lines = {p \in EntryAt(f, files[f].lines, i) : p[2] < next}

\* If a file keeps the limits, its entries that were read are records, but for the last
\* one, which is in the builder until the next one begins or the file ends.
EntriesInv ==
  \A f \in DOMAIN files : KeepsLimits(files, f) =>
    \A i \in Stamps(files[f].lines) :
      next = 0 \/ f # Len(files) \/ i < next => Recorded(f, i) \/ HeldAt(f, i)

LEMMA TextStays ==
  ASSUME NEW fs, NEW gs, NEW P, IsFiniteSet(P), \A p \in P : gs[p[1]] = fs[p[1]]
  PROVE  TextSize(gs, P) = TextSize(fs, P)
<1>1. SizesIn(gs, P) = SizesIn(fs, P)
  BY DEF SizesIn
<1> QED
  BY <1>1 DEF TextSize

\* The sizes of the lines P of files are numbers.
Sized(fs, P) == IsFiniteSet(P) /\ \A p \in P : fs[p[1]].lines[p[2]].size \in Nat

LEMMA TextGrows ==
  ASSUME NEW fs, NEW P, NEW q, q \notin P, Sized(fs, P \cup {q}), IsFiniteSet(P)
  PROVE  TextSize(fs, P \cup {q}) = TextSize(fs, P) + 1 + fs[q[1]].lines[q[2]].size
<1> DEFINE all == SizesIn(fs, P \cup {q})
           sum == SumFunctionOnSet(all, P)
           size == fs[q[1]].lines[q[2]].size
<1>1. /\ \A p \in P \cup {q} : all[p] \in Nat
      /\ \A p \in P : all[p] = SizesIn(fs, P)[p]
      /\ all[q] = size + 1 /\ size \in Nat
  BY DEF Sized, SizesIn
<1>2. TextSize(fs, P \cup {q}) = SumFunctionOnSet(all, P \cup {q}) - StampSize - 1
  BY DEF TextSize
<1> HIDE DEF all
<1>3. SumFunctionOnSet(all, P \cup {q}) = all[q] + sum
  BY <1>1, SumAdd
<1>4. SumFunctionOnSet(all, P) = SumFunctionOnSet(SizesIn(fs, P), P)
  BY <1>1, SumSame
<1>5. TextSize(fs, P) = sum - StampSize - 1
  BY <1>4, Zenon DEF TextSize
<1>6. sum \in Nat
  BY <1>1, SumNat
<1>7. (all[q] + sum) - StampSize - 1 = (sum - StampSize - 1) + 1 + size
  <2> HIDE DEF sum, size
  <2> QED
    BY <1>1, <1>6, LogAssumption
<1>8. TextSize(fs, P \cup {q}) = TextSize(fs, P) + 1 + size
  BY <1>2, <1>3, <1>5, <1>7, Zenon
<1> QED
  BY <1>8 DEF size

LEMMA TextOfOne ==
  ASSUME NEW fs, NEW q, fs[q[1]].lines[q[2]].size \in Nat
  PROVE  TextSize(fs, {q}) = fs[q[1]].lines[q[2]].size - StampSize
<1>1. IsFiniteSet({}) /\ {} \cup {q} = {q} /\ IsFiniteSet({q})
  BY FS_EmptySet, FS_Singleton
<1>2. Sized(fs, {} \cup {q})
  BY <1>1 DEF Sized
<1>3. TextSize(fs, {} \cup {q}) = TextSize(fs, {}) + 1 + fs[q[1]].lines[q[2]].size
  BY <1>1, <1>2, TextGrows
<1>4. TextSize(fs, {}) = 0 - StampSize - 1
  BY SumEmpty DEF TextSize
<1> QED
  BY <1>1, <1>3, <1>4, LogAssumption

LEMMA TextOfPart ==
  ASSUME NEW fs, NEW P, NEW Q \in SUBSET P, Sized(fs, P)
  PROVE  TextSize(fs, Q) <= TextSize(fs, P)
<1> DEFINE all == SizesIn(fs, P)
<1>1. IsFiniteSet(P) /\ IsFiniteSet(Q) /\ \A p \in P : all[p] \in Nat
  BY FS_Subset DEF Sized, SizesIn
<1>2. \A p \in Q : all[p] = SizesIn(fs, Q)[p]
  BY DEF SizesIn
<1> HIDE DEF all
<1>3. SumFunctionOnSet(all, Q) <= SumFunctionOnSet(all, P)
  BY <1>1, SumMonotone
<1>4. SumFunctionOnSet(all, Q) = SumFunctionOnSet(SizesIn(fs, Q), Q)
  BY <1>1, <1>2, SumSame
<1>5. SumFunctionOnSet(all, Q) \in Nat /\ SumFunctionOnSet(all, P) \in Nat
  BY <1>1, SumNat
<1>6. /\ TextSize(fs, Q) = SumFunctionOnSet(all, Q) - StampSize - 1
      /\ TextSize(fs, P) = SumFunctionOnSet(all, P) - StampSize - 1
  BY <1>4 DEF TextSize, all
<1> QED
  BY <1>3, <1>5, <1>6, LogAssumption

LEMMA TextIsInt ==
  ASSUME NEW fs, NEW P, Sized(fs, P)
  PROVE  TextSize(fs, P) \in Int
<1> DEFINE all == SizesIn(fs, P)
<1>1. IsFiniteSet(P) /\ \A p \in P : all[p] \in Nat
  BY DEF Sized, SizesIn
<1> HIDE DEF all
<1>2. SumFunctionOnSet(all, P) \in Nat
  BY <1>1, SumNat
<1> QED
  BY <1>2, LogAssumption DEF TextSize, all

\* The lines of the entry at line i of file f.
LEMMA EntryLines ==
  ASSUME TypeOK, NEW f \in DOMAIN files, NEW i \in DOMAIN files[f].lines
  PROVE  /\ Sized(files, EntryAt(f, files[f].lines, i))
         /\ \A p \in EntryAt(f, files[f].lines, i) :
              p = <<f, p[2]>> /\ p[1] = f /\ p[2] \in DOMAIN files[f].lines
<1> DEFINE lines == files[f].lines
<1>1. /\ lines \in Seq(Line) /\ DOMAIN lines = 1 .. Len(lines) /\ Len(lines) \in Nat
  <2>1. files[f] \in [step : Steps, lines : Contents]
    BY ElementOfSeq, LenProperties DEF TypeOK
  <2> QED
    BY <2>1, LogAssumption, LenProperties
<1>2. \A j \in DOMAIN lines : lines[j].size \in Nat
  <2>1. \A j \in DOMAIN lines : lines[j] \in Line
    BY <1>1, ElementOfSeq
  <2> QED
    BY <2>1 DEF Line
<1>3. \A p \in EntryAt(f, lines, i) : p = <<f, p[2]>> /\ p[1] = f /\ p[2] \in DOMAIN lines
  BY DEF EntryAt
<1>4. IsFiniteSet(EntryAt(f, lines, i))
  <2>1. IsFiniteSet({f} \X (1 .. Len(lines)))
    <3>1. IsFiniteSet({f})
      BY FS_Singleton
    <3>2. IsFiniteSet(1 .. Len(lines))
      BY <1>1, FS_Interval
    <3> QED
      BY <3>1, <3>2, FS_Product
  <2>2. EntryAt(f, lines, i) \subseteq {f} \X (1 .. Len(lines))
    BY <1>1 DEF EntryAt
  <2> QED
    BY <2>1, <2>2, FS_Subset
<1> QED
  BY <1>2, <1>3, <1>4 DEF Sized

\* What finalizeLogEntry adds to the records.
LEMMA FinalizedRecords ==
  ASSUME TypeOK, records' = FinalizedIfAny
  PROVE  /\ \A n \in DOMAIN records :
              n \in DOMAIN records' /\ records'[n] = records[n] /\ n < Len(records) + 1
         /\ \A n \in DOMAIN records' : n \in DOMAIN records \/ n = Len(records) + 1
         /\ DOMAIN records \subseteq Nat /\ Len(records) \in Nat
         /\ Len(records) + 1 \in DOMAIN records' <=> builder.has
         /\ builder.has => /\ records'[Len(records) + 1].lines = builder.lines
                           /\ records'[Len(records) + 1].size = builder.size
<1>1. /\ records \in Seq(RecordType) /\ Len(records) \in Nat /\ DOMAIN records = 1 .. Len(records)
  BY LenProperties DEF TypeOK
<1>2. CASE ~builder.has
  BY <1>1, <1>2 DEF FinalizedIfAny
<1>3. CASE builder.has
  <2> DEFINE r == [step |-> File.step, time |-> builder.time,
                   lines |-> builder.lines, size |-> builder.size]
  <2>1. records' = Append(records, r)
    BY <1>3 DEF FinalizedIfAny, Finalized
  <2>2. r.lines = builder.lines /\ r.size = builder.size
    OBVIOUS
  <2> HIDE DEF r
  <2>3. /\ DOMAIN records' = 1 .. Len(records) + 1
        /\ records'[Len(records) + 1] = r
        /\ \A n \in 1 .. Len(records) : records'[n] = records[n]
    BY <1>1, <2>1
  <2> QED
    BY <1>1, <1>3, <2>2, <2>3
<1> QED
  BY <1>2, <1>3

Held == LinesInv /\ OrderInv /\ EntriesInv

\* The line that was scanned: the next one, after all that was read.
LEMMA HereIs ==
  ASSUME TypeOK, Scanned
  PROVE  /\ Here \in Nat \X Nat /\ Here[1] = Len(files) /\ Here[2] = next
         /\ Len(files) \in DOMAIN files /\ Len(files) \in Nat /\ next \in Nat /\ next # 0
         /\ next \in DOMAIN files[Len(files)].lines /\ File = files[Len(files)]
         /\ files[Here[1]].lines[Here[2]] = Current
         /\ ~ Read(Here) /\ \A p : Read(p) => Precedes(p, Here)
<1>1. /\ Len(files) \in DOMAIN files /\ File = files[Len(files)]
      /\ next \in DOMAIN File.lines /\ next \in Nat /\ next # 0 /\ Current = File.lines[next]
  BY FileType, CurrentType DEF Scanned
<1>2. Len(files) \in Nat
  BY LenProperties DEF TypeOK
<1>3. Here = <<Len(files), next>>
  BY DEF Here
<1> QED
  BY <1>1, <1>2, <1>3 DEF Read, Precedes

\* What was read stays read when the files and the place in them go on.
LEMMA ReadStays ==
  ASSUME TypeOK, UNCHANGED files, next # 0, next' = next + 1 \/ next' = 0, NEW P, Positions(P)
  PROVE  Positions(P)'
<1>1. next \in Nat
  BY DEF TypeOK
<1>2. \A p \in P : p[2] \in Nat
  BY DEF Positions
<1>3. \A p \in P : Read(p) => Read(p)'
  BY <1>1, <1>2 DEF Read
<1> QED
  BY <1>3 DEF Positions

LEMMA PositionsAreSized ==
  ASSUME TypeOK, NEW P, Positions(P)
  PROVE  Sized(files, P)
<1>1. ASSUME NEW p \in P PROVE files[p[1]].lines[p[2]].size \in Nat
  <2>1. files[p[1]] \in [step : Steps, lines : Contents]
    BY ElementOfSeq, LenProperties DEF TypeOK, Positions
  <2>2. files[p[1]].lines \in Seq(Line)
    BY <2>1, LogAssumption
  <2>3. files[p[1]].lines[p[2]] \in Line
    BY <2>2, ElementOfSeq, LenProperties DEF Positions
  <2> QED
    BY <2>3 DEF Line
<1> QED
  BY <1>1 DEF Sized, Positions

LEMMA HerePosition ==
  ASSUME TypeOK, Scanned, UNCHANGED files, next' = next + 1, NEW h, h = Here
  PROVE  /\ Positions({h})'
         /\ \A P : Positions(P) => Positions(P \cup {h})'
         /\ TextSize(files, {h}) = Current.size - StampSize
         /\ \A P : Positions(P) =>
              TextSize(files, P \cup {h}) = TextSize(files, P) + 1 + Current.size
<1>1. /\ h \in Nat \X Nat /\ h[1] = Len(files) /\ h[2] = next
      /\ Len(files) \in DOMAIN files /\ Len(files) \in Nat /\ next \in Nat /\ next # 0
      /\ next \in DOMAIN files[Len(files)].lines
      /\ files[h[1]].lines[h[2]] = Current /\ ~ Read(h)
  BY HereIs
<1>2. IsFiniteSet({h})
  BY FS_Singleton
<1>3. Read(h)'
  <2>1. h[2] < next' /\ next' # 0
    BY <1>1
  <2> QED
    BY <1>1, <2>1 DEF Read
<1>4. Positions({h})'
  BY <1>1, <1>2, <1>3 DEF Positions
<1>5. ASSUME NEW P, Positions(P)
      PROVE  /\ Positions(P \cup {h})'
             /\ TextSize(files, P \cup {h}) = TextSize(files, P) + 1 + Current.size
  <2>1. Positions(P)'
    BY <1>1, <1>5, ReadStays
  <2>2. IsFiniteSet(P \cup {h}) /\ IsFiniteSet(P) /\ h \notin P
    BY <1>1, <1>5, FS_AddElement DEF Positions
  <2>3. Positions(P \cup {h})'
    BY <1>4, <2>1, <2>2 DEF Positions
  <2>4. Sized(files, P \cup {h})
    BY <1>1, <1>5, <2>2, PositionsAreSized, CurrentType DEF Sized
  <2>5. TextSize(files, P \cup {h}) = TextSize(files, P) + 1 + files[h[1]].lines[h[2]].size
    BY <2>2, <2>4, TextGrows
  <2> QED
    BY <1>1, <2>3, <2>5
<1>6. TextSize(files, {h}) = Current.size - StampSize
  BY <1>1, CurrentType, TextOfOne
<1> QED
  BY <1>4, <1>5, <1>6

\* Nothing is lost while a line is passed.
LEMMA PassHolds ==
  ASSUME IInv, Held, EmptyLine \/ Orphan \/ SkipLine
  PROVE  LinesInv' /\ OrderInv'
<1>1. /\ TypeOK /\ Scanned /\ next # 0 /\ next' = next + 1
      /\ UNCHANGED files /\ UNCHANGED builder /\ UNCHANGED records
  BY DEF IInv, EmptyLine, Orphan, SkipLine, Scanned
<1>2. \A P : Positions(P) => Positions(P)'
  BY <1>1, ReadStays
<1> QED
  BY <1>1, <1>2 DEF Held, LinesInv, OrderInv

LEMMA ExtendHolds == ASSUME IInv, Held, ExtendEntry PROVE LinesInv' /\ OrderInv'
<1>1. /\ TypeOK /\ Scanned /\ next # 0 /\ next' = next + 1 /\ builder.has
      /\ UNCHANGED files /\ UNCHANGED records
      /\ builder' = [builder EXCEPT !.lines = @ \cup {Here}, !.size = @ + 1 + Current.size]
  BY DEF IInv, ExtendEntry, Scanned
<1>2. PICK h, P : h = Here /\ P = builder.lines
  OBVIOUS
<1>3. builder'.has /\ builder'.lines = P \cup {h} /\ builder'.size = builder.size + 1 + Current.size
  BY <1>1, <1>2 DEF TypeOK, BuilderType
<1>4. \A Q : Positions(Q) => Positions(Q)'
  BY <1>1, ReadStays
<1>5. /\ Positions(P \cup {h})'
      /\ TextSize(files, P \cup {h}) = TextSize(files, P) + 1 + Current.size
  <2>1. Positions(P)
    BY <1>1, <1>2 DEF Held, LinesInv
  <2> QED
    BY <1>1, <1>2, <2>1, HerePosition
<1>6. LinesInv'
  BY <1>1, <1>2, <1>3, <1>4, <1>5 DEF Held, LinesInv
<1>7. OrderInv'
  <2>1. \A n \in DOMAIN records : \A p \in records[n].lines : Precedes(p, h)
    BY <1>1, <1>2, HereIs DEF Held, LinesInv, Positions
  <2> QED
    BY <1>1, <1>2, <1>3, <2>1 DEF Held, OrderInv
<1> QED
  BY <1>6, <1>7

\* The entry of the builder is finalized, and what was read is behind it.
LEMMA FinalizeHolds ==
  ASSUME IInv, Held, records' = FinalizedIfAny, UNCHANGED files, next # 0,
         next' = next + 1 \/ next' = 0
  PROVE  /\ \A n \in DOMAIN records' :
              /\ \A P : P = records'[n].lines => Positions(P)'
              /\ records'[n].size = TextSize(files, records'[n].lines)
         /\ \A n, m \in DOMAIN records' : n < m =>
              \A p \in records'[n].lines, q \in records'[m].lines : Precedes(p, q)
         /\ \A n \in DOMAIN records' : \A p \in records'[n].lines : Read(p)
<1>1. TypeOK /\ LinesInv /\ OrderInv
  BY DEF IInv, Held
<1>2. \A P : Positions(P) => Positions(P)' /\ \A p \in P : Read(p)
  BY <1>1, ReadStays DEF Positions
<1>3. ASSUME NEW n \in DOMAIN records'
      PROVE  /\ \A P : P = records'[n].lines => Positions(P)'
             /\ records'[n].size = TextSize(files, records'[n].lines)
             /\ \A p \in records'[n].lines : Read(p)
  <2>1. PICK P : P = records'[n].lines
    OBVIOUS
  <2>2. Positions(P) /\ records'[n].size = TextSize(files, P)
    <3>1. CASE n \in DOMAIN records
      BY <1>1, <2>1, <3>1, FinalizedRecords DEF LinesInv
    <3>2. CASE n \notin DOMAIN records
      BY <1>1, <2>1, <3>2, FinalizedRecords DEF LinesInv
    <3> QED
      BY <3>1, <3>2
  <2> QED
    BY <1>2, <2>1, <2>2
<1>4. ASSUME NEW n \in DOMAIN records', NEW m \in DOMAIN records', n < m,
             NEW p \in records'[n].lines, NEW q \in records'[m].lines
      PROVE  Precedes(p, q)
  <2>1. n \in DOMAIN records /\ records'[n] = records[n]
    BY <1>1, <1>4, FinalizedRecords
  <2>2. CASE m \in DOMAIN records
    BY <1>1, <1>4, <2>1, <2>2, FinalizedRecords DEF OrderInv
  <2>3. CASE m \notin DOMAIN records
    BY <1>1, <1>4, <2>1, <2>3, FinalizedRecords DEF OrderInv
  <2> QED
    BY <2>2, <2>3
<1> QED
  BY <1>3, <1>4

LEMMA StartHolds == ASSUME IInv, Held, StartEntry PROVE LinesInv' /\ OrderInv'
<1>1. /\ TypeOK /\ Scanned /\ next # 0 /\ next' = next + 1 /\ UNCHANGED files
      /\ records' = FinalizedIfAny
      /\ builder' = [has |-> TRUE, time |-> Current.stamp, lines |-> {Here},
                     size |-> RestSize(Current)]
  BY DEF IInv, StartEntry, Scanned
<1>2. PICK h : h = Here
  OBVIOUS
<1>3. builder'.has /\ builder'.lines = {h} /\ builder'.size = Current.size - StampSize
  BY <1>1, <1>2 DEF RestSize
<1>4. Positions({h})' /\ TextSize(files, {h}) = Current.size - StampSize
  BY <1>1, <1>2, HerePosition
<1>5. LinesInv'
  BY <1>1, <1>3, <1>4, FinalizeHolds DEF LinesInv
<1>6. OrderInv'
  <2>1. \A p : Read(p) => Precedes(p, h)
    BY <1>1, <1>2, HereIs
  <2> QED
    BY <1>1, <1>3, <2>1, FinalizeHolds DEF OrderInv
<1> QED
  BY <1>5, <1>6

LEMMA CloseHolds == ASSUME IInv, Held, CloseFile PROVE LinesInv' /\ OrderInv'
<1>1. /\ next # 0 /\ next' = 0 /\ UNCHANGED files /\ records' = FinalizedIfAny
      /\ ~ builder'.has
  BY DEF CloseFile, EndOfFile, Reset
<1>2. LinesInv'
  BY <1>1, FinalizeHolds DEF LinesInv
<1>3. OrderInv'
  BY <1>1, FinalizeHolds DEF OrderInv
<1> QED
  BY <1>2, <1>3

LEMMA OpenHolds ==
  ASSUME IInv, Held, NEW step \in Steps, NEW lines \in Contents, OpenFile(step, lines)
  PROVE  LinesInv' /\ OrderInv'
<1>1. /\ TypeOK /\ next = 0 /\ next' = 1 /\ UNCHANGED builder /\ UNCHANGED records
      /\ files' = Append(files, [step |-> step, lines |-> lines]) /\ ~ builder.has
  BY DEF OpenFile, IInv, BuilderInv
<1>2. /\ \A f \in DOMAIN files : f \in DOMAIN files' /\ files'[f] = files[f] /\ f < Len(files')
      /\ DOMAIN files \subseteq Nat
  BY <1>1 DEF TypeOK
<1>3. ASSUME NEW P, Positions(P) PROVE Positions(P)' /\ TextSize(files', P) = TextSize(files, P)
  <2>1. Positions(P)'
    BY <1>2, <1>3 DEF Positions, Read
  <2> QED
    BY <1>2, <1>3, <2>1, TextStays DEF Positions
<1>4. LinesInv'
  BY <1>1, <1>3 DEF Held, LinesInv
<1>5. OrderInv'
  BY <1>1 DEF Held, OrderInv
<1> QED
  BY <1>4, <1>5

LEMMA RecordedStays ==
  ASSUME UNCHANGED files, NEW f, NEW i, Recorded(f, i),
         \A n \in DOMAIN records : n \in DOMAIN records' /\ records'[n] = records[n]
  PROVE  Recorded(f, i)'
BY DEF Recorded

LEMMA StampsAre ==
  ASSUME TypeOK, NEW f \in DOMAIN files
  PROVE  /\ files[f].lines \in Seq(Line) /\ Len(files[f].lines) \in Nat
         /\ DOMAIN files[f].lines = 1 .. Len(files[f].lines)
         /\ Stamps(files[f].lines) \subseteq DOMAIN files[f].lines
         /\ \A i \in Stamps(files[f].lines) : i \in Nat /\ Stamped(files[f].lines[i])
<1>1. files[f] \in [step : Steps, lines : Contents]
  BY ElementOfSeq, LenProperties DEF TypeOK
<1>2. files[f].lines \in Seq(Line)
  BY <1>1, LogAssumption
<1> QED
  BY <1>2, LenProperties DEF Stamps

\* A line without a timestamp is added to the entry that is being read, if it is part of it.
LEMMA PassEntries ==
  ASSUME IInv, Held, EmptyLine \/ Orphan \/ SkipLine \/ ExtendEntry
  PROVE  EntriesInv'
<1>1. /\ TypeOK /\ Scanned /\ next # 0 /\ next' = next + 1 /\ ~ Stamped(Current)
      /\ UNCHANGED files /\ UNCHANGED records /\ next' # 0
  BY CurrentType, LogAssumption
     DEF IInv, TypeOK, EmptyLine, Orphan, SkipLine, ExtendEntry, Scanned
<1> SUFFICES ASSUME NEW f \in DOMAIN files, KeepsLimits(files, f),
                    NEW i \in Stamps(files[f].lines), f # Len(files) \/ i < next + 1
             PROVE  Recorded(f, i)' \/ HeldAt(f, i)'
  BY <1>1 DEF EntriesInv
<1>2. PICK h : h = Here
  OBVIOUS
<1>3. /\ h = <<Len(files), next>> /\ h[1] = Len(files) /\ h[2] = next /\ next \in Nat
      /\ next \in DOMAIN files[Len(files)].lines
      /\ Current = files[Len(files)].lines[next]
  BY <1>1, <1>2, HereIs DEF Here
<1>4. CASE Recorded(f, i)
  BY <1>1, <1>4, RecordedStays
<1>5. CASE ~ Recorded(f, i)
  <2>1. i \in Nat /\ i \in DOMAIN files[f].lines /\ Stamped(files[f].lines[i])
        /\ files[f].lines \in Seq(Line)
    BY <1>1, StampsAre
  <2>2. f # Len(files) \/ i < next
    BY <1>1, <1>3, <2>1
  <2>3. HeldAt(f, i)
    BY <1>5, <2>2 DEF Held, EntriesInv
  <2>4. f = Len(files) /\ builder.has /\ i < next
    BY <2>2, <2>3 DEF HeldAt
  <2> DEFINE lines == files[f].lines
             all == EntryAt(f, lines, i)
  <2>5. Latest(lines, i, next + 1)
    BY <1>1, <1>3, <2>1, <2>3, StampsAre DEF HeldAt, Latest
  <2>6. /\ Sized(files, all)
        /\ \A p \in all : p = <<f, p[2]>> /\ p[2] \in Nat
    BY <1>1, <2>1, EntryLines, StampsAre
  <2>7. h \in all <=> Current.size > 0
    <3>1. Current.size > 0 => <<f, next>> \in all
      BY <1>1, <1>3, <2>1, <2>3, <2>4, Extends DEF HeldAt
    <3>2. <<f, next>> \in all => Current.size > 0
      BY <1>3, <2>4 DEF EntryAt
    <3> QED
      BY <1>3, <2>4, <3>1, <3>2
  <2> HIDE DEF all, lines
  <2>8. {p \in all : p[2] < next + 1} = {p \in all : p[2] < next} \cup (all \cap {h})
    BY <1>3, <2>4, <2>6
  <2>9. builder.lines = {p \in all : p[2] < next}
    BY <2>3 DEF HeldAt, all, lines
  <2>10. ASSUME Current.size > 0, Positions(builder.lines), builder.size = TextSize(files, builder.lines)
         PROVE  Fits
    <3>1. builder.lines \cup {h} \in SUBSET all
      BY <2>7, <2>9, <2>10
    <3>2. TextSize(files, builder.lines \cup {h}) <= TextSize(files, all)
      BY <2>6, <3>1, TextOfPart
    <3>3. TextSize(files, builder.lines \cup {h}) = builder.size + 1 + Current.size
      BY <1>1, <1>2, <2>10, HerePosition
    <3>4. TextSize(files, all) <= MaxSize
      BY DEF KeepsLimits, all, lines
    <3>5. TextSize(files, all) \in Int
      BY <2>6, TextIsInt
    <3> QED
      BY <1>1, <3>2, <3>3, <3>4, <3>5, CurrentType, LogAssumption DEF Fits, TypeOK, BuilderType
  <2>11. builder'.has /\ builder'.lines = {p \in all : p[2] < next + 1}
    <3>1. CASE EmptyLine
      BY <2>4, <2>7, <2>8, <2>9, <3>1 DEF EmptyLine
    <3>2. CASE Orphan
      BY <2>4, <3>2 DEF Orphan
    <3>3. CASE SkipLine
      BY <2>4, <2>10, <3>3 DEF SkipLine, Held, LinesInv
    <3>4. CASE ExtendEntry
      <4>1. /\ builder' = [builder EXCEPT !.lines = @ \cup {Here}, !.size = @ + 1 + Current.size]
            /\ Current.size > 0
        BY <3>4 DEF ExtendEntry
      <4>2. builder'.has /\ builder'.lines = builder.lines \cup {h}
        BY <1>1, <1>2, <2>4, <4>1 DEF TypeOK, BuilderType
      <4> QED
        BY <2>7, <2>8, <2>9, <4>1, <4>2
    <3> QED
      BY <3>1, <3>2, <3>3, <3>4
  <2>12. HeldAt(f, i)'
    BY <1>1, <1>3, <2>4, <2>5, <2>11 DEF HeldAt, all, lines
  <2> QED
    BY <2>12
<1> QED
  BY <1>4, <1>5

\* The next entry begins, or the file ends: the one before it is complete.
LEMMA CompleteEntry ==
  ASSUME IInv, Held, records' = FinalizedIfAny, UNCHANGED files,
         NEW f \in DOMAIN files, KeepsLimits(files, f), NEW i \in Stamps(files[f].lines),
         f # Len(files) \/ next = 0 \/ i < next,
         HeldAt(f, i) => \A p \in EntryAt(f, files[f].lines, i) : p[2] < next
  PROVE  Recorded(f, i)'
<1>1. TypeOK /\ \A n \in DOMAIN records : n \in DOMAIN records' /\ records'[n] = records[n]
  BY FinalizedRecords DEF IInv
<1>2. CASE Recorded(f, i)
  BY <1>1, <1>2, RecordedStays
<1>3. CASE ~ Recorded(f, i)
  <2>1. HeldAt(f, i)
    BY <1>3 DEF Held, EntriesInv
  <2>2. builder.has /\ builder.lines = EntryAt(f, files[f].lines, i)
    BY <2>1 DEF HeldAt
  <2>3. /\ Len(records) + 1 \in DOMAIN records'
        /\ records'[Len(records) + 1].lines = EntryAt(f, files[f].lines, i)
    BY <1>1, <2>2, FinalizedRecords
  <2> QED
    BY <2>3 DEF Recorded
<1> QED
  BY <1>2, <1>3

LEMMA StartEntries == ASSUME IInv, Held, StartEntry PROVE EntriesInv'
<1>1. /\ TypeOK /\ Scanned /\ next # 0 /\ next' = next + 1 /\ Stamped(Current)
      /\ UNCHANGED files /\ records' = FinalizedIfAny
      /\ builder' = [has |-> TRUE, time |-> Current.stamp, lines |-> {Here},
                     size |-> RestSize(Current)]
  BY DEF IInv, StartEntry, Scanned
<1>2. /\ next \in Nat /\ next' # 0 /\ Current = files[Len(files)].lines[next]
      /\ next \in DOMAIN files[Len(files)].lines /\ Here = <<Len(files), next>>
  BY <1>1, HereIs, CurrentType DEF Here
<1> SUFFICES ASSUME NEW f \in DOMAIN files, KeepsLimits(files, f),
                    NEW i \in Stamps(files[f].lines), f # Len(files) \/ i < next + 1
             PROVE  Recorded(f, i)' \/ HeldAt(f, i)'
  BY <1>1, <1>2 DEF EntriesInv
<1> DEFINE lines == files[f].lines
           all == EntryAt(f, lines, i)
<1>3. /\ i \in Nat /\ i \in DOMAIN lines /\ DOMAIN lines = 1 .. Len(lines) /\ Len(lines) \in Nat
      /\ lines \in Seq(Line)
  BY <1>1, StampsAre
<1>4. \A p \in all : p = <<f, p[2]>> /\ p[2] \in DOMAIN lines /\ p[2] \in Nat
  <2>1. \A p \in all : p = <<f, p[2]>> /\ p[2] \in DOMAIN lines
    BY <1>1, <1>3, EntryLines
  <2>2. DOMAIN lines \subseteq Nat
    BY <1>3
  <2> QED
    BY <2>1, <2>2
<1>5. ASSUME f = Len(files), i < next PROVE \A p \in all : p[2] < next
  <2> SUFFICES ASSUME NEW p \in all, ~ (p[2] < next) PROVE FALSE
    OBVIOUS
  <2>1. p[2] \in Nat /\ p # <<f, i>>
    BY <1>2, <1>3, <1>4, <1>5
  <2>2. \A k \in i + 1 .. p[2] : ~ Stamped(lines[k])
    BY <2>1 DEF EntryAt
  <2>3. next \in i + 1 .. p[2]
    BY <1>2, <1>3, <1>5, <2>1
  <2> QED
    BY <1>1, <1>2, <1>5, <2>2, <2>3
<1>6. CASE f # Len(files) \/ i < next
  <2>1. HeldAt(f, i) => \A p \in all : p[2] < next
    BY <1>5, <1>6 DEF HeldAt
  <2>2. Recorded(f, i)'
    BY <1>1, <1>6, <2>1, CompleteEntry
  <2> QED
    BY <2>2
<1>7. CASE f = Len(files) /\ i = next
  <2>1. Latest(lines, i, next + 1)
    BY <1>2, <1>3, <1>7 DEF Latest
  <2>2. {Here} = {p \in all : p[2] < next + 1}
    <3>1. Here \in all /\ Here = <<f, i>> /\ Here[2] < next + 1
      BY <1>2, <1>7 DEF EntryAt
    <3>2. \A p \in all : p[2] < next + 1 => p = <<f, i>>
      <4> SUFFICES ASSUME NEW p \in all, p[2] < next + 1, p # <<f, i>> PROVE FALSE
        OBVIOUS
      <4>1. p[2] > i
        BY DEF EntryAt
      <4> QED
        BY <1>2, <1>3, <1>4, <1>7, <4>1
    <3> QED
      BY <3>1, <3>2
  <2>3. HeldAt(f, i)'
    BY <1>1, <1>2, <1>7, <2>1, <2>2 DEF HeldAt
  <2> QED
    BY <2>3
<1>8. f # Len(files) \/ i < next \/ i = next
  BY <1>2, <1>3
<1> QED
  BY <1>6, <1>7, <1>8

LEMMA CloseEntries == ASSUME IInv, Held, CloseFile PROVE EntriesInv'
<1>1. /\ TypeOK /\ ~ Scanned /\ next # 0 /\ next' = 0 /\ UNCHANGED files /\ records' = FinalizedIfAny
  BY DEF IInv, CloseFile, EndOfFile
<1>2. Len(files) \in DOMAIN files /\ File = files[Len(files)] /\ next \in Nat
  BY <1>1, FileType DEF TypeOK
<1> SUFFICES ASSUME NEW f \in DOMAIN files, KeepsLimits(files, f), NEW i \in Stamps(files[f].lines)
             PROVE  Recorded(f, i)'
  BY <1>1 DEF EntriesInv
<1>3. f # Len(files) \/ Len(files[f].lines) < next
  <2> SUFFICES ASSUME f = Len(files), ~ (Len(files[f].lines) < next) PROVE FALSE
    OBVIOUS
  <2>1. next \in DOMAIN files[f].lines /\ next <= Len(files[f].lines)
    BY <1>1, <1>2, StampsAre
  <2>2. files[f].lines[next].size < MaxSize
    BY <2>1 DEF KeepsLimits
  <2> QED
    BY <1>1, <1>2, <2>1, <2>2 DEF Scanned, Current
<1>4. /\ i \in Nat /\ i \in DOMAIN files[f].lines
      /\ DOMAIN files[f].lines = 1 .. Len(files[f].lines) /\ Len(files[f].lines) \in Nat
  BY <1>1, StampsAre
<1>5. f # Len(files) \/ i < next
  BY <1>2, <1>3, <1>4
<1>6. HeldAt(f, i) => \A p \in EntryAt(f, files[f].lines, i) : p[2] < next
  <2>1. \A p \in EntryAt(f, files[f].lines, i) : p[2] \in 1 .. Len(files[f].lines)
    BY <1>1, <1>4, EntryLines
  <2> QED
    BY <1>2, <1>3, <1>4, <2>1 DEF HeldAt
<1> QED
  BY <1>1, <1>5, <1>6, CompleteEntry

LEMMA OpenEntries ==
  ASSUME IInv, Held, NEW step \in Steps, NEW new \in Contents, OpenFile(step, new)
  PROVE  EntriesInv'
<1>1. /\ TypeOK /\ next = 0 /\ next' = 1 /\ UNCHANGED builder /\ UNCHANGED records
      /\ files' = Append(files, [step |-> step, lines |-> new])
  BY DEF OpenFile, IInv
<1>2. /\ \A f \in DOMAIN files' : f \in DOMAIN files \/ f = Len(files')
      /\ \A f \in DOMAIN files : files'[f] = files[f] /\ f # Len(files')
      /\ files' \in Seq([step : Steps, lines : Contents])
  BY <1>1 DEF TypeOK
<1> SUFFICES ASSUME NEW f \in DOMAIN files', KeepsLimits(files', f), NEW i \in Stamps(files'[f].lines),
                    f # Len(files') \/ i < 1
             PROVE  Recorded(f, i)' \/ HeldAt(f, i)'
  BY <1>1 DEF EntriesInv
<1>3. i \in DOMAIN files'[f].lines /\ DOMAIN files'[f].lines \subseteq Nat \ {0}
  <2>1. files'[f] \in [step : Steps, lines : Contents]
    BY <1>2, ElementOfSeq, LenProperties
  <2>2. files'[f].lines \in Seq(Line)
    BY <2>1, LogAssumption
  <2> QED
    BY <2>2, LenProperties DEF Stamps
<1>4. f \in DOMAIN files /\ files'[f] = files[f]
  BY <1>2, <1>3
<1>5. KeepsLimits(files, f)
  <2>1. ASSUME NEW j \in Stamps(files[f].lines)
        PROVE  TextSize(files', EntryAt(f, files[f].lines, j)) = TextSize(files, EntryAt(f, files[f].lines, j))
    <3>1. /\ IsFiniteSet(EntryAt(f, files[f].lines, j))
          /\ \A p \in EntryAt(f, files[f].lines, j) : p[1] = f
      BY <1>1, <1>4, EntryLines DEF Sized, Stamps
    <3> QED
      BY <1>4, <3>1, TextStays
  <2> QED
    BY <1>4, <2>1 DEF KeepsLimits
<1>6. Recorded(f, i)
  BY <1>1, <1>4, <1>5 DEF Held, EntriesInv, HeldAt
<1> QED
  BY <1>1, <1>4, <1>6 DEF Recorded

LEMMA HeldAlways == Spec => [](IInv /\ Held)
<1>1. Init => Held
  BY DEF Init, Reset, Held, LinesInv, OrderInv, EntriesInv
<1>2. IInv /\ Held /\ [Next]_vars => Held'
  <2> SUFFICES ASSUME IInv, Held, [Next]_vars PROVE Held'
    OBVIOUS
  <2>1. CASE UNCHANGED vars
    BY <2>1 DEF vars, Held, LinesInv, OrderInv, EntriesInv, Positions, Read, Recorded, HeldAt
  <2>2. ASSUME NEW step \in Steps, NEW lines \in Contents, OpenFile(step, lines) PROVE Held'
    BY <2>2, OpenHolds, OpenEntries DEF Held
  <2>3. CASE EmptyLine \/ Orphan \/ SkipLine
    BY <2>3, PassHolds, PassEntries DEF Held
  <2>4. CASE ExtendEntry
    BY <2>4, ExtendHolds, PassEntries DEF Held
  <2>5. CASE StartEntry
    BY <2>5, StartHolds, StartEntries DEF Held
  <2>6. CASE CloseFile
    BY <2>6, CloseHolds, CloseEntries DEF Held
  <2> QED
    BY <2>1, <2>2, <2>3, <2>4, <2>5, <2>6 DEF Next, Done
<1> QED
  BY <1>1, <1>2, Inductive, PTL DEF Spec

\* RecordsWithinLimit: the size processLogEntries keeps of a body is what its lines add
\* up to, so that the limit holds of the text itself.
THEOREM BodiesAddUp == Spec => []RecordsWithinLimit
<1>1. IInv /\ Held => RecordsWithinLimit
  <2> SUFFICES ASSUME IInv, Held PROVE RecordsWithinLimit
    OBVIOUS
  <2>1. \A P : SizeOf(P) = TextSize(files, P)
    BY Zenon DEF SizeOf, LineAt, TextSize, SizesIn
  <2> QED
    BY <2>1 DEF RecordsWithinLimit, IInv, Held, LinesInv
<1> QED
  BY <1>1, HeldAlways, PTL

\* RecordsAreEntries: no line of an entry is lost, none gets into another one and none
\* comes out of order, as long as the file keeps the limits of the scanner and of bodies.
THEOREM RecordsAreTheEntries == Spec => []RecordsAreEntries
<1>1. IInv /\ Held => RecordsAreEntries
  <2> SUFFICES ASSUME IInv, Held PROVE RecordsAreEntries
    OBVIOUS
  <2>1. \A P : SizeOf(P) = TextSize(files, P)
    BY Zenon DEF SizeOf, LineAt, TextSize, SizesIn
  <2>2. ASSUME NEW f \in ReadFiles, WithinLimits(f), NEW i \in Stamps(files[f].lines)
        PROVE  \E n \in DOMAIN records : records[n].lines = EntryAt(f, files[f].lines, i)
    <3>1. f \in DOMAIN files /\ (next = 0 \/ f # Len(files))
      BY DEF ReadFiles
    <3>2. KeepsLimits(files, f)
      BY <2>1, <2>2 DEF WithinLimits, KeepsLimits
    <3>3. Recorded(f, i)
      BY <3>1, <3>2 DEF Held, EntriesInv, HeldAt
    <3> QED
      BY <3>3 DEF Recorded
  <2>3. \A n, m \in DOMAIN records : n < m =>
          \A p \in records[n].lines, q \in records[m].lines :
            p[1] < q[1] \/ (p[1] = q[1] /\ p[2] < q[2])
    BY DEF Held, OrderInv, Precedes
  <2> QED
    BY <2>2, <2>3 DEF RecordsAreEntries
<1> QED
  BY <1>1, HeldAlways, PTL
-------------------------------------------------------------------------------
\* What the scanner needs to read on: no line of the file is as long as its buffer.
Readable(lines) == \A i \in DOMAIN lines : lines[i].size < MaxSize

\* The line where an entry begins is in a record, or still in the builder.
Begun(f, i) ==
  \/ \E n \in DOMAIN records : <<f, i>> \in records[n].lines
  \/ next # 0 /\ f = Len(files) /\ builder.has /\ <<f, i>> \in builder.lines

BegunInv ==
  \A f \in DOMAIN files : Readable(files[f].lines) => \A i \in Stamps(files[f].lines) :
    next = 0 \/ f # Len(files) \/ i < next => Begun(f, i)

\* An entry that is finalized is in a record afterwards.
LEMMA BegunFinalized ==
  ASSUME TypeOK, records' = FinalizedIfAny, NEW f, NEW i, Begun(f, i)
  PROVE  \E n \in DOMAIN records' : <<f, i>> \in records'[n].lines
<1>1. CASE \E n \in DOMAIN records : <<f, i>> \in records[n].lines
  BY <1>1, FinalizedRecords
<1>2. CASE builder.has /\ <<f, i>> \in builder.lines
  BY <1>2, FinalizedRecords
<1> QED
  BY <1>1, <1>2 DEF Begun

LEMMA BegunStep ==
  ASSUME IInv, BegunInv, [Next]_vars
  PROVE  BegunInv'
<1>1. TypeOK
  BY DEF IInv
<1>2. CASE UNCHANGED vars
  BY <1>2 DEF vars, BegunInv, Begun
<1>3. ASSUME NEW step \in Steps, NEW new \in Contents, OpenFile(step, new) PROVE BegunInv'
  <2>1. /\ next = 0 /\ next' = 1 /\ UNCHANGED builder /\ UNCHANGED records
        /\ files' = Append(files, [step |-> step, lines |-> new])
    BY <1>3 DEF OpenFile
  <2>2. /\ \A f \in DOMAIN files' : f \in DOMAIN files \/ f = Len(files')
        /\ \A f \in DOMAIN files : files'[f] = files[f] /\ f # Len(files')
        /\ files'[Len(files')].lines = new
    BY <1>1, <2>1 DEF TypeOK
  <2>3. \A i \in Stamps(new) : ~(i < 1)
    <3>1. new \in Seq(Line)
      BY LogAssumption
    <3>2. DOMAIN new = 1 .. Len(new) /\ Len(new) \in Nat
      BY <3>1, LenProperties
    <3> QED
      BY <3>2 DEF Stamps
  <2>4. ASSUME NEW f \in DOMAIN files', Readable(files'[f].lines), NEW i \in Stamps(files'[f].lines),
                    f # Len(files') \/ i < 1
        PROVE  Begun(f, i)'
    <3>1. f \in DOMAIN files /\ files'[f] = files[f]
      BY <2>2, <2>3, <2>4
    <3>2. Begun(f, i)
      BY <2>1, <2>4, <3>1 DEF BegunInv
    <3> QED
      BY <2>1, <3>2 DEF Begun
  <2> QED
    BY <2>1, <2>4 DEF BegunInv
<1>4. CASE EmptyLine \/ Orphan \/ SkipLine \/ ExtendEntry
  <2>1. /\ Scanned /\ next # 0 /\ next' = next + 1 /\ ~ Stamped(Current)
        /\ UNCHANGED files /\ UNCHANGED records /\ next' # 0
    BY <1>1, <1>4, CurrentType, LogAssumption
       DEF TypeOK, EmptyLine, Orphan, SkipLine, ExtendEntry, Scanned
  <2>2. builder'.has = builder.has /\ builder.lines \subseteq builder'.lines
    BY <1>1, <1>4 DEF EmptyLine, Orphan, SkipLine, ExtendEntry, TypeOK, BuilderType
  <2>3. Current = files[Len(files)].lines[next] /\ next \in Nat
    BY <1>1, <2>1, HereIs, CurrentType
  <2>4. ASSUME NEW f \in DOMAIN files, Readable(files[f].lines), NEW i \in Stamps(files[f].lines),
                    f # Len(files) \/ i < next + 1
        PROVE  Begun(f, i)'
    <3>1. f # Len(files) \/ i < next
      <4>1. i \in Nat /\ Stamped(files[f].lines[i])
        BY <1>1, StampsAre
      <4> QED
        BY <2>1, <2>3, <2>4, <4>1
    <3>2. Begun(f, i)
      BY <2>4, <3>1 DEF BegunInv
    <3> QED
      BY <2>1, <2>2, <3>2 DEF Begun
  <2> QED
    BY <2>1, <2>4 DEF BegunInv
<1>5. CASE StartEntry
  <2>1. /\ Scanned /\ next # 0 /\ next' = next + 1 /\ UNCHANGED files /\ records' = FinalizedIfAny
        /\ builder' = [has |-> TRUE, time |-> Current.stamp, lines |-> {Here},
                       size |-> RestSize(Current)]
    BY <1>5 DEF StartEntry, Scanned
  <2>2. Here = <<Len(files), next>> /\ next \in Nat /\ next' # 0
    BY <1>1, <2>1, HereIs DEF Here
  <2>3. ASSUME NEW f \in DOMAIN files, Readable(files[f].lines), NEW i \in Stamps(files[f].lines),
                    f # Len(files) \/ i < next + 1
        PROVE  Begun(f, i)'
    <3>1. i \in Nat
      BY <1>1, StampsAre
    <3>2. CASE f # Len(files) \/ i < next
      <4>1. Begun(f, i)
        BY <2>3, <3>2 DEF BegunInv
      <4> QED
        BY <1>1, <2>1, <4>1, BegunFinalized DEF Begun
    <3>3. CASE f = Len(files) /\ i = next
      BY <2>1, <2>2, <3>3 DEF Begun
    <3> QED
      BY <2>2, <2>3, <3>1, <3>2, <3>3
  <2> QED
    BY <2>1, <2>2, <2>3 DEF BegunInv
<1>6. CASE CloseFile
  <2>1. /\ ~ Scanned /\ next # 0 /\ next' = 0 /\ UNCHANGED files /\ records' = FinalizedIfAny
        /\ ~ builder'.has
    BY <1>6 DEF CloseFile, EndOfFile, Reset
  <2>2. /\ Len(files) \in DOMAIN files /\ File = files[Len(files)] /\ File.lines \in Contents
        /\ next \in Nat
    BY <1>1, <2>1, FileType DEF TypeOK
  <2>3. ASSUME Readable(File.lines) PROVE Len(File.lines) < next
    <3> SUFFICES ASSUME ~ (Len(File.lines) < next) PROVE FALSE
      OBVIOUS
    <3>1. next \in DOMAIN File.lines /\ next <= Len(File.lines)
      BY <1>1, <2>1, <2>2, StampsAre
    <3>2. Current.size < MaxSize
      BY <2>2, <2>3, <3>1 DEF Readable, Current
    <3> QED
      BY <2>1, <3>1, <3>2 DEF Scanned
  <2>4. ASSUME NEW f \in DOMAIN files, Readable(files[f].lines), NEW i \in Stamps(files[f].lines)
        PROVE  Begun(f, i)'
    <3>1. f # Len(files) \/ i < next
      <4>1. i \in 1 .. Len(files[f].lines) /\ Len(files[f].lines) \in Nat
        BY <1>1, StampsAre
      <4> QED
        BY <2>2, <2>3, <2>4, <4>1
    <3>2. Begun(f, i)
      BY <2>4, <3>1 DEF BegunInv
    <3> QED
      BY <1>1, <2>1, <3>2, BegunFinalized DEF Begun
  <2> QED
    BY <2>1, <2>4 DEF BegunInv
<1> QED
  BY <1>2, <1>3, <1>4, <1>5, <1>6 DEF Next, Done

\* What EveryEntryIsRecorded says of all files, which a line as long as the scanner's
\* buffer refutes (run log_long_line), holds of every file without such a line, whatever
\* the other files of the job are: nothing else loses an entry.
THEOREM ReadableEntriesAreRecorded ==
  Spec => [](\A f \in ReadFiles : Readable(files[f].lines) =>
               \A i \in Stamps(files[f].lines) :
                 \E n \in DOMAIN records : <<f, i>> \in records[n].lines)
<1> DEFINE Kept == \A f \in ReadFiles : Readable(files[f].lines) =>
                     \A i \in Stamps(files[f].lines) :
                       \E n \in DOMAIN records : <<f, i>> \in records[n].lines
<1>1. Init => BegunInv
  BY DEF Init, Reset, BegunInv
<1>2. IInv /\ BegunInv /\ [Next]_vars => BegunInv'
  BY BegunStep
<1>3. BegunInv => Kept
  BY DEF BegunInv, Begun, ReadFiles
<1> QED
  BY <1>1, <1>2, <1>3, Inductive, PTL DEF Spec
===============================================================================
