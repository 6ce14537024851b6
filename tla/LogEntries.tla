------------------------------ MODULE LogEntries ------------------------------
(***************************************************************************)
(* How the log files of one job become log records: processJobLogs and     *)
(* what it calls in receiver/githubactionsreceiver/log_event_handling.go.  *)
(* One logEntryBuilder serves all files of the job, one after the other.   *)
(*                                                                         *)
(* A line is its timestamp, or NoTime for a line parseTimestamp refuses,   *)
(* and its size, timestamp included.  A file is the lines that can be read *)
(* of it, under the step number its name begins with; system.txt, files    *)
(* with another name and files that cannot be opened are left out.         *)
(***************************************************************************)
EXTENDS Integers, Sequences, Functions

CONSTANTS
  Steps,      \* the step numbers files may bear
  Times,      \* the timestamps lines may bear
  NoTime,
  Contents,   \* the contents files may have
  StampSize,  \* the size of a timestamp and the space after it
  MaxSize,    \* maxLogEntryBytes
  MaxFiles    \* bound: files of the job

Line == [stamp : Times \cup {NoTime}, size : Nat]

ASSUME LogAssumption ==
  /\ Steps \subseteq Nat /\ NoTime \notin Times
  /\ StampSize \in Nat \ {0} /\ MaxSize \in Nat \ {0} /\ MaxFiles \in Nat
  /\ Contents \subseteq Seq(Line)
  /\ \A c \in Contents : \A i \in DOMAIN c :
       c[i].stamp \in Times => c[i].size >= StampSize

VARIABLES
  files,    \* the files opened so far, the last one maybe still being read
  next,     \* the next line of the last file, 0 between files
  builder,  \* the logEntryBuilder
  records   \* the records of the job's scope

vars == <<files, next, builder, records>>

\* The builder after reset.
Reset == [has |-> FALSE, time |-> NoTime, lines |-> {}, size |-> 0]

Init == files = <<>> /\ next = 0 /\ builder = Reset /\ records = <<>>

File    == files[Len(files)]
Current == File.lines[next]
Here    == <<Len(files), next>>

\* bufio.Scanner returns the line: with its newline it fits the buffer.
Scanned == next # 0 /\ next <= Len(File.lines) /\ Current.size < MaxSize

Stamped(line) == line.stamp # NoTime

\* finalizeLogEntry: the builder's entry under the step of the file being read.
Finalized ==
  Append(records, [step |-> File.step, time |-> builder.time,
                   lines |-> builder.lines, size |-> builder.size])

FinalizedIfAny == IF builder.has THEN Finalized ELSE records
-------------------------------------------------------------------------------
\* processLogFile, up to the scanner.
OpenFile(step, lines) ==
  /\ next = 0 /\ Len(files) < MaxFiles
  /\ files' = Append(files, [step |-> step, lines |-> lines])
  /\ next' = 1
  /\ UNCHANGED <<builder, records>>

EmptyLine ==
  /\ Scanned /\ Current.size = 0
  /\ next' = next + 1
  /\ UNCHANGED <<files, builder, records>>

\* Mutant of RestSize: the text begins a byte further on.
RestAfterNext(line) == line.size - StampSize - 1

\* The size of what parseTimestamp returns beside the timestamp.
RestSize(line) == line.size - StampSize

\* A line with a timestamp ends the entry before it and starts one.
StartEntry ==
  /\ Scanned /\ Current.size > 0 /\ Stamped(Current)
  /\ records' = FinalizedIfAny
  /\ builder' = [has |-> TRUE, time |-> Current.stamp, lines |-> {Here},
                 size |-> RestSize(Current)]
  /\ next' = next + 1
  /\ UNCHANGED files

\* A line without a timestamp and without an entry it could belong to.
Orphan ==
  /\ Scanned /\ Current.size > 0 /\ ~Stamped(Current) /\ ~builder.has
  /\ next' = next + 1
  /\ UNCHANGED <<files, builder, records>>

\* Mutant of Fits: the last byte is not used.
FitsStrictly == builder.size + Current.size + 1 < MaxSize

\* Mutant of Fits: the newline is not counted.
FitsWithoutNewline == builder.size + Current.size <= MaxSize

\* The line can be appended to the body after a newline.
Fits == builder.size + Current.size + 1 <= MaxSize

SkipLine ==
  /\ Scanned /\ Current.size > 0 /\ ~Stamped(Current) /\ builder.has /\ ~Fits
  /\ next' = next + 1
  /\ UNCHANGED <<files, builder, records>>

ExtendEntry ==
  /\ Scanned /\ Current.size > 0 /\ ~Stamped(Current) /\ builder.has /\ Fits
  /\ builder' = [builder EXCEPT !.lines = @ \cup {Here},
                                !.size = @ + 1 + Current.size]
  /\ next' = next + 1
  /\ UNCHANGED <<files, records>>

\* Mutant of EndOfFile: the last entry of a file is left in the builder.
KeepEntry == UNCHANGED <<builder, records>>

\* What follows the loop over the lines.
EndOfFile ==
  /\ records' = FinalizedIfAny
  /\ builder' = IF builder.has THEN Reset ELSE builder

\* The scanner has no more lines, or meets one that is too long.
CloseFile ==
  /\ next # 0 /\ ~Scanned
  /\ EndOfFile
  /\ next' = 0
  /\ UNCHANGED files

\* All files of the job were processed.
Done == next = 0 /\ UNCHANGED vars

Next ==
  \/ \E step \in Steps, lines \in Contents : OpenFile(step, lines)
  \/ EmptyLine \/ StartEntry \/ Orphan \/ SkipLine \/ ExtendEntry
  \/ CloseFile \/ Done

Spec == Init /\ [][Next]_vars
-------------------------------------------------------------------------------
LineAt(p) == files[p[1]].lines[p[2]]

\* The size of the text the lines P of one entry make up.
SizeOf(P) ==
  SumFunctionOnSet([p \in P |-> LineAt(p).size + 1], P) - StampSize - 1

\* Where the entries of the file begin, and the lines that belong to one.
Stamps(lines) == {i \in DOMAIN lines : Stamped(lines[i])}
EntryAt(f, lines, i) ==
  {<<f, i>>} \cup {<<f, j>> : j \in {j \in DOMAIN lines :
     j > i /\ lines[j].size > 0 /\ \A k \in i + 1 .. j : ~Stamped(lines[k])}}

\* Lines P are part of the entry that begins at line i of file f.
PartOf(P, f, lines, i) ==
  i \in Stamps(lines) /\ <<f, i>> \in P /\ P \subseteq EntryAt(f, lines, i)

\* The files that were read to the end.
ReadFiles == IF next = 0 THEN DOMAIN files ELSE DOMAIN files \ {Len(files)}

\* No line of the file is too long for the scanner, no entry for the limit.
WithinLimits(f) ==
  /\ \A i \in DOMAIN files[f].lines : files[f].lines[i].size < MaxSize
  /\ \A i \in Stamps(files[f].lines) : SizeOf(EntryAt(f, files[f].lines, i)) <= MaxSize

BuilderType == [has : BOOLEAN, time : Times \cup {NoTime},
                lines : SUBSET (Nat \X Nat), size : Nat]
RecordType  == [step : Steps, time : Times, lines : SUBSET (Nat \X Nat), size : Nat]

\* The variables keep their types.
TypeOK ==
  /\ files \in Seq([step : Steps, lines : Contents])
  /\ next \in Nat /\ (next # 0 => files # <<>>)
  /\ builder \in BuilderType /\ records \in Seq(RecordType)

\* The record is of one of the files: step, time and lines.
InStep(r, fs) ==
  \E f \in DOMAIN fs : \E i \in DOMAIN fs[f].lines :
    /\ r.step = fs[f].step /\ r.time = fs[f].lines[i].stamp
    /\ PartOf(r.lines, f, fs[f].lines, i)

\* A record holds lines of one file only, and bears the step of that file and the
\* time of the line it begins with, although the files share one builder.
RecordsStayInStep == \A n \in DOMAIN records : InStep(records[n], files)

\* The records of a file whose lines and entries keep the limits are its entries,
\* no more, no less and in their order.
RecordsAreEntries ==
  /\ \A f \in ReadFiles : WithinLimits(f) =>
       \A i \in Stamps(files[f].lines) : \E n \in DOMAIN records :
         records[n].lines = EntryAt(f, files[f].lines, i)
  /\ \A n, m \in DOMAIN records : n < m =>
       \A p \in records[n].lines, q \in records[m].lines :
         p[1] < q[1] \/ (p[1] = q[1] /\ p[2] < q[2])

\* No body is over the limit.
NoRecordTooLong == \A n \in DOMAIN records : records[n].size <= MaxSize

\* The body of a record is what its lines add up to, and never over the limit.
RecordsWithinLimit ==
  /\ NoRecordTooLong
  /\ \A n \in DOMAIN records : records[n].size = SizeOf(records[n].lines)

\* Of every entry of a file that was read something is in a record.
EveryEntryIsRecorded ==
  \A f \in ReadFiles : \A i \in Stamps(files[f].lines) :
    \E n \in DOMAIN records : <<f, i>> \in records[n].lines
===============================================================================
