----------------------------- MODULE MCLogEntries -----------------------------
(***************************************************************************)
(* Small instances of LogEntries: sizes up to six stand for a megabyte.   *)
(***************************************************************************)
EXTENDS LogEntries, SequencesExt

At(time, size) == [stamp |-> time, size |-> size]
Plain(size)    == [stamp |-> 0, size |-> size]

\* Files of up to two lines: timestamps without text and with text; lines without
\* a timestamp, empty, short, as long as just fits, and too long for the scanner.
\* Beside them files of three lines that come to the limit and over it.
SmallFiles ==
  BoundedSeq({At(1, 2), At(2, 3), Plain(0), Plain(1), Plain(4), Plain(6)}, 2)
    \cup TupleOf({At(1, 2), Plain(1), Plain(4)}, 3)

\* A line that is too long between two entries.
LongLine == {<<At(1, 3), Plain(6), At(2, 3)>>}
===============================================================================
