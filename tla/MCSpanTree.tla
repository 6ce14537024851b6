------------------------------ MODULE MCSpanTree ------------------------------
(***************************************************************************)
(* Small instances of SpanTree.  10 and 11 are the letters s and t, 12 and *)
(* 13 two others.                                                          *)
(***************************************************************************)
EXTENDS SpanTree

At(number, conclusion, started, completed) ==
  [number |-> number, done |-> TRUE, conclusion |-> conclusion,
   started |-> started, completed |-> completed, logged |-> conclusion # "skipped"]

JobOf(run, attempt, job, name, steps) ==
  [run |-> run, attempt |-> attempt, job |-> job, name |-> name, steps |-> steps,
   started |-> 1, completed |-> 9]

Attempt(run, attempt) == [id |-> run, attempt |-> attempt, previous |-> TRUE]

\* Two attempts of one run and another run.
ThreeAttempts == {Attempt(12, 1), Attempt(12, 2), Attempt(13, 1)}

\* A success, a skipped step without a completion time, and a failure; successes; and
\* a last step without a completion time.
Mixed == <<At(1, "success", 1, 3), At(2, "skipped", 3, 0), At(12, "failure", 4, 6)>>
Good  == <<At(1, "success", 2, 3), At(2, "success", 3, 5)>>
Open  == <<At(1, "success", 1, 3), At(2, "success", 4, 0)>>

\* Jobs whose names begin with that of the first, one of them with the number of a
\* step after it; in the second attempt the first of them again and one without steps
\* whose name is t; a job of the other run.
SeveralJobs ==
  {JobOf(12, 1, 1, <<12>>, Mixed), JobOf(12, 1, 2, <<12, 10>>, Good),
   JobOf(12, 1, 6, <<12, 2>>, Good),
   JobOf(12, 2, 3, <<12>>, Good), JobOf(12, 2, 4, <<11>>, <<>>),
   JobOf(13, 1, 5, <<12>>, Open)}

ASSUME InstanceAssumption == RunsApart /\ NamesApart /\ StepsInTurn
===============================================================================
