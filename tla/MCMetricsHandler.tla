--------------------------- MODULE MCMetricsHandler ---------------------------
(***************************************************************************)
(* Small instances of MetricsHandler: the events each run delivers.        *)
(***************************************************************************)
EXTENDS MetricsHandler

ASSUME InstanceAssumption == KeysTold

CONSTANTS gJob, gJob2, gRun, h1, h2

Job(group, action, conclusion) ==
  [kind |-> "job", wellFormed |-> TRUE, group |-> group, action |-> action,
   conclusion |-> conclusion, oneStep |-> FALSE, workflow |-> <<"ci">>,
   job |-> <<"test">>, timed |-> FALSE,
   duration |-> 0]

Run(group, action, conclusion) ==
  [Job(group, action, conclusion) EXCEPT !.kind = "run", !.job = <<>>]

\* A job, a run with a conclusion that is no attribute value, and a run with an
\* action that is no status.
MixedEvents ==
  {Job(gJob, "completed", "success"),
   Run(gRun, "completed", "startup_failure"), Run(gRun, "requested", "")}

\* Jobs of one label set that end in two ways, and one of another.
TwoGroupEvents ==
  {Job(gJob, "completed", "success"), Job(gJob, "completed", ""),
   Job(gJob2, "completed", "success")}

RunEvents == {Run(gRun, "completed", "success"), Run(gRun, "aborted", "")}

Timed(e, duration) == [e EXCEPT !.timed = TRUE, !.duration = duration]

\* Completed jobs of three names with short, long and negative durations, one of
\* another label set, a job cancelled in its only step, which is not timed and only
\* sweeps, and a delivery without a repository.
CacheEvents ==
  {Timed([Job(gJob, "completed", "success") EXCEPT !.job = t[1]], t[2]) :
     t \in {<< <<"a">>, -1>>, << <<"a">>, 99>>, << <<"b">>, 5>>, << <<"c">>, 6>>}}
    \cup {Timed(Job(gJob2, "completed", "success"), 5),
          [Job(gJob, "completed", "cancelled") EXCEPT !.oneStep = TRUE],
          [Job(gJob, "completed", "success") EXCEPT !.wellFormed = FALSE]}

Bounds == <<5, 15>>
===============================================================================
