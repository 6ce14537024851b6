------------------------------- MODULE MCWebhook -------------------------------
(***************************************************************************)
(* Small instances of Webhook: the deliveries each run serves.             *)
(***************************************************************************)
EXTENDS Webhook

CONSTANTS h1, h2

CompletedRun ==
  [path |-> "/ghaevents", signed |-> TRUE, event |-> "workflow_run",
   completed |-> TRUE, push |-> TRUE, countable |-> TRUE,
   runnerSplits |-> TRUE, repo |-> TRUE, started |-> TRUE, trace |-> 1]

CompletedJob == [CompletedRun EXCEPT !.event = "workflow_job", !.push = FALSE]

\* Two runs, one without a start time, jobs of the first, one of them on a runner
\* whose name cannot be split and one without a repository (whose metrics are
\* empty), and deliveries that ServeHTTP turns away at each of its checks.
AllDeliveries ==
  {CompletedRun, CompletedJob,
   [CompletedRun EXCEPT !.trace = 2, !.push = FALSE, !.started = FALSE],
   [CompletedRun EXCEPT !.completed = FALSE, !.countable = FALSE],
   [CompletedJob EXCEPT !.completed = FALSE], [CompletedJob EXCEPT !.runnerSplits = FALSE],
   [CompletedJob EXCEPT !.repo = FALSE, !.countable = FALSE],
   [CompletedRun EXCEPT !.signed = FALSE], [CompletedRun EXCEPT !.path = "/"],
   [CompletedRun EXCEPT !.event = "other"], [CompletedRun EXCEPT !.event = "malformed"]}

\* A receiver for all signals, and one for logs only.
AllOrLogs == {Signals, {"logs"}}
===============================================================================
