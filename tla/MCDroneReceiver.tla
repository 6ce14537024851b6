------------------------------ MODULE MCDroneReceiver ------------------------------
EXTENDS DroneReceiver, TLC

\* Of the map's keys those that occur here, and one no build has.
MCKnown    == {"blocked", "running", "success", "failure"}
MCExcluded == {"running", "pending", "waiting_on_dependencies"}

MCReposConfig == [r \in {"a"} |-> <<"main", "next">>]

MCStage(status, steps) == [status |-> status, steps |-> steps]
MCStep(status, started, lines) == [status |-> status, started |-> started, lines |-> lines]

\* A build of a configured branch, with a skipped step; one of the same commit and
\* branch in a repository that is not configured.
MCMain ==
  [repo |-> "a", branch |-> "main", source |-> "main", after |-> "c1",
   stages |-> <<MCStage("success", <<MCStep("success", 1, <<0, 0, 1, 1>>),
                                     MCStep("skipped", 0, <<>>)>>),
                MCStage("failure", <<MCStep("failure", 2, <<1, 1, 2>>)>>)>>]
MCOther ==
  [repo |-> "x", branch |-> "main", source |-> "main", after |-> "c1", stages |-> <<>>]

\* A build of a branch that is not configured in a repository that is.
MCFeature ==
  [repo |-> "a", branch |-> "main", source |-> "feature", after |-> "c1", stages |-> <<>>]

MCShapes == {MCMain, MCOther, MCFeature}

\* The scraper alone, the webhook alone, and both, with what the first two explore
\* in full cut down.
MCBounds ==
  ({"metrics"} :> [builds |-> 2, scrapes |-> 2, webhooks |-> 0])
    @@ ({"traces", "logs"} :> [builds |-> 2, scrapes |-> 0, webhooks |-> 2])
    @@ ({"logs"} :> [builds |-> 1, scrapes |-> 0, webhooks |-> 2])
    @@ ({"metrics", "traces", "logs"} :> [builds |-> 1, scrapes |-> 2, webhooks |-> 2])

MCServices == DOMAIN MCBounds
MCStations == <<"blocked", "running">>

ASSUME InstanceAssumption == LinesInTurn
====
