------------------------------ MODULE DroneReceiver ------------------------------
(***************************************************************************)
(* The Drone receiver in one collector: Drone's table and webhooks, the    *)
(* scraper's goroutine and the goroutines of the webhook server.  Scraper  *)
(* and server share the configuration and the process, whose end is the    *)
(* end of both; Drone goes on.                                             *)
(***************************************************************************)
EXTENDS DroneScraper, DroneWebhook

CONSTANT Bounds   \* bounds: the builds, scrapes and webhooks, for each set of pipelines

ASSUME BoundsAssumption ==
  Bounds \in [Services -> [builds : Nat, scrapes : Nat, webhooks : Nat]]

vars == <<server, scraper, hook>>

Init == ServerInit /\ ScraperInit /\ HookInit

Drone ==
  ServerNext /\ Len(builds') <= Bounds[pipelines].builds /\ UNCHANGED <<scraper, hook>>

\* There is a scraper in a pipeline of metrics only.
Scraper ==
  /\ "metrics" \in pipelines
  /\ ScraperNext /\ scrapes' <= Bounds[pipelines].scrapes /\ UNCHANGED <<server, hook>>

\* There is a webhook server in a pipeline of traces or logs only.
Handler ==
  /\ pipelines \cap {"traces", "logs"} # {} /\ ~Ended
  /\ HookNext /\ received' <= Bounds[pipelines].webhooks /\ UNCHANGED <<server, scraper>>

Next == Drone \/ Scraper \/ Handler

\* The handlers' own steps are taken; an answer of Drone may be outstanding for ever,
\* as the client has no deadline.
Fairness ==
  \A h \in Handlers :
    WF_vars(HandlerStep(h) /\ ~Ended /\ UNCHANGED <<server, scraper>>)

Spec == Init /\ [][Next]_vars /\ Fairness
-------------------------------------------------------------------------------
TypeOK ==
  /\ builds \in Seq(Row) /\ outbox \subseteq Message
  /\ ScraperTypeOK /\ HookTypeOK

\* A webhook is answered unless Drone leaves a request of its own unanswered
\* (ServeHTTP, generateLogs).
HandledUnlessDroneIsSilent ==
  \A h \in Handlers :
    pc[h] # "idle" ~>
      (pc[h] = "idle" \/ Ended \/ (pc[h] = "converting" /\ asked[h] < Len(Steps(h))))

Traced(status, slug, source) ==
  {o.build : o \in {x \in offered :
     /\ x.signal = "traces" /\ x.status = status
     /\ Slug(builds[x.build]) = slug /\ Source(builds[x.build]) = source}}

\* Who looks from a trace to the metric finds the build: webhooks follow the table,
\* and a trace is made of a finished build only, so that its status is still in the
\* table when the next scrape counts (the Finished check of handleEvent).
TracedBuildsAreCounted ==
  [][at = "builds" /\ at' = "restarts" /\ whole' =>
       \A o \in offered : o.signal = "traces" /\ o.status \in Known =>
         LET b == builds[o.build]
         IN  \E p \in Points(buffer', "builds_number") :
               /\ p.status = o.status /\ p.slug = Slug(b) /\ p.source = Source(b)
               /\ p.val >= Cardinality(Traced(p.status, p.slug, p.source))]_vars
===============================================================================
