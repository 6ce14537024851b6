------------------------------ MODULE DroneScraper ------------------------------
(***************************************************************************)
(* droneScraper, receiver/dronereceiver/scraper.go: the loop that connects *)
(* to Drone's database, and scrape with its three queries, each of which   *)
(* sees the table as it is then.  The controller of scraperhelper calls it *)
(* on one goroutine, one scrape after the other, and passes on what scrape *)
(* returned unless it came with an error.                                  *)
(***************************************************************************)
EXTENDS DroneServer, DroneConfig, FiniteSets, FiniteSetsExt

CONSTANTS
  Known,         \* the keys of MapAttributeCiWorkflowItemStatus
  Excluded,      \* the statuses scrapeInfo's query excludes
  StartHook      \* whether the controller was given droneScraper.Start

ASSUME ScraperAssumption ==
  /\ Known \subseteq STRING /\ IsFiniteSet(Known) /\ Excluded \subseteq STRING \ Outcomes
  /\ StartHook \in BOOLEAN

VARIABLES
  at,         \* where the controller's goroutine is in Start or scrape
  connected,  \* dbPool is not nil
  scrapes,    \* how often scrape was called; a point's time is its scrape's number
  buffer,     \* the data points in the metrics builder
  failed,     \* errs holds an error
  whole,      \* history: every row of the builds was read
  consumed    \* what was passed on to the metrics consumer, in order

scraper == <<at, connected, scrapes, buffer, failed, whole, consumed>>

ScraperInit ==
  /\ at = "created" /\ connected = FALSE /\ scrapes = 0
  /\ buffer = {} /\ failed = FALSE /\ whole = TRUE /\ consumed = <<>>

\* The process ended: os.Exit, or a panic nobody recovers.
Ended == at \in {"exited", "crashed"}
-------------------------------------------------------------------------------
\* newMetricsReceiver, and the controller's Start.
StartController ==
  /\ at = "created"
  /\ at' = IF StartHook THEN "starting" ELSE "idle"
  /\ UNCHANGED <<connected, scrapes, buffer, failed, whole, consumed>>

\* The ticker's case of Start: DBConnect, until it succeeds.
Connect(ok) ==
  /\ at = "starting"
  /\ IF ok THEN at' = "idle" /\ connected' = TRUE ELSE UNCHANGED <<at, connected>>
  /\ UNCHANGED <<scrapes, buffer, failed, whole, consumed>>

\* The timeout's case.
GiveUp ==
  /\ at = "starting" /\ at' = "exited"
  /\ UNCHANGED <<connected, scrapes, buffer, failed, whole, consumed>>

\* The controller calls scrape, whose first query goes to dbPool.
Scrape ==
  /\ at = "idle"
  /\ at' = IF connected THEN "builds" ELSE "crashed"
  /\ scrapes' = scrapes + 1
  /\ failed' = FALSE
  /\ UNCHANGED <<connected, buffer, whole, consumed>>
-------------------------------------------------------------------------------
\* The CASEs of the first query.
Slug(b)   == IF b.shape.repo \in DOMAIN ReposConfig THEN b.shape.repo ELSE "other"
Source(b) == IF b.shape.source \in BranchesOf(b.shape.repo) THEN b.shape.source ELSE "other"

\* The builds of one group of the first query.
InGroup(status, slug, source) ==
  {n \in DOMAIN builds : /\ builds[n].status = status
                         /\ Slug(builds[n]) = slug /\ Source(builds[n]) = source}

\* The rows of the first query.
BuildRows ==
  {[status |-> b.status, slug |-> Slug(b), source |-> Source(b),
    val |-> Cardinality(InGroup(b.status, Slug(b), Source(b)))] : b \in ToSet(builds)}

BuildPoint(status, slug, source, val) ==
  [metric |-> "builds_number", ts |-> scrapes, status |-> status, slug |-> slug,
   source |-> source, val |-> val]

\* Mutant of ValueOf: the map of a slug is made anew for every source.
ValueOfLast(rows, status, slug, source) ==
  IF \E r \in rows : r.slug = slug /\ r.source # source THEN 0
  ELSE IF \E r \in rows : r.status = status THEN (CHOOSE r \in rows : r.status = status).val
  ELSE 0

\* values[slug][source][status], or zero.
ValueOf(rows, status, slug, source) ==
  LET found == {r \in rows : r.status = status /\ r.slug = slug /\ r.source = source}
  IN  IF found = {} THEN 0 ELSE (CHOOSE r \in found : TRUE).val

\* What is recorded of the rows: a point for each known status of each slug and
\* source among them.
BuildPoints(rows) ==
  {BuildPoint(s, r.slug, r.source, ValueOf(rows, s, r.slug, r.source)) :
     s \in Known, r \in rows}

\* Rows are lost with an error if the query fails or a row cannot be scanned, and
\* without one if the result breaks off: rows.Err is not asked.
Outcome(read, all, error) == read \subseteq all /\ (error => read # all \/ all = {})

ScrapeBuilds(rows, error) ==
  /\ at = "builds" /\ Outcome(rows, BuildRows, error)
  /\ at' = "restarts"
  /\ buffer' = buffer \cup BuildPoints(rows)
  /\ failed' = (failed \/ error)
  /\ whole' = (rows = BuildRows)
  /\ UNCHANGED <<connected, scrapes, consumed>>

\* The builds that are no first build of their commit and branch: a group of n of
\* the query's groups has n - 1 of them.
Restarted ==
  {n \in DOMAIN builds : \E m \in 1 .. n - 1 :
     /\ builds[m].shape.after = builds[n].shape.after
     /\ builds[m].shape.source = builds[n].shape.source}

RestartsPoint(val) == [metric |-> "restarts_total", ts |-> scrapes, val |-> val]

\* Mutant of ScrapeRestarts: the error of Scan is not reported.
ScrapeRestartsSilently(ok) ==
  /\ at = "restarts" /\ at' = "info"
  /\ buffer' = buffer \cup {RestartsPoint(IF ok THEN Cardinality(Restarted) ELSE 0)}
  /\ UNCHANGED <<connected, scrapes, failed, whole, consumed>>

\* scrapeRestartedBuilds: without a row, zero is recorded.
ScrapeRestarts(ok) ==
  /\ at = "restarts" /\ at' = "info"
  /\ buffer' = buffer \cup {RestartsPoint(IF ok THEN Cardinality(Restarted) ELSE 0)}
  /\ failed' = (failed \/ ~ok)
  /\ UNCHANGED <<connected, scrapes, whole, consumed>>

\* The builds scrapeInfo's query chooses from for the branch of build n.
Rivals(n) ==
  {m \in DOMAIN builds : /\ builds[m].status \notin Excluded
                         /\ builds[m].shape.repo = builds[n].shape.repo
                         /\ builds[m].shape.source = builds[n].shape.source}

\* Mutant of IsChosen: MIN(build_id).
IsFirst(n) == n \in Rivals(n) /\ \A m \in Rivals(n) : n <= m

\* MAX(build_id)
IsChosen(n) == n \in Rivals(n) /\ \A m \in Rivals(n) : m <= n

InfoRows ==
  {n \in DOMAIN builds :
     builds[n].shape.source \in BranchesOf(builds[n].shape.repo) /\ IsChosen(n)}

\* MapAttributeCiWorkflowItemStatus[status].String(): empty for the zero status.
Attribute(status) == IF status \in Known THEN status ELSE ""

\* build is history.
InfoPoint(n) ==
  [metric |-> "repo_info", ts |-> scrapes, build |-> n,
   slug |-> builds[n].shape.repo, source |-> builds[n].shape.source,
   status |-> Attribute(builds[n].status)]

ScrapeInfo(rows, error) ==
  /\ at = "info" /\ Outcome(rows, InfoRows, error)
  /\ at' = "emit"
  /\ buffer' = buffer \cup {InfoPoint(n) : n \in rows}
  /\ failed' = (failed \/ error)
  /\ UNCHANGED <<connected, scrapes, whole, consumed>>

\* mb.Emit takes everything out of the builder.
Emitted == buffer' = {}

\* Mutant of Emit: an error ends scrape before mb.Emit.
EmitUnlessFailed ==
  /\ at = "emit" /\ at' = "idle"
  /\ IF failed THEN UNCHANGED <<buffer, consumed>>
               ELSE Emitted /\ consumed' = Append(consumed, buffer)
  /\ UNCHANGED <<connected, scrapes, failed, whole>>

\* scrape returns what it emitted and errs.Combine; the controller drops metrics that
\* came with an error.
Emit ==
  /\ at = "emit" /\ at' = "idle"
  /\ Emitted
  /\ consumed' = IF failed THEN consumed ELSE Append(consumed, buffer)
  /\ UNCHANGED <<connected, scrapes, failed, whole>>

ScraperNext ==
  \/ StartController \/ GiveUp \/ Scrape \/ Emit
  \/ \E ok \in BOOLEAN : Connect(ok) \/ ScrapeRestarts(ok)
  \/ \E rows \in SUBSET BuildRows, error \in BOOLEAN : ScrapeBuilds(rows, error)
  \/ \E rows \in SUBSET InfoRows, error \in BOOLEAN : ScrapeInfo(rows, error)
-------------------------------------------------------------------------------
\* What is recorded and emitted.
Point ==
  [metric : {"builds_number"}, ts : Nat, status : Known, slug : Names \cup {"other"},
   source : Names \cup {"other"}, val : Nat]
  \cup [metric : {"restarts_total"}, ts : Nat, val : Nat]
  \cup [metric : {"repo_info"}, ts : Nat, build : Nat, slug : Names, source : Names,
        status : Known \cup {""}]

ScraperTypeOK ==
  /\ at \in {"created", "starting", "idle", "builds", "restarts", "info", "emit",
            "exited", "crashed"}
  /\ connected \in BOOLEAN /\ failed \in BOOLEAN /\ whole \in BOOLEAN
  /\ scrapes \in Nat
  /\ buffer \subseteq Point
  /\ consumed \in Seq(SUBSET Point)

Points(emission, metric) == {p \in emission : p.metric = metric}

\* scrape is called with a connected database only (Start of scraper.go).
ScrapeHasPool == at # "crashed"

\* An emission has the points of one scrape, each series once, and one that was
\* dropped leaves nothing behind for the next (scrape and Emit).
EmissionsOfOneScrape ==
  \A i \in DOMAIN consumed :
    /\ \A p, q \in consumed[i] : p.ts = q.ts
    /\ \A p, q \in Points(consumed[i], "restarts_total") : p = q
    /\ \A p, q \in Points(consumed[i], "builds_number") :
         <<p.status, p.slug, p.source>> = <<q.status, q.slug, q.source>> => p = q
    /\ \A p, q \in Points(consumed[i], "repo_info") :
         <<p.slug, p.source>> = <<q.slug, q.source>> => p = q

\* restarts_total is monotonic at the consumer, although a query that fails is
\* recorded as zero (scrapeRestartedBuilds).
RestartsNeverFall ==
  \A i, j \in DOMAIN consumed : i < j =>
    \A p \in Points(consumed[i], "restarts_total"),
       q \in Points(consumed[j], "restarts_total") : p.val <= q.val

\* repo_info of a branch does not go back from a build that finished to an older
\* one, although builds finish in any order (MAX(build_id) in scrapeInfo).
InfoMovesOn ==
  \A i, j \in DOMAIN consumed : i < j =>
    \A p \in Points(consumed[i], "repo_info"), q \in Points(consumed[j], "repo_info") :
      p.slug = q.slug /\ p.source = q.source /\ p.status \in Outcomes => p.build <= q.build

\* A result that was read to its end counts every build with a known status once,
\* under one slug, source and status (scrapeBuilds).
BuildsAddUp ==
  [][at = "builds" /\ at' = "restarts" /\ whole' =>
       LET points == Points(buffer', "builds_number")
       IN  SumFunctionOnSet([p \in points |-> p.val], points)
             = Cardinality({n \in DOMAIN builds : builds[n].status \in Known})]_<<server, scraper>>
===============================================================================
