---------------------------- MODULE DroneReceiverProofs ----------------------------
(***************************************************************************)
(* Proofs about DroneReceiver for any builds, configuration, handlers and  *)
(* bounds.  Drone's part only grows (TableGrows); the scraper's and the    *)
(* handlers' invariants are shown for their own steps, then carried over   *)
(* the steps of the others.                                                *)
(***************************************************************************)
EXTENDS DroneReceiver, Induction, SequenceTheorems, TLAPS

\* What a webhook says of a finished build stays true of the table.
True(e) ==
  e.build \in DOMAIN builds /\ (Finished(e.status) => builds[e.build].status = e.status)

ServerInv == builds \in Seq(Row) /\ outbox \subseteq Message /\ \A e \in outbox : True(e)

\* Builds are not forgotten, and what they are and how they ended stays.
Grows ==
  /\ Len(builds) <= Len(builds')
  /\ \A n \in DOMAIN builds :
       /\ builds'[n].shape = builds[n].shape
       /\ Finished(builds[n].status) => builds'[n].status = builds[n].status

\* Every step of Drone keeps its invariant, and its table grows.
LEMMA TableGrows == ServerInv /\ ServerNext => ServerInv' /\ Grows
<1> SUFFICES ASSUME ServerInv, ServerNext PROVE ServerInv' /\ Grows
  OBVIOUS
<1> USE DEF ServerInv, True, Grows, Finished
<1>1. CASE \E shape \in Shapes, status \in Waiting : StartBuild(shape, status)
  <2>1. PICK shape \in Shapes, status \in Waiting : StartBuild(shape, status)
    BY <1>1
  <2>2. status \in Statuses /\ status \notin Outcomes
    BY ServerAssumption DEF Statuses
  <2>3. [shape |-> shape, status |-> status] \in Row
    BY <2>2 DEF Row
  <2>4. builds' \in Seq(Row) /\ Len(builds') = Len(builds) + 1
    BY <2>1, <2>3 DEF StartBuild
  <2>5. \A n \in DOMAIN builds : builds'[n] = builds[n]
    BY <2>1, <2>3 DEF StartBuild
  <2>6. [build |-> Len(builds) + 1, status |-> status] \in Message
    BY <2>2 DEF Message
  <2>7. outbox' \subseteq Message
    BY <2>1, <2>6 DEF StartBuild
  <2>8. ASSUME NEW e \in outbox' PROVE True(e)'
    <3>1. CASE e \in outbox
      BY <3>1, <2>4, <2>5
    <3>2. CASE e = [build |-> Len(builds) + 1, status |-> status]
      BY <3>2, <2>2, <2>4
    <3> QED
      BY <2>1, <3>1, <3>2 DEF StartBuild
  <2> QED
    BY <2>4, <2>5, <2>7, <2>8
<1>2. CASE \E n \in DOMAIN builds, status \in Statuses : Update(n, status)
  <2>1. PICK n \in DOMAIN builds, status \in Statuses : Update(n, status)
    BY <1>2
  <2>2. builds[n] \in Row /\ builds[n].status \in Statuses
    <3>1. builds[n] \in Row
      OBVIOUS
    <3> QED
      BY <3>1 DEF Row
  <2>3. builds[n].status \notin Outcomes
    BY <2>1, ServerAssumption DEF Update, GetsOn, Waiting
  <2>4. builds' = [builds EXCEPT ![n].status = status]
    BY <2>1 DEF Update
  <2>5. builds' \in Seq(Row) /\ Len(builds') = Len(builds)
    BY <2>2, <2>4 DEF Row
  <2>6. \A k \in DOMAIN builds : builds'[k].shape = builds[k].shape
                                  /\ (k # n => builds'[k] = builds[k])
    BY <2>2, <2>4 DEF Row
  <2>7. builds'[n].status = status
    BY <2>2, <2>4 DEF Row
  <2>8. [build |-> n, status |-> status] \in Message
    BY DEF Message
  <2>9. outbox' = outbox \cup {[build |-> n, status |-> status]}
    BY <2>1 DEF Update
  <2>10. ASSUME NEW e \in outbox' PROVE True(e)'
    <3>1. CASE e \in outbox
      BY <3>1, <2>2, <2>3, <2>5, <2>6
    <3>2. CASE e = [build |-> n, status |-> status]
      BY <3>2, <2>5, <2>7
    <3> QED
      BY <2>9, <3>1, <3>2
  <2> QED
    BY <2>3, <2>5, <2>6, <2>8, <2>9, <2>10
<1> QED
  BY <1>1, <1>2 DEF ServerNext
-------------------------------------------------------------------------------
\* The groups of the first query can be counted.
LEMMA GroupsAreFinite ==
  ASSUME ServerInv, NEW status, NEW slug, NEW source
  PROVE  IsFiniteSet(InGroup(status, slug, source))
           /\ Cardinality(InGroup(status, slug, source)) \in Nat
<1>1. IsFiniteSet(1 .. Len(builds))
  BY FS_Interval DEF ServerInv
<1>2. InGroup(status, slug, source) \subseteq 1 .. Len(builds)
  BY DEF InGroup, ServerInv
<1> QED
  BY <1>1, <1>2, FS_Subset, FS_CardinalityType

LEMMA BuildFields ==
  ASSUME ServerInv, NEW n \in DOMAIN builds
  PROVE  /\ builds[n].status \in Statuses
         /\ builds[n].shape.repo \in Names /\ builds[n].shape.source \in Names
         /\ Slug(builds[n]) \in Names \cup {"other"}
         /\ Source(builds[n]) \in Names \cup {"other"}
<1>1. builds[n] \in Row
  BY DEF ServerInv
<1>2. builds[n].shape \in Shape
  BY <1>1, ServerAssumption DEF Row
<1>3. builds[n].status \in Statuses
  BY <1>1 DEF Row
<1>4. builds[n].shape.repo \in Names /\ builds[n].shape.source \in Names
  BY <1>2 DEF Shape
<1>5. Slug(builds[n]) = builds[n].shape.repo \/ Slug(builds[n]) = "other"
  BY Zenon DEF Slug
<1>6. Source(builds[n]) = builds[n].shape.source \/ Source(builds[n]) = "other"
  BY Zenon DEF Source
<1> QED
  BY <1>3, <1>4, <1>5, <1>6

\* A row of the first query is a group and its size.
LEMMA RowsAreGroups ==
  ASSUME ServerInv, NEW r \in BuildRows
  PROVE  /\ r.slug \in Names \cup {"other"} /\ r.source \in Names \cup {"other"}
         /\ r.val = Cardinality(InGroup(r.status, r.slug, r.source)) /\ r.val \in Nat
<1>1. PICK n \in DOMAIN builds :
        r = [status |-> builds[n].status, slug |-> Slug(builds[n]),
             source |-> Source(builds[n]),
             val |-> Cardinality(InGroup(builds[n].status, Slug(builds[n]),
                                         Source(builds[n])))]
  BY DEF BuildRows, ToSet
<1> QED
  BY <1>1, BuildFields, GroupsAreFinite

\* What is recorded is the size of the group, or zero.
LEMMA ValueIsCount ==
  ASSUME ServerInv, NEW rows \in SUBSET BuildRows, NEW status, NEW slug, NEW source
  PROVE  /\ ValueOf(rows, status, slug, source) \in Nat
         /\ (\E r \in rows : r.status = status /\ r.slug = slug /\ r.source = source) =>
              ValueOf(rows, status, slug, source)
                = Cardinality(InGroup(status, slug, source))
<1> DEFINE found == {r \in rows : r.status = status /\ r.slug = slug /\ r.source = source}
<1>1. CASE found = {}
  BY <1>1 DEF ValueOf
<1>2. CASE found # {}
  <2>1. (CHOOSE r \in found : TRUE) \in found
    BY <1>2
  <2>2. ValueOf(rows, status, slug, source) = (CHOOSE r \in found : TRUE).val
    BY <1>2 DEF ValueOf
  <2> QED
    BY <2>1, <2>2, RowsAreGroups
<1> QED
  BY <1>1, <1>2

LEMMA RestartsAreFinite ==
  ServerInv => IsFiniteSet(Restarted) /\ Cardinality(Restarted) \in Nat
<1> SUFFICES ASSUME ServerInv
             PROVE  IsFiniteSet(Restarted) /\ Cardinality(Restarted) \in Nat
  OBVIOUS
<1>1. IsFiniteSet(1 .. Len(builds))
  BY FS_Interval DEF ServerInv
<1>2. Restarted \subseteq 1 .. Len(builds)
  BY DEF Restarted, ServerInv
<1> QED
  BY <1>1, <1>2, FS_Subset, FS_CardinalityType

\* What each query records.
LEMMA PointTypes ==
  ASSUME ServerInv, ScraperTypeOK
  PROVE  /\ \A rows \in SUBSET BuildRows : BuildPoints(rows) \subseteq Point
         /\ \A ok \in BOOLEAN :
              RestartsPoint(IF ok THEN Cardinality(Restarted) ELSE 0) \in Point
         /\ \A n \in InfoRows : InfoPoint(n) \in Point
<1>1. ASSUME NEW rows \in SUBSET BuildRows PROVE BuildPoints(rows) \subseteq Point
  <2> SUFFICES ASSUME NEW s \in Known, NEW r \in rows
               PROVE  BuildPoint(s, r.slug, r.source, ValueOf(rows, s, r.slug, r.source)) \in Point
    BY DEF BuildPoints
  <2> QED
    BY RowsAreGroups, ValueIsCount DEF BuildPoint, Point, ScraperTypeOK
<1>2. ASSUME NEW ok \in BOOLEAN
      PROVE  RestartsPoint(IF ok THEN Cardinality(Restarted) ELSE 0) \in Point
  BY RestartsAreFinite DEF RestartsPoint, Point, ScraperTypeOK
<1>3. ASSUME NEW n \in InfoRows PROVE InfoPoint(n) \in Point
  <2>1. n \in DOMAIN builds /\ n \in Nat
    BY DEF InfoRows, ServerInv
  <2> QED
    BY <2>1, BuildFields DEF InfoPoint, Attribute, Point, ScraperTypeOK
<1> QED
  BY <1>1, <1>2, <1>3

LEMMA ScraperTypes == ServerInv /\ ScraperTypeOK /\ ScraperNext => ScraperTypeOK'
<1> SUFFICES ASSUME ServerInv, ScraperTypeOK, ScraperNext PROVE ScraperTypeOK'
  OBVIOUS
<1> USE PointTypes
<1>1. CASE StartController
  BY <1>1 DEF StartController, ScraperTypeOK, Point
<1>2. CASE GiveUp
  BY <1>2 DEF GiveUp, ScraperTypeOK, Point
<1>3. CASE Scrape
  <2>1. at' \in {"builds", "crashed"} /\ scrapes' \in Nat /\ failed' = FALSE
    BY <1>3 DEF Scrape, ScraperTypeOK
  <2> QED
    BY <1>3, <2>1 DEF Scrape, ScraperTypeOK
<1>4. CASE Emit
  <2>1. consumed \in Seq(SUBSET Point) /\ buffer \in SUBSET Point
    BY DEF ScraperTypeOK
  <2>2. Append(consumed, buffer) \in Seq(SUBSET Point)
    BY <2>1
  <2>3. consumed' \in Seq(SUBSET Point) /\ buffer' = {}
    BY <1>4, <2>1, <2>2 DEF Emit, Emitted
  <2> QED
    BY <1>4, <2>3 DEF Emit, ScraperTypeOK
<1>5. ASSUME NEW ok \in BOOLEAN, Connect(ok) PROVE ScraperTypeOK'
  BY <1>5 DEF Connect, ScraperTypeOK, Point
<1>6. ASSUME NEW ok \in BOOLEAN, ScrapeRestarts(ok) PROVE ScraperTypeOK'
  BY <1>6 DEF ScrapeRestarts, ScraperTypeOK
<1>7. ASSUME NEW rows \in SUBSET BuildRows, NEW error \in BOOLEAN, ScrapeBuilds(rows, error)
      PROVE  ScraperTypeOK'
  BY <1>7 DEF ScrapeBuilds, ScraperTypeOK
<1>8. ASSUME NEW rows \in SUBSET InfoRows, NEW error \in BOOLEAN, ScrapeInfo(rows, error)
      PROVE  ScraperTypeOK'
  BY <1>8 DEF ScrapeInfo, ScraperTypeOK
<1> QED
  BY <1>1, <1>2, <1>3, <1>4, <1>5, <1>6, <1>7, <1>8 DEF ScraperNext
-------------------------------------------------------------------------------
\* The handlers: a conversion is of a build that has finished, and what is passed on
\* tells how it ended.
GotInv(h) ==
  (\E S : got[h] \in Seq(S)) /\ Len(got[h]) <= asked[h]

HookInv ==
  /\ HookTypeOK /\ got = [h \in Handlers |-> got[h]]
  /\ \A h \in Handlers :
       /\ GotInv(h)
       /\ req[h].kind = "build" => True(req[h])
       /\ pc[h] \in {"converting", "offering"} => req[h].kind = "build" /\ Finished(req[h].status)
  /\ \A o \in offered : True(o) /\ Finished(o.status)

LEMMA HookStarts == HookInit => HookInv
<1> SUFFICES ASSUME HookInit PROVE HookInv
  OBVIOUS
<1>1. HookTypeOK
  BY DEF HookInit, HookTypeOK
<1>2. \A h \in Handlers : got[h] = <<>> /\ asked[h] = 0
  BY DEF HookInit
<1>3. ASSUME NEW h \in Handlers PROVE GotInv(h)
  <2>1. got[h] = <<>> /\ asked[h] = 0
    BY <1>2
  <2>2. got[h] \in Seq({}) /\ Len(got[h]) <= asked[h]
    BY <2>1
  <2> QED
    BY <2>2, Zenon DEF GotInv
<1> QED
  BY <1>1, <1>3 DEF HookInit, HookInv, Nothing

\* The table grows and the handlers' invariant stays.
LEMMA HookSurvivesGrowth ==
  ServerInv /\ HookInv /\ (Grows \/ UNCHANGED builds) /\ UNCHANGED hook => HookInv'
<1> SUFFICES ASSUME ServerInv, HookInv, Grows \/ UNCHANGED builds, UNCHANGED hook
             PROVE  HookInv'
  OBVIOUS
<1> DEFINE StaysTrue(e) == /\ e.build \in DOMAIN builds'
                           /\ Finished(e.status) => builds'[e.build].status = e.status
<1>1. ASSUME NEW e, True(e) PROVE StaysTrue(e)
  BY <1>1 DEF True, Grows, ServerInv
<1>2. HookTypeOK' /\ got' = [h \in Handlers |-> got'[h]]
  BY DEF HookTypeOK, HookInv, hook
<1>3. ASSUME NEW h \in Handlers PROVE GotInv(h)'
  BY DEF HookInv, GotInv, hook
<1>4. \A h \in Handlers : req[h].kind = "build" => StaysTrue(req[h])
  <2>1. \A h \in Handlers : req[h].kind = "build" => True(req[h])
    BY DEF HookInv
  <2> QED
    BY <1>1, <2>1
<1>5. \A o \in offered : StaysTrue(o) /\ Finished(o.status)
  BY <1>1 DEF HookInv
<1>6. \A h \in Handlers :
        pc[h] \in {"converting", "offering"} => req[h].kind = "build" /\ Finished(req[h].status)
  BY DEF HookInv
<1> QED
  BY <1>2, <1>3, <1>4, <1>5, <1>6 DEF HookInv, hook, True, Finished

\* A webhook that Drone sent is a request, and true.
LEMMA WebhooksAreRequests ==
  ASSUME ServerInv, HookInv, NEW r \in Webhooks
  PROVE  /\ r \in Request \cup [kind : Strays] \cup {Nothing}
         /\ r.kind = "build" => True(r)
<1>1. CASE \E e \in outbox :
             r = [kind |-> "build", serial |-> received + 1, build |-> e.build,
                  status |-> e.status]
  <2>1. PICK e \in outbox :
          r = [kind |-> "build", serial |-> received + 1, build |-> e.build,
               status |-> e.status]
    BY <1>1
  <2>2. e \in Message /\ True(e) /\ received + 1 \in Nat
    BY DEF ServerInv, HookInv, HookTypeOK
  <2> QED
    BY <2>1, <2>2 DEF Message, Request, True
<1>2. CASE r \in {[kind |-> s] : s \in Strays}
  BY <1>2, HookAssumption
<1> QED
  BY <1>1, <1>2 DEF Webhooks

\* Every step of a handler keeps the handlers' invariant.
LEMMA HookKeepsInv ==
  ServerInv /\ HookInv /\ HookNext /\ UNCHANGED server => HookInv'
<1> SUFFICES ASSUME ServerInv, HookInv, UNCHANGED server,
                    NEW h \in Handlers,
                    \/ \E r \in Webhooks : Receive(h, r)
                    \/ HandlerStep(h)
                    \/ \E ok \in BOOLEAN : AskLogs(h, ok)
             PROVE  HookInv'
  BY DEF HookNext
<1> USE DEF True, Finished, server
<1>1. ASSUME NEW r \in Webhooks, Receive(h, r) PROVE HookInv'
  <2>1. r \in Request \cup [kind : Strays] \cup {Nothing} /\ (r.kind = "build" => True(r))
    BY WebhooksAreRequests
  <2>2. HookTypeOK'
    BY <1>1, <2>1 DEF Receive, HookInv, HookTypeOK
  <2>3. \A k \in Handlers : GotInv(k)'
    BY <1>1 DEF Receive, HookInv, GotInv
  <2> QED
    BY <1>1, <2>1, <2>2, <2>3 DEF Receive, HookInv, HookTypeOK
<1>2. ASSUME Leave(h), UNCHANGED <<pipelines, replies, received>>,
             \A o \in offered' \ offered : True(o) /\ Finished(o.status)
      PROVE  HookInv'
  <2>1. HookTypeOK'
    BY <1>2 DEF Leave, HookInv, HookTypeOK
  <2>2. ASSUME NEW k \in Handlers PROVE GotInv(k)'
    <3>1. CASE k = h
      <4>1. got'[k] = <<>> /\ asked'[k] = 0
        BY <1>2, <3>1 DEF Leave, HookInv, HookTypeOK
      <4>2. got'[k] \in Seq({}) /\ Len(got'[k]) <= asked'[k]
        BY <4>1
      <4> QED
        BY <4>2, Zenon DEF GotInv
    <3>2. CASE k # h
      BY <1>2, <3>2 DEF Leave, HookInv, HookTypeOK, GotInv
    <3> QED
      BY <3>1, <3>2
  <2>3. got' = [k \in Handlers |-> got'[k]]
    BY <1>2 DEF Leave, HookInv
  <2> QED
    BY <1>2, <2>1, <2>2, <2>3 DEF Leave, HookInv, HookTypeOK, Nothing
<1>3. CASE Reject(h) \/ PanicWithoutRepo(h) \/ Ignore(h)
  BY <1>2, <1>3 DEF Reject, PanicWithoutRepo, Ignore
<1>4. CASE Convert(h)
  <2>1. HookTypeOK'
    BY <1>4 DEF Convert, HookInv, HookTypeOK
  <2>2. \A k \in Handlers : GotInv(k)'
    BY <1>4 DEF Convert, HookInv, GotInv
  <2> QED
    BY <1>4, <2>1, <2>2 DEF Convert, Wanted, HookInv, HookTypeOK
<1>5. ASSUME NEW ok \in BOOLEAN, AskLogs(h, ok) PROVE HookInv'
  <2> DEFINE logs == StepLogs(req[h], Steps(h)[asked[h] + 1])
  <2>1. /\ asked' = [asked EXCEPT ![h] = @ + 1]
        /\ got' = [got EXCEPT ![h] = IF ok THEN Append(@, logs) ELSE @]
        /\ UNCHANGED <<pipelines, pc, req, offered, received>>
    BY <1>5 DEF AskLogs
  <2> HIDE DEF logs
  <2>2. PICK S : got[h] \in Seq(S)
    BY DEF HookInv, GotInv
  <2>3. got'[h] = IF ok THEN Append(got[h], logs) ELSE got[h]
    BY <2>1 DEF HookInv, HookTypeOK
  <2>4. got'[h] \in Seq(S \cup {logs}) /\ Len(got'[h]) <= Len(got[h]) + 1
    BY <2>2, <2>3
  <2>5. Len(got[h]) <= asked[h] /\ asked[h] \in Nat /\ Len(got[h]) \in Nat
    BY <2>2 DEF HookInv, GotInv, HookTypeOK
  <2>6. Len(got'[h]) <= asked'[h]
    BY <2>1, <2>4, <2>5 DEF HookInv, HookTypeOK
  <2>7. ASSUME NEW k \in Handlers PROVE GotInv(k)'
    <3>1. CASE k = h
      BY <2>4, <2>6, <3>1, Zenon DEF GotInv
    <3>2. CASE k # h
      BY <2>1, <3>2 DEF HookInv, HookTypeOK, GotInv
    <3> QED
      BY <3>1, <3>2
  <2>8. HookTypeOK'
    BY <2>1, <2>7 DEF HookInv, HookTypeOK, GotInv
  <2>9. got' = [k \in Handlers |-> got'[k]]
    BY <2>1 DEF HookInv
  <2> QED
    BY <2>1, <2>7, <2>8, <2>9 DEF HookInv, HookTypeOK
<1>6. ASSUME NEW signal, NEW content, pc[h] \in {"converting", "offering"}, Offer(signal, h, content)
      PROVE  \A o \in offered' \ offered : True(o) /\ Finished(o.status)
  BY <1>6 DEF Offer, HookInv, HookTypeOK
<1>7. ASSUME NEW ok \in BOOLEAN, OfferTraces(h, ok) PROVE HookInv'
  <2>1. \A o \in offered' \ offered : True(o) /\ Finished(o.status)
    BY <1>6, <1>7 DEF OfferTraces
  <2>2. HookTypeOK'
    BY <1>7 DEF OfferTraces, HookInv, HookTypeOK
  <2>3. \A k \in Handlers : GotInv(k)'
    BY <1>7 DEF OfferTraces, HookInv, GotInv
  <2> QED
    BY <1>7, <2>1, <2>2, <2>3 DEF OfferTraces, HookInv, HookTypeOK
<1>8. CASE OfferLogs(h)
  <2>1. \A o \in offered' \ offered : True(o) /\ Finished(o.status)
    BY <1>6, <1>8 DEF OfferLogs
  <2> QED
    BY <1>2, <1>8, <2>1 DEF OfferLogs
<1> QED
  BY <1>1, <1>3, <1>4, <1>5, <1>7, <1>8 DEF HandlerStep
-------------------------------------------------------------------------------
Base == ServerInv /\ ScraperTypeOK /\ HookInv

LEMMA BaseStarts == Init => Base
<1> SUFFICES ASSUME Init PROVE Base
  OBVIOUS
<1>1. ServerInv
  BY DEF Init, ServerInit, ServerInv
<1>2. ScraperTypeOK
  <2>1. <<>> \in Seq(SUBSET Point)
    OBVIOUS
  <2> QED
    BY <2>1 DEF Init, ScraperInit, ScraperTypeOK
<1> QED
  BY <1>1, <1>2, HookStarts DEF Init, Base

LEMMA BaseStep == Base /\ [Next]_vars => Base'
<1> SUFFICES ASSUME Base, [Next]_vars PROVE Base'
  OBVIOUS
<1> USE DEF Base
<1>1. CASE Drone
  <2>1. ServerInv' /\ Grows
    BY <1>1, TableGrows DEF Drone
  <2>2. ScraperTypeOK'
    BY <1>1 DEF Drone, scraper, ScraperTypeOK
  <2> QED
    BY <1>1, <2>1, <2>2, HookSurvivesGrowth DEF Drone
<1>2. CASE Scraper
  <2>1. ServerInv'
    BY <1>2 DEF Scraper, server, ServerInv, True, Finished
  <2>2. HookInv'
    BY <1>2, HookSurvivesGrowth DEF Scraper, server
  <2> QED
    BY <1>2, <2>1, <2>2, ScraperTypes DEF Scraper
<1>3. CASE Handler
  <2>1. ServerInv'
    BY <1>3 DEF Handler, server, ServerInv, True, Finished
  <2>2. ScraperTypeOK'
    BY <1>3 DEF Handler, scraper, ScraperTypeOK
  <2> QED
    BY <1>3, <2>1, <2>2, HookKeepsInv DEF Handler
<1>4. CASE UNCHANGED vars
  <2>1. ServerInv' /\ ScraperTypeOK'
    BY <1>4 DEF vars, server, scraper, ServerInv, True, Finished, ScraperTypeOK
  <2> QED
    BY <1>4, <2>1, HookSurvivesGrowth DEF vars, server
<1> QED
  BY <1>1, <1>2, <1>3, <1>4 DEF Next

\* Types: the table, the webhooks, the points and the handlers' variables are what the
\* code declares them to be.
THEOREM TypeCorrect == Spec => []TypeOK
<1>1. Base => TypeOK
  BY DEF Base, ServerInv, HookInv, TypeOK
<1> QED
  BY <1>1, BaseStarts, BaseStep, PTL DEF Spec

\* A scrape without an error in the rows counts every build whose trace was passed on,
\* under the status the trace has (handleEvent and scrapeBuilds).
THEOREM TracesAreCounted == Spec => TracedBuildsAreCounted
<1> DEFINE Counted ==
      at = "builds" /\ at' = "restarts" /\ whole' =>
       \A o \in offered : o.signal = "traces" /\ o.status \in Known =>
         LET b == builds[o.build]
         IN  \E p \in Points(buffer', "builds_number") :
               /\ p.status = o.status /\ p.slug = Slug(b) /\ p.source = Source(b)
               /\ p.val >= Cardinality(Traced(p.status, p.slug, p.source))
<1>1. Base /\ [Next]_vars => [Counted]_vars
  <2> SUFFICES ASSUME Base, Next, at = "builds", at' = "restarts", whole',
                      NEW o \in offered, o.signal = "traces", o.status \in Known
               PROVE  LET b == builds[o.build]
                      IN  \E p \in Points(buffer', "builds_number") :
                            /\ p.status = o.status /\ p.slug = Slug(b) /\ p.source = Source(b)
                            /\ p.val >= Cardinality(Traced(p.status, p.slug, p.source))
    OBVIOUS
  <2> DEFINE n      == o.build
             slug   == Slug(builds[n])
             source == Source(builds[n])
             group  == InGroup(o.status, slug, source)
             row    == [status |-> o.status, slug |-> slug, source |-> source,
                        val |-> Cardinality(group)]
             point  == BuildPoint(o.status, slug, source,
                                  ValueOf(BuildRows, o.status, slug, source))
  <2>1. PICK rows \in SUBSET BuildRows, error \in BOOLEAN : ScrapeBuilds(rows, error)
    BY DEF Next, Drone, Scraper, Handler, scraper, ScraperNext, StartController, GiveUp,
           Scrape, Emit, Connect, ScrapeRestarts, ScrapeInfo
  <2>2. buffer' = buffer \cup BuildPoints(BuildRows)
    BY <2>1 DEF ScrapeBuilds
  <2>3. n \in DOMAIN builds /\ builds[n].status = o.status
    BY DEF Base, HookInv, True
  <2>4. row \in BuildRows
    BY <2>3 DEF BuildRows, ToSet
  <2>5. point \in BuildPoints(BuildRows)
    BY <2>4 DEF BuildPoints
  <2>6. ValueOf(BuildRows, o.status, slug, source) = Cardinality(group)
    BY <2>4, ValueIsCount DEF Base
  <2>7. Traced(o.status, slug, source) \subseteq group
    BY DEF Traced, InGroup, Base, HookInv, True
  <2>8. Cardinality(group) >= Cardinality(Traced(o.status, slug, source))
    BY <2>7, GroupsAreFinite, FS_Subset, FS_CardinalityType DEF Base
  <2>9. point.metric = "builds_number" /\ point.status = o.status /\ point.slug = slug
          /\ point.source = source /\ point.val = Cardinality(group)
    BY <2>6 DEF BuildPoint
  <2>10. point \in Points(buffer', "builds_number")
    BY <2>2, <2>5, <2>9 DEF Points
  <2> QED
    BY <2>8, <2>9, <2>10
<1> QED
  BY <1>1, BaseStarts, BaseStep, PTL DEF Spec, TracedBuildsAreCounted
-------------------------------------------------------------------------------
\* The controller as newMetricsReceiver makes it: nothing runs Start.
UnconnectedInv ==
  /\ ~connected /\ consumed = <<>> /\ at \in {"created", "idle", "crashed"}
  /\ scrapes > 0 => at = "crashed"

\* Without Start, as the factory leaves it, there is never a pool: the first scrape
\* ends the process, and no metric ever reaches the consumer (newMetricsReceiver,
\* droneScraper.scrape).
THEOREM UnhookedNeverEmits ==
  ASSUME ~StartHook
  PROVE  Spec => [](~connected /\ consumed = <<>> /\ (scrapes > 0 => ~ScrapeHasPool))
<1>1. Init => UnconnectedInv
  BY DEF Init, ScraperInit, UnconnectedInv
<1>2. UnconnectedInv /\ [Next]_vars => UnconnectedInv'
  <2> SUFFICES ASSUME UnconnectedInv, [Next]_vars PROVE UnconnectedInv'
    OBVIOUS
  <2>1. CASE ScraperNext
    BY <2>1 DEF UnconnectedInv, ScraperNext, StartController, GiveUp, Scrape, Emit, Connect,
         ScrapeBuilds, ScrapeRestarts, ScrapeInfo
  <2>2. CASE UNCHANGED scraper
    BY <2>2 DEF scraper, UnconnectedInv
  <2> QED
    BY <2>1, <2>2 DEF Next, Drone, Scraper, Handler, vars
<1>3. UnconnectedInv => ~connected /\ consumed = <<>> /\ (scrapes > 0 => ~ScrapeHasPool)
  BY DEF UnconnectedInv, ScrapeHasPool
<1> QED
  BY <1>1, <1>2, <1>3, PTL DEF Spec
-------------------------------------------------------------------------------
\* Each series once.
OneOfEach(points) ==
  /\ \A p, q \in Points(points, "restarts_total") : p = q
  /\ \A p, q \in Points(points, "builds_number") :
       <<p.status, p.slug, p.source>> = <<q.status, q.slug, q.source>> => p = q
  /\ \A p, q \in Points(points, "repo_info") :
       <<p.slug, p.source>> = <<q.slug, q.source>> => p = q

\* The builder is empty between scrapes and fills query by query.
BufferInv ==
  /\ at \in {"created", "starting", "idle", "builds", "exited", "crashed"} => buffer = {}
  /\ at = "restarts" => Points(buffer, "restarts_total") = {}
  /\ at \in {"restarts", "info"} => Points(buffer, "repo_info") = {}
  /\ \A p \in buffer : p.ts = scrapes
  /\ OneOfEach(buffer)

LEMMA BuildPointsAreSeries ==
  ASSUME NEW rows
  PROVE  /\ \A p \in BuildPoints(rows) : p.metric = "builds_number" /\ p.ts = scrapes
         /\ \A p, q \in BuildPoints(rows) :
              p.status = q.status /\ p.slug = q.slug /\ p.source = q.source => p = q
BY DEF BuildPoints, BuildPoint

\* A branch has one build with the greatest number.
LEMMA OneChosen ==
  ASSUME ServerInv, NEW n \in InfoRows, NEW m \in InfoRows,
         InfoPoint(n).slug = InfoPoint(m).slug, InfoPoint(n).source = InfoPoint(m).source
  PROVE  n = m
<1>1. Rivals(n) = Rivals(m)
  BY DEF InfoPoint, Rivals
<1>2. n \in Rivals(n) /\ m \in Rivals(m)
  BY DEF InfoRows, IsChosen
<1>3. n \in Nat /\ m \in Nat
  BY DEF InfoRows, ServerInv
<1> QED
  BY <1>1, <1>2, <1>3 DEF InfoRows, IsChosen

LEMMA BufferStep == ServerInv /\ BufferInv /\ [Next]_vars => BufferInv'
<1> SUFFICES ASSUME ServerInv, BufferInv, [Next]_vars PROVE BufferInv'
  OBVIOUS
<1>1. CASE UNCHANGED scraper
  BY <1>1 DEF scraper, BufferInv, OneOfEach, Points
<1>2. CASE StartController \/ GiveUp \/ Scrape \/ Emit \/ \E ok \in BOOLEAN : Connect(ok)
  <2>1. buffer' = {}
    BY <1>2 DEF BufferInv, StartController, GiveUp, Scrape, Emit, Emitted, Connect
  <2> QED
    BY <2>1 DEF BufferInv, OneOfEach, Points
<1>3. ASSUME NEW rows \in SUBSET BuildRows, NEW error \in BOOLEAN, ScrapeBuilds(rows, error)
      PROVE  BufferInv'
  <2>1. buffer' = BuildPoints(rows) /\ at' = "restarts" /\ scrapes' = scrapes
    BY <1>3 DEF ScrapeBuilds, BufferInv
  <2>2. Points(buffer', "restarts_total") = {} /\ Points(buffer', "repo_info") = {}
    BY <2>1, BuildPointsAreSeries DEF Points
  <2>3. \A p \in buffer' : p.ts = scrapes'
    BY <2>1, BuildPointsAreSeries
  <2>4. \A p, q \in buffer' : p.status = q.status /\ p.slug = q.slug /\ p.source = q.source
                                => p = q
    BY <2>1, BuildPointsAreSeries
  <2>5. OneOfEach(buffer)'
    BY <2>2, <2>4 DEF OneOfEach, Points
  <2> QED
    BY <2>1, <2>2, <2>3, <2>5 DEF BufferInv
<1>4. ASSUME NEW ok \in BOOLEAN, ScrapeRestarts(ok) PROVE BufferInv'
  <2> DEFINE point == RestartsPoint(IF ok THEN Cardinality(Restarted) ELSE 0)
  <2>1. /\ buffer' = buffer \cup {point} /\ at' = "info" /\ at = "restarts"
        /\ scrapes' = scrapes
    BY <1>4 DEF ScrapeRestarts
  <2>2. point.metric = "restarts_total" /\ point.ts = scrapes
    BY DEF RestartsPoint
  <2> HIDE DEF point
  <2>3. /\ Points(buffer', "restarts_total") = {point}
        /\ Points(buffer', "builds_number") = Points(buffer, "builds_number")
        /\ Points(buffer', "repo_info") = {}
    BY <2>1, <2>2 DEF Points, BufferInv
  <2>4. OneOfEach(buffer)'
    BY <2>3 DEF OneOfEach, BufferInv
  <2>5. \A p \in buffer' : p.ts = scrapes'
    BY <2>1, <2>2 DEF BufferInv
  <2> QED
    BY <2>1, <2>3, <2>4, <2>5 DEF BufferInv
<1>5. ASSUME NEW rows \in SUBSET InfoRows, NEW error \in BOOLEAN, ScrapeInfo(rows, error)
      PROVE  BufferInv'
  <2> DEFINE points == {InfoPoint(n) : n \in rows}
  <2>1. /\ buffer' = buffer \cup points /\ at' = "emit" /\ at = "info"
        /\ scrapes' = scrapes
    BY <1>5 DEF ScrapeInfo
  <2>2. \A p \in points : p.metric = "repo_info" /\ p.ts = scrapes
    BY DEF InfoPoint
  <2>3. \A p, q \in points : p.slug = q.slug /\ p.source = q.source => p = q
    BY OneChosen
  <2> HIDE DEF points
  <2>4. /\ Points(buffer', "restarts_total") = Points(buffer, "restarts_total")
        /\ Points(buffer', "builds_number") = Points(buffer, "builds_number")
        /\ Points(buffer', "repo_info") = points
    BY <2>1, <2>2 DEF Points, BufferInv
  <2>5. OneOfEach(buffer)'
    BY <2>3, <2>4 DEF OneOfEach, BufferInv
  <2>6. \A p \in buffer' : p.ts = scrapes'
    BY <2>1, <2>2 DEF BufferInv
  <2> QED
    BY <2>1, <2>5, <2>6 DEF BufferInv
<1> QED
  BY <1>1, <1>2, <1>3, <1>4, <1>5 DEF Next, Drone, Scraper, Handler, vars, ScraperNext

LEMMA AppendedIsLast ==
  ASSUME NEW S, NEW s \in Seq(S), NEW x \in S, NEW i \in DOMAIN Append(s, x)
  PROVE  \/ i = Len(s) + 1 /\ Append(s, x)[i] = x
         \/ i \in DOMAIN s /\ i <= Len(s) /\ Append(s, x)[i] = s[i]
<1>1. DOMAIN Append(s, x) = 1 .. Len(s) + 1 /\ DOMAIN s = 1 .. Len(s) /\ Len(s) \in Nat
  OBVIOUS
<1> QED
  BY <1>1

\* Only Emit, after a scrape without an error, passes anything on.
LEMMA Consuming ==
  ASSUME [Next]_vars
  PROVE  \/ UNCHANGED consumed
         \/ ~failed /\ Emit /\ UNCHANGED server /\ consumed' = Append(consumed, buffer)
BY DEF Next, Drone, Scraper, Handler, vars, scraper, ScraperNext, StartController, GiveUp,
   Scrape, Emit, Connect, ScrapeBuilds, ScrapeRestarts, ScrapeInfo

\* What reaches the consumer is of one scrape and has each series once (scrape, Emit).
THEOREM EmissionsAreScrapes == Spec => []EmissionsOfOneScrape
<1> DEFINE Inv == Base /\ BufferInv /\ EmissionsOfOneScrape
<1>1. Init => Inv
  <2> SUFFICES ASSUME Init PROVE Inv
    OBVIOUS
  <2>1. BufferInv
    BY DEF Init, ScraperInit, BufferInv, OneOfEach, Points
  <2>2. EmissionsOfOneScrape
    BY DEF Init, ScraperInit, EmissionsOfOneScrape
  <2> QED
    BY <2>1, <2>2, BaseStarts
<1>2. Inv /\ [Next]_vars => Inv'
  <2> SUFFICES ASSUME Inv, [Next]_vars PROVE EmissionsOfOneScrape'
    BY BaseStep, BufferStep DEF Base
  <2>1. CASE UNCHANGED consumed
    BY <2>1 DEF EmissionsOfOneScrape, Points
  <2>2. CASE consumed' = Append(consumed, buffer)
    <3>1. consumed \in Seq(SUBSET Point) /\ buffer \in SUBSET Point
      BY DEF Base, ScraperTypeOK
    <3>2. \A i \in DOMAIN consumed' :
            consumed'[i] = buffer \/ (i \in DOMAIN consumed /\ consumed'[i] = consumed[i])
      BY <2>2, <3>1, AppendedIsLast
    <3>3. (\A p, q \in buffer : p.ts = q.ts) /\ OneOfEach(buffer)
      BY DEF BufferInv
    <3> QED
      BY <3>2, <3>3, Zenon DEF EmissionsOfOneScrape, OneOfEach
  <2> QED
    BY <2>1, <2>2, Consuming
<1>3. Inv => EmissionsOfOneScrape
  OBVIOUS
<1> QED
  BY <1>1, <1>2, <1>3, PTL DEF Spec
-------------------------------------------------------------------------------
\* No value that reached the consumer exceeds the count in the table, which only grows,
\* and one that is about to is that count or comes with an error.
RestartsInv ==
  /\ \A i \in DOMAIN consumed : \A p \in Points(consumed[i], "restarts_total") :
       p.val <= Cardinality(Restarted)
  /\ ~failed => \A q \in Points(buffer, "restarts_total") :
       /\ q.val <= Cardinality(Restarted)
       /\ \A i \in DOMAIN consumed : \A p \in Points(consumed[i], "restarts_total") :
            p.val <= q.val
  /\ RestartsNeverFall

LEMMA RestartValues ==
  ASSUME NEW points \in SUBSET Point, NEW p \in Points(points, "restarts_total")
  PROVE  p.val \in Nat
BY DEF Points, Point

LEMMA RestartsGrow ==
  ASSUME ServerInv, ServerInv', Grows
  PROVE  Cardinality(Restarted) <= Cardinality(Restarted') /\ Cardinality(Restarted') \in Nat
<1>1. Restarted \subseteq Restarted'
  BY DEF Restarted, Grows, ServerInv
<1>2. IsFiniteSet(1 .. Len(builds'))
  BY FS_Interval DEF ServerInv
<1>3. Restarted' \subseteq 1 .. Len(builds')
  BY DEF Restarted, ServerInv
<1> QED
  BY <1>1, <1>2, <1>3, FS_Subset, FS_CardinalityType

LEMMA RestartsStep ==
  Base /\ BufferInv /\ RestartsInv /\ Base' /\ [Next]_vars => RestartsInv'
<1> SUFFICES ASSUME Base, BufferInv, RestartsInv, Base', [Next]_vars PROVE RestartsInv'
  OBVIOUS
<1> DEFINE Arrived(i) == Points(consumed[i], "restarts_total")
           Pending    == Points(buffer, "restarts_total")
<1>1. /\ \A i \in DOMAIN consumed : \A p \in Arrived(i) : p.val \in Nat
      /\ \A q \in Pending : q.val \in Nat
      /\ consumed \in Seq(SUBSET Point) /\ buffer \in SUBSET Point
  BY RestartValues DEF Base, ScraperTypeOK
<1>2. Cardinality(Restarted) \in Nat
  BY RestartsAreFinite DEF Base
<1>3. CASE Drone
  <2>1. Grows /\ UNCHANGED <<consumed, buffer, failed>>
    BY <1>3, TableGrows DEF Drone, Base, scraper
  <2>2. Cardinality(Restarted) <= Cardinality(Restarted') /\ Cardinality(Restarted') \in Nat
    BY <2>1, RestartsGrow DEF Base
  <2>3. /\ \A i \in DOMAIN consumed : \A p \in Arrived(i) : p.val <= Cardinality(Restarted')
        /\ ~failed => \A q \in Pending : q.val <= Cardinality(Restarted')
    BY <1>1, <1>2, <2>2 DEF RestartsInv
  <2> QED
    BY <2>1, <2>3 DEF RestartsInv, RestartsNeverFall, Points
<1>4. CASE UNCHANGED server /\ UNCHANGED consumed
           /\ (Pending' \subseteq Pending \/ failed') /\ (failed => failed' \/ Pending' = {})
  BY <1>4 DEF RestartsInv, RestartsNeverFall, Restarted, Points, server
<1>5. ASSUME NEW ok \in BOOLEAN, ScrapeRestarts(ok), UNCHANGED server PROVE RestartsInv'
  <2> DEFINE point == RestartsPoint(IF ok THEN Cardinality(Restarted) ELSE 0)
  <2>1. Pending = {} /\ UNCHANGED consumed /\ (~failed' => ok /\ ~failed)
    BY <1>5 DEF ScrapeRestarts, BufferInv
  <2>2. buffer' = buffer \cup {point}
    BY <1>5 DEF ScrapeRestarts
  <2>3. ~failed' => \A q \in Pending' : q.val = Cardinality(Restarted)
    BY <2>1, <2>2 DEF Points, RestartsPoint
  <2>4. Cardinality(Restarted') = Cardinality(Restarted)
    BY <1>5 DEF Restarted, server
  <2> QED
    BY <1>1, <1>2, <2>1, <2>3, <2>4 DEF RestartsInv, RestartsNeverFall, Points
<1>6. CASE ~failed /\ Emit /\ UNCHANGED server /\ consumed' = Append(consumed, buffer)
  <2>1. buffer' = {} /\ Pending' = {}
    BY <1>6 DEF Emit, Emitted, Points
  <2>2. Restarted' = Restarted
    BY <1>6 DEF Restarted, server
  <2>3. \A i \in DOMAIN consumed' :
          \/ i = Len(consumed) + 1 /\ consumed'[i] = buffer
          \/ i \in DOMAIN consumed /\ i <= Len(consumed) /\ consumed'[i] = consumed[i]
    BY <1>1, <1>6, AppendedIsLast
  <2>4. \A i \in DOMAIN consumed' : \A p \in Points(consumed'[i], "restarts_total") :
          p.val <= Cardinality(Restarted)
    BY <1>6, <2>3 DEF RestartsInv
  <2>5. RestartsNeverFall'
    <3> SUFFICES ASSUME NEW i \in DOMAIN consumed', NEW j \in DOMAIN consumed', i < j,
                        NEW p \in Points(consumed'[i], "restarts_total"),
                        NEW q \in Points(consumed'[j], "restarts_total")
                 PROVE  p.val <= q.val
      BY DEF RestartsNeverFall, Points
    <3>1. i \in DOMAIN consumed /\ i <= Len(consumed) /\ consumed'[i] = consumed[i]
      BY <1>1, <2>3
    <3>2. CASE j = Len(consumed) + 1 /\ consumed'[j] = buffer
      BY <1>6, <3>1, <3>2 DEF RestartsInv
    <3>3. CASE j \in DOMAIN consumed /\ consumed'[j] = consumed[j]
      BY <3>1, <3>3 DEF RestartsInv, RestartsNeverFall
    <3> QED
      BY <2>3, <3>2, <3>3
  <2> QED
    BY <2>1, <2>2, <2>4, <2>5 DEF RestartsInv, Points
<1>7. CASE ScraperNext /\ UNCHANGED server /\ UNCHANGED consumed
  <2>1. CASE StartController \/ GiveUp \/ Scrape \/ Emit \/ \E ok \in BOOLEAN : Connect(ok)
    <3>1. buffer' = {}
      BY <2>1 DEF StartController, GiveUp, Scrape, Emit, Emitted, Connect, BufferInv
    <3> QED
      BY <1>4, <1>7, <3>1 DEF Points
  <2>2. ASSUME NEW rows \in SUBSET BuildRows, NEW error \in BOOLEAN, ScrapeBuilds(rows, error)
        PROVE  RestartsInv'
    <3>1. buffer' = BuildPoints(rows)
      BY <2>2 DEF ScrapeBuilds, BufferInv
    <3>2. Pending' = {}
      BY <3>1, BuildPointsAreSeries DEF Points
    <3> QED
      BY <1>4, <1>7, <3>2
  <2>3. ASSUME NEW rows \in SUBSET InfoRows, NEW error \in BOOLEAN, ScrapeInfo(rows, error)
        PROVE  RestartsInv'
    <3> DEFINE points == {InfoPoint(n) : n \in rows}
    <3>1. buffer' = buffer \cup points /\ (failed => failed')
      BY <2>3 DEF ScrapeInfo
    <3>2. \A p \in points : p.metric = "repo_info"
      BY DEF InfoPoint
    <3> HIDE DEF points
    <3>3. Pending' \subseteq Pending
      BY <3>1, <3>2 DEF Points
    <3> QED
      BY <1>4, <1>7, <3>1, <3>3
  <2> QED
    BY <1>5, <1>7, <2>1, <2>2, <2>3 DEF ScraperNext
<1>8. CASE UNCHANGED <<server, scraper>>
  BY <1>4, <1>8 DEF scraper, Points
<1> QED
  BY <1>3, <1>6, <1>7, <1>8, Consuming DEF Next, Scraper, Handler, vars

\* restarts_total never falls at the consumer (scrapeRestartedBuilds and Emit).
THEOREM RestartsRise == Spec => []RestartsNeverFall
<1> DEFINE Inv == Base /\ BufferInv /\ RestartsInv
<1>1. Init => Inv
  <2> SUFFICES ASSUME Init PROVE Inv
    OBVIOUS
  <2>1. BufferInv
    BY DEF Init, ScraperInit, BufferInv, OneOfEach, Points
  <2>2. RestartsInv
    BY DEF Init, ScraperInit, RestartsInv, RestartsNeverFall, Points
  <2> QED
    BY <2>1, <2>2, BaseStarts
<1>2. Inv /\ [Next]_vars => Inv'
  <2> SUFFICES ASSUME Inv, [Next]_vars PROVE Inv'
    OBVIOUS
  <2>1. Base' /\ BufferInv'
    BY BaseStep, BufferStep DEF Base
  <2> QED
    BY <2>1, RestartsStep
<1>3. Inv => RestartsNeverFall
  BY DEF RestartsInv
<1> QED
  BY <1>1, <1>2, <1>3, PTL DEF Spec
-------------------------------------------------------------------------------
\* A point of repo_info that tells of a finished build tells what is in the table.
Settled(p) ==
  p.status \in Outcomes =>
    /\ p.build \in DOMAIN builds /\ builds[p.build].status \in Outcomes
    /\ builds[p.build].shape.repo = p.slug /\ builds[p.build].shape.source = p.source

Before(p, q) ==
  p.slug = q.slug /\ p.source = q.source /\ p.status \in Outcomes => p.build <= q.build

InfoInv ==
  /\ \A i \in DOMAIN consumed : \A p \in Points(consumed[i], "repo_info") : Settled(p)
  /\ \A q \in Points(buffer, "repo_info") :
       /\ Settled(q)
       /\ \A i \in DOMAIN consumed : \A p \in Points(consumed[i], "repo_info") : Before(p, q)
  /\ InfoMovesOn

\* The build that is chosen for a branch is no older than one that finished there.
LEMMA ChosenIsLatest ==
  ASSUME ServerInv, NEW p, Settled(p), NEW n \in InfoRows
  PROVE  Before(p, InfoPoint(n))
<1> SUFFICES ASSUME p.slug = InfoPoint(n).slug, p.source = InfoPoint(n).source,
                    p.status \in Outcomes
             PROVE  p.build <= n
  BY DEF Before, InfoPoint
<1>1. p.build \in DOMAIN builds /\ builds[p.build].status \notin Excluded
  BY ScraperAssumption DEF Settled
<1>2. p.build \in Rivals(n)
  BY <1>1 DEF Settled, Rivals, InfoPoint
<1> QED
  BY <1>2 DEF InfoRows, IsChosen

LEMMA ChosenIsSettled ==
  ASSUME ServerInv, NEW n \in InfoRows
  PROVE  Settled(InfoPoint(n))
<1>1. InfoPoint(n).status \in Outcomes => builds[n].status \in Outcomes
  BY ServerAssumption DEF InfoPoint, Attribute
<1> QED
  BY <1>1 DEF Settled, InfoPoint, InfoRows

LEMMA InfoStep ==
  Base /\ BufferInv /\ InfoInv /\ [Next]_vars => InfoInv'
<1> SUFFICES ASSUME Base, BufferInv, InfoInv, [Next]_vars PROVE InfoInv'
  OBVIOUS
<1> DEFINE Pending == Points(buffer, "repo_info")
           StaysSettled(p) ==
             p.status \in Outcomes =>
               /\ p.build \in DOMAIN builds' /\ builds'[p.build].status \in Outcomes
               /\ builds'[p.build].shape.repo = p.slug
               /\ builds'[p.build].shape.source = p.source
<1>1. consumed \in Seq(SUBSET Point) /\ buffer \in SUBSET Point
  BY DEF Base, ScraperTypeOK
<1>2. ASSUME UNCHANGED builds \/ Grows, NEW p, Settled(p) PROVE StaysSettled(p)
  BY <1>2 DEF Settled, Grows, Finished, Base, ServerInv
<1>3. CASE (UNCHANGED builds \/ Grows) /\ UNCHANGED consumed /\ Pending' \subseteq Pending
  <2>1. \A i \in DOMAIN consumed : \A p \in Points(consumed[i], "repo_info") : StaysSettled(p)
    BY <1>2, <1>3 DEF InfoInv
  <2>2. \A q \in Pending' :
          /\ StaysSettled(q)
          /\ \A i \in DOMAIN consumed : \A p \in Points(consumed[i], "repo_info") : Before(p, q)
    BY <1>2, <1>3 DEF InfoInv
  <2> QED
    BY <1>3, <2>1, <2>2 DEF InfoInv, InfoMovesOn, Points, Settled, Before
<1>4. CASE Drone
  <2>1. Grows
    BY <1>4, TableGrows DEF Drone, Base
  <2> QED
    BY <1>3, <1>4, <2>1 DEF Drone, scraper, Points
<1>5. CASE UNCHANGED <<server, scraper>>
  BY <1>3, <1>5 DEF server, scraper, Points
<1>6. CASE Emit /\ UNCHANGED server /\ consumed' = Append(consumed, buffer)
  <2>1. buffer' = {} /\ Pending' = {}
    BY <1>6 DEF Emit, Emitted, Points
  <2>2. \A i \in DOMAIN consumed' :
          \/ i = Len(consumed) + 1 /\ consumed'[i] = buffer
          \/ i \in DOMAIN consumed /\ i <= Len(consumed) /\ consumed'[i] = consumed[i]
    BY <1>1, <1>6, AppendedIsLast
  <2>3. \A i \in DOMAIN consumed' : \A p \in Points(consumed'[i], "repo_info") : StaysSettled(p)
    <3>1. \A i \in DOMAIN consumed' : \A p \in Points(consumed'[i], "repo_info") : Settled(p)
      BY <2>2 DEF InfoInv
    <3> QED
      BY <1>2, <1>6, <3>1 DEF server
  <2>4. InfoMovesOn'
    <3> SUFFICES ASSUME NEW i \in DOMAIN consumed', NEW j \in DOMAIN consumed', i < j,
                        NEW p \in Points(consumed'[i], "repo_info"),
                        NEW q \in Points(consumed'[j], "repo_info")
                 PROVE  Before(p, q)
      BY DEF InfoMovesOn, Points, Before
    <3>1. i \in DOMAIN consumed /\ i <= Len(consumed) /\ consumed'[i] = consumed[i]
      BY <1>1, <2>2
    <3>2. CASE j = Len(consumed) + 1 /\ consumed'[j] = buffer
      BY <3>1, <3>2 DEF InfoInv
    <3>3. CASE j \in DOMAIN consumed /\ consumed'[j] = consumed[j]
      BY <3>1, <3>3 DEF InfoInv, InfoMovesOn, Before
    <3> QED
      BY <2>2, <3>2, <3>3
  <2> QED
    BY <2>1, <2>3, <2>4 DEF InfoInv, Points, Settled
<1>7. CASE ScraperNext /\ UNCHANGED server /\ UNCHANGED consumed
  <2>1. CASE StartController \/ GiveUp \/ Scrape \/ Emit \/ \E ok \in BOOLEAN : Connect(ok)
    <3>1. buffer' = {}
      BY <2>1 DEF StartController, GiveUp, Scrape, Emit, Emitted, Connect, BufferInv
    <3> QED
      BY <1>3, <1>7, <3>1 DEF Points, server
  <2>2. ASSUME NEW rows \in SUBSET BuildRows, NEW error \in BOOLEAN, ScrapeBuilds(rows, error)
        PROVE  InfoInv'
    <3>1. buffer' = BuildPoints(rows)
      BY <2>2 DEF ScrapeBuilds, BufferInv
    <3>2. Pending' = {}
      BY <3>1, BuildPointsAreSeries DEF Points
    <3> QED
      BY <1>3, <1>7, <3>2 DEF server
  <2>3. ASSUME NEW ok \in BOOLEAN, ScrapeRestarts(ok) PROVE InfoInv'
    <3> DEFINE point == RestartsPoint(IF ok THEN Cardinality(Restarted) ELSE 0)
    <3>1. buffer' = buffer \cup {point}
      BY <2>3 DEF ScrapeRestarts
    <3>2. point.metric = "restarts_total"
      BY DEF RestartsPoint
    <3> HIDE DEF point
    <3>3. Pending' \subseteq Pending
      BY <3>1, <3>2 DEF Points
    <3> QED
      BY <1>3, <1>7, <3>3 DEF server
  <2>4. ASSUME NEW rows \in SUBSET InfoRows, NEW error \in BOOLEAN, ScrapeInfo(rows, error)
        PROVE  InfoInv'
    <3> DEFINE points == {InfoPoint(n) : n \in rows}
    <3>1. buffer' = buffer \cup points /\ Pending = {}
      BY <2>4 DEF ScrapeInfo, BufferInv
    <3>2. \A q \in points : Settled(q) /\ \A p : Settled(p) => Before(p, q)
      BY ChosenIsLatest, ChosenIsSettled DEF Base
    <3> HIDE DEF points
    <3>3. Pending' \subseteq points
      BY <3>1 DEF Points
    <3>4. UNCHANGED <<builds, consumed>>
      BY <1>7 DEF server
    <3> QED
      BY <3>2, <3>3, <3>4 DEF InfoInv, InfoMovesOn, Points, Settled, Before
  <2> QED
    BY <1>7, <2>1, <2>2, <2>3, <2>4 DEF ScraperNext
<1> QED
  BY <1>4, <1>5, <1>6, <1>7, Consuming DEF Next, Scraper, Handler, vars

\* repo_info of a branch never goes back to an older build (scrapeInfo).
THEOREM InfoAdvances == Spec => []InfoMovesOn
<1> DEFINE Inv == Base /\ BufferInv /\ InfoInv
<1>1. Init => Inv
  <2> SUFFICES ASSUME Init PROVE Inv
    OBVIOUS
  <2>1. BufferInv
    BY DEF Init, ScraperInit, BufferInv, OneOfEach, Points
  <2>2. InfoInv
    BY DEF Init, ScraperInit, InfoInv, InfoMovesOn, Points
  <2> QED
    BY <2>1, <2>2, BaseStarts
<1>2. Inv /\ [Next]_vars => Inv'
  BY BaseStep, BufferStep, InfoStep DEF Base
<1>3. Inv => InfoMovesOn
  BY DEF InfoInv
<1> QED
  BY <1>1, <1>2, <1>3, PTL DEF Spec
-------------------------------------------------------------------------------
\* What is recorded of all rows is the size of the group: a group without a row is empty.
LEMMA PointsAreCounts ==
  ASSUME ServerInv, NEW p \in BuildPoints(BuildRows)
  PROVE  p.val = Cardinality(InGroup(p.status, p.slug, p.source))
<1>1. PICK s \in Known, r \in BuildRows :
        p = BuildPoint(s, r.slug, r.source, ValueOf(BuildRows, s, r.slug, r.source))
  BY DEF BuildPoints
<1>2. p.status = s /\ p.slug = r.slug /\ p.source = r.source
        /\ p.val = ValueOf(BuildRows, s, r.slug, r.source)
  BY <1>1 DEF BuildPoint
<1> DEFINE found == {x \in BuildRows : x.status = s /\ x.slug = r.slug /\ x.source = r.source}
<1>3. CASE found = {}
  <2>1. InGroup(s, r.slug, r.source) = {}
    <3> SUFFICES ASSUME NEW n \in InGroup(s, r.slug, r.source) PROVE FALSE
      OBVIOUS
    <3> DEFINE row == [status |-> builds[n].status, slug |-> Slug(builds[n]),
                       source |-> Source(builds[n]),
                       val |-> Cardinality(InGroup(builds[n].status, Slug(builds[n]),
                                                   Source(builds[n])))]
    <3>1. row \in BuildRows
      BY DEF BuildRows, ToSet, InGroup
    <3>2. row.status = s /\ row.slug = r.slug /\ row.source = r.source
      BY DEF InGroup
    <3> QED
      BY <1>3, <3>1, <3>2
  <2>2. ValueOf(BuildRows, s, r.slug, r.source) = 0
    BY <1>3 DEF ValueOf
  <2> QED
    BY <1>2, <2>1, <2>2, FS_EmptySet
<1>4. CASE found # {}
  <2>1. \E x \in BuildRows : x.status = s /\ x.slug = r.slug /\ x.source = r.source
    BY <1>4
  <2>2. ValueOf(BuildRows, s, r.slug, r.source) = Cardinality(InGroup(s, r.slug, r.source))
    BY <2>1, ValueIsCount
  <2> QED
    BY <1>2, <2>2
<1> QED
  BY <1>3, <1>4

LEMMA ImageIsFinite ==
  ASSUME NEW S, IsFiniteSet(S), NEW f
  PROVE  IsFiniteSet({f[x] : x \in S})
<1> DEFINE T == {f[x] : x \in S}
           g == [x \in S |-> f[x]]
<1>1. g \in Surjection(S, T)
  BY DEF Surjection
<1> QED
  BY <1>1, FS_Surjection, Zenon

LEMMA PointsAreFinite == ServerInv => IsFiniteSet(BuildPoints(BuildRows))
<1> SUFFICES ASSUME ServerInv PROVE IsFiniteSet(BuildPoints(BuildRows))
  OBVIOUS
<1> DEFINE row == [n \in DOMAIN builds |->
                     [status |-> builds[n].status, slug |-> Slug(builds[n]),
                      source |-> Source(builds[n]),
                      val |-> Cardinality(InGroup(builds[n].status, Slug(builds[n]),
                                                  Source(builds[n])))]]
           point == [x \in Known \X BuildRows |->
                       BuildPoint(x[1], x[2].slug, x[2].source,
                                  ValueOf(BuildRows, x[1], x[2].slug, x[2].source))]
<1>1. IsFiniteSet(DOMAIN builds)
  BY FS_Interval DEF ServerInv
<1>2. IsFiniteSet(BuildRows)
  <2>1. BuildRows = {row[n] : n \in DOMAIN builds}
    BY DEF BuildRows, ToSet
  <2>2. IsFiniteSet({row[n] : n \in DOMAIN builds})
    BY <1>1, ImageIsFinite, Zenon
  <2> QED
    BY <2>1, <2>2
<1>3. IsFiniteSet(Known \X BuildRows)
  BY <1>2, ScraperAssumption, FS_Product
<1>4. BuildPoints(BuildRows) = {point[x] : x \in Known \X BuildRows}
  <2>1. ASSUME NEW p \in BuildPoints(BuildRows) PROVE p \in {point[x] : x \in Known \X BuildRows}
    <3>1. PICK s \in Known, r \in BuildRows :
            p = BuildPoint(s, r.slug, r.source, ValueOf(BuildRows, s, r.slug, r.source))
      BY DEF BuildPoints
    <3>2. <<s, r>> \in Known \X BuildRows /\ p = point[<<s, r>>]
      BY <3>1
    <3> HIDE DEF point
    <3> QED
      BY <3>2
  <2>2. ASSUME NEW x \in Known \X BuildRows PROVE point[x] \in BuildPoints(BuildRows)
    BY DEF BuildPoints
  <2> HIDE DEF point
  <2> QED
    BY <2>1, <2>2
<1>5. IsFiniteSet({point[x] : x \in Known \X BuildRows})
  <2> HIDE DEF point
  <2> QED
    BY <1>3, ImageIsFinite, Zenon
<1> QED
  BY <1>4, <1>5

\* A scrape that read all rows counts every build with a known status once
\* (scrapeBuilds): the groups of the points have no build in common, and every build
\* with a known status is in one.
THEOREM BuildsCountedOnce == Spec => BuildsAddUp
<1> DEFINE Counted ==
      at = "builds" /\ at' = "restarts" /\ whole' =>
        LET points == Points(buffer', "builds_number")
        IN  SumFunctionOnSet([p \in points |-> p.val], points)
              = Cardinality({n \in DOMAIN builds : builds[n].status \in Known})
<1>1. Base /\ BufferInv /\ [Next]_vars => [Counted]_<<server, scraper>>
  <2> SUFFICES ASSUME Base, BufferInv, Next, at = "builds", at' = "restarts", whole'
               PROVE  LET points == Points(buffer', "builds_number")
                      IN  SumFunctionOnSet([p \in points |-> p.val], points)
                            = Cardinality({n \in DOMAIN builds : builds[n].status \in Known})
    BY DEF vars
  <2> DEFINE points == BuildPoints(BuildRows)
             val    == [p \in points |-> p.val]
             groups == [p \in points |-> InGroup(p.status, p.slug, p.source)]
             known  == {n \in DOMAIN builds : builds[n].status \in Known}
  <2>1. PICK rows \in SUBSET BuildRows, error \in BOOLEAN : ScrapeBuilds(rows, error)
    BY DEF Next, Drone, Scraper, Handler, scraper, ScraperNext, StartController, GiveUp,
           Scrape, Emit, Connect, ScrapeRestarts, ScrapeInfo
  <2>2. buffer' = points
    BY <2>1 DEF ScrapeBuilds, BufferInv
  <2>3. Points(buffer', "builds_number") = points
    BY <2>2, BuildPointsAreSeries DEF Points
  <2>4. IsFiniteSet(points) /\ IsFiniteSet(DOMAIN builds)
    BY PointsAreFinite, FS_Interval DEF Base, ServerInv
  <2>5. groups \in [points -> SUBSET DOMAIN builds]
    BY DEF InGroup
  <2>6. ASSUME NEW p \in points, NEW q \in points, p # q PROVE groups[p] \cap groups[q] = {}
    <3>1. p.status # q.status \/ p.slug # q.slug \/ p.source # q.source
      BY <2>6, BuildPointsAreSeries
    <3> QED
      BY <3>1 DEF InGroup
  <2>7. \A p \in points : val[p] = Cardinality(groups[p])
    BY PointsAreCounts DEF Base
  <2>8. UNION {groups[p] : p \in points} = known
    <3>1. ASSUME NEW p \in points PROVE groups[p] \subseteq known
      <4>1. p.status \in Known
        BY DEF BuildPoints, BuildPoint
      <4> QED
        BY <4>1 DEF InGroup
    <3>2. ASSUME NEW n \in known PROVE \E p \in points : n \in groups[p]
      <4> DEFINE row == [status |-> builds[n].status, slug |-> Slug(builds[n]),
                         source |-> Source(builds[n]),
                         val |-> Cardinality(InGroup(builds[n].status, Slug(builds[n]),
                                                     Source(builds[n])))]
                 point == BuildPoint(builds[n].status, row.slug, row.source,
                                     ValueOf(BuildRows, builds[n].status, row.slug, row.source))
      <4>1. row \in BuildRows
        BY DEF BuildRows, ToSet
      <4>2. point \in points
        BY <4>1 DEF BuildPoints
      <4>3. point.status = builds[n].status /\ point.slug = Slug(builds[n])
              /\ point.source = Source(builds[n])
        BY DEF BuildPoint
      <4>4. n \in groups[point]
        BY <4>2, <4>3 DEF InGroup
      <4> QED
        BY <4>2, <4>4
    <3> HIDE DEF points, groups, known
    <3> QED
      BY <3>1, <3>2
  <2>9. SumFunctionOnSet(val, points) = Cardinality(UNION {groups[p] : p \in points})
    <3> HIDE DEF points, groups, val
    <3> QED
      BY <2>4, <2>5, <2>6, <2>7, SumOfCounts
  <2> QED
    BY <2>3, <2>8, <2>9
<1>2. Base /\ BufferInv /\ [Next]_vars => (Base /\ BufferInv)'
  BY BaseStep, BufferStep DEF Base
<1>3. Init => Base /\ BufferInv
  BY BaseStarts DEF Init, ScraperInit, BufferInv, OneOfEach, Points
<1> QED
  BY <1>1, <1>2, <1>3, PTL DEF Spec, BuildsAddUp
-------------------------------------------------------------------------------
\* What FlattenSeq computes the sequence of all elements with.
IsFlattened(f, seqs) ==
  f = [i \in 1 .. Len(seqs) |-> IF i = 1 THEN seqs[i] ELSE f[i - 1] \o seqs[i]]

LEMMA FlattenedExists ==
  ASSUME NEW T, NEW seqs \in Seq(Seq(T)), Len(seqs) # 0
  PROVE  \E f : IsFlattened(f, seqs)
<1> DEFINE n    == Len(seqs) - 1
           step == [x \in (1 .. n) \X Seq(T) |-> x[2] \o seqs[x[1] + 1]]
<1>1. n \in Nat /\ seqs[1] \in Seq(T)
  BY LenProperties, ElementOfSeq
<1>2. step \in [(1 .. n) \X Seq(T) -> Seq(T)]
  <2>1. ASSUME NEW x \in (1 .. n) \X Seq(T) PROVE x[2] \o seqs[x[1] + 1] \in Seq(T)
    <3>1. x[2] \in Seq(T) /\ x[1] + 1 \in 1 .. Len(seqs)
      BY <1>1
    <3>2. seqs[x[1] + 1] \in Seq(T)
      BY <3>1, ElementOfSeq
    <3> QED
      BY <3>1, <3>2, ConcatProperties
  <2> QED
    BY <2>1
<1>3. PICK g \in [0 .. n -> Seq(T)] : Iterated(g, n, seqs[1], step)
  <2> HIDE DEF n, step
  <2> QED
    BY <1>1, <1>2, Iterates
<1> DEFINE f == [i \in 1 .. Len(seqs) |-> g[i - 1]]
<1>4. ASSUME NEW i \in 1 .. Len(seqs)
      PROVE  f[i] = IF i = 1 THEN seqs[i] ELSE f[i - 1] \o seqs[i]
  <2>1. CASE i = 1
    BY <1>3, <2>1 DEF Iterated
  <2>2. CASE i # 1
    <3>1. i - 1 \in 1 .. n /\ f[i] = g[i - 1] /\ (i - 1) - 1 \in 0 .. n /\ (i - 1) + 1 = i
      BY <1>1, <2>2
    <3>2. g[i - 1] = step[<<i - 1, g[(i - 1) - 1]>>]
      BY <1>3, <3>1 DEF Iterated
    <3>3. <<i - 1, g[(i - 1) - 1]>> \in (1 .. n) \X Seq(T)
      BY <3>1
    <3>4. step[<<i - 1, g[(i - 1) - 1]>>] = g[(i - 1) - 1] \o seqs[i]
      BY <3>1, <3>3
    <3>5. f[i - 1] = g[(i - 1) - 1]
      BY <3>1
    <3> HIDE DEF f, step, n
    <3> QED
      BY <2>2, <3>1, <3>2, <3>4, <3>5
  <2> QED
    BY <2>1, <2>2
<1>5. IsFlattened(f, seqs)
  BY <1>4 DEF IsFlattened
<1> QED
  BY <1>5

\* A flattened sequence has the elements of all its parts and no others.
LEMMA Flattened ==
  ASSUME NEW T, NEW seqs \in Seq(Seq(T))
  PROVE  /\ FlattenSeq(seqs) \in Seq(T)
         /\ \A x : x \in ToSet(FlattenSeq(seqs)) <=> \E i \in 1 .. Len(seqs) : x \in ToSet(seqs[i])
<1>1. CASE Len(seqs) = 0
  <2>1. FlattenSeq(seqs) = <<>>
    BY <1>1, EmptySeq DEF FlattenSeq
  <2>2. ToSet(<<>>) = {}
    BY DEF ToSet
  <2> QED
    BY <1>1, <2>1, <2>2, EmptySeq
<1>2. CASE Len(seqs) # 0
  <2> DEFINE f == CHOOSE f : IsFlattened(f, seqs)
  <2>1. IsFlattened(f, seqs)
    BY <1>2, FlattenedExists, Zenon
  <2>2. FlattenSeq(seqs) = f[Len(seqs)]
    BY <1>2, Zenon DEF FlattenSeq, IsFlattened
  <2> HIDE DEF f
  <2> DEFINE Has(k) == /\ f[k + 1] \in Seq(T)
                      /\ \A x : x \in Range(f[k + 1]) <=> \E i \in 1 .. k + 1 : x \in Range(seqs[i])
             N == {k \in Nat : k + 1 <= Len(seqs) => Has(k)}
  <2>3. Len(seqs) \in Nat /\ Len(seqs) >= 1 /\ \A i \in 1 .. Len(seqs) : seqs[i] \in Seq(T)
    BY <1>2, LenProperties, ElementOfSeq
  <2>4. 0 \in N
    <3>1. f[1] = seqs[1]
      BY <2>1, <2>3 DEF IsFlattened
    <3> QED
      BY <2>3, <3>1
  <2>5. ASSUME NEW k \in Nat, k \in N PROVE k + 1 \in N
    <3> SUFFICES ASSUME (k + 1) + 1 <= Len(seqs) PROVE Has(k + 1)
      OBVIOUS
    <3>1. Has(k)
      BY <2>5, <2>3
    <3>2. f[(k + 1) + 1] = f[k + 1] \o seqs[(k + 1) + 1]
      <4>1. (k + 1) + 1 \in 1 .. Len(seqs) /\ (k + 1) + 1 # 1 /\ ((k + 1) + 1) - 1 = k + 1
        BY <2>3
      <4> QED
        BY <2>1, <4>1 DEF IsFlattened
    <3>3. seqs[(k + 1) + 1] \in Seq(T)
      BY <2>3
    <3>4. f[(k + 1) + 1] \in Seq(T)
      BY <3>1, <3>2, <3>3, ConcatProperties
    <3>5. Range(f[(k + 1) + 1]) = Range(f[k + 1]) \cup Range(seqs[(k + 1) + 1])
      BY <3>1, <3>2, <3>3, RangeConcatenation
    <3>6. \A i : i \in 1 .. (k + 1) + 1 <=> i \in 1 .. k + 1 \/ i = (k + 1) + 1
      OBVIOUS
    <3> QED
      BY <3>1, <3>4, <3>5, <3>6, Zenon
  <2>6. Nat \subseteq N
    <3> HIDE DEF N
    <3> QED
      BY <2>4, <2>5, Induct
  <2>7. Has(Len(seqs) - 1) /\ (Len(seqs) - 1) + 1 = Len(seqs)
    <3>1. Len(seqs) - 1 \in Nat /\ (Len(seqs) - 1) + 1 = Len(seqs)
      BY <2>3
    <3>2. Len(seqs) - 1 \in N
      BY <2>6, <3>1
    <3>3. (Len(seqs) - 1) + 1 <= Len(seqs) => Has(Len(seqs) - 1)
      <4> HIDE DEF Has
      <4> QED
        BY <3>2
    <3>4. (Len(seqs) - 1) + 1 <= Len(seqs)
      BY <2>3
    <3> QED
      BY <3>1, <3>3, <3>4, Zenon
  <2> HIDE DEF Has
  <2>8. f[Len(seqs)] \in Seq(T)
          /\ \A x : x \in Range(f[Len(seqs)]) <=> \E i \in 1 .. Len(seqs) : x \in Range(seqs[i])
    BY <2>7, Zenon DEF Has
  <2> QED
    BY <2>2, <2>8 DEF ToSet, Range
<1> QED
  BY <1>1, <1>2

\* The steps a handler asks for are those of the build that were not skipped.
LEMMA StepsAreUnskipped ==
  ASSUME NEW shape \in Shape
  PROVE  /\ StepsOf(shape) \in Seq(Nat \X Nat)
         /\ ToSet(StepsOf(shape)) = Unskipped(shape)
<1> DEFINE T == Nat \X Nat
           steps(i) == shape.stages[i].steps
           part(i) == [j \in DOMAIN steps(i) |->
                         IF steps(i)[j].status = "skipped" THEN <<>> ELSE <<<<i, j>>>>]
           parts == [i \in DOMAIN shape.stages |-> FlattenSeq(part(i))]
<1>1. shape.stages \in Seq(Stage)
  BY DEF Shape
<1>2. ASSUME NEW i \in DOMAIN shape.stages
      PROVE  /\ FlattenSeq(part(i)) \in Seq(T)
             /\ \A x : x \in ToSet(FlattenSeq(part(i))) <=>
                  \E j \in DOMAIN steps(i) : steps(i)[j].status # "skipped" /\ x = <<i, j>>
  <2>1. i \in Nat /\ steps(i) \in Seq(Step)
    <3>1. i \in 1 .. Len(shape.stages) /\ shape.stages[i] \in Stage
      BY <1>1, LenProperties, ElementOfSeq
    <3> QED
      BY <3>1 DEF Stage
  <2>2. \A j \in DOMAIN steps(i) : j \in Nat /\ part(i)[j] \in Seq(T)
    <3> SUFFICES ASSUME NEW j \in DOMAIN steps(i) PROVE j \in Nat /\ part(i)[j] \in Seq(T)
      OBVIOUS
    <3>1. j \in Nat
      BY <2>1, LenProperties
    <3>2. <<i, j>> \in T
      BY <2>1, <3>1
    <3>3. <<<<i, j>>>> \in Seq(T) /\ <<>> \in Seq(T)
      BY <3>2
    <3> QED
      BY <3>1, <3>3
  <2>3. part(i) \in Seq(Seq(T)) /\ Len(part(i)) = Len(steps(i))
          /\ DOMAIN steps(i) = 1 .. Len(steps(i))
    <3>1. DOMAIN steps(i) = 1 .. Len(steps(i)) /\ Len(steps(i)) \in Nat
      BY <2>1, LenProperties
    <3>2. part(i) \in [1 .. Len(steps(i)) -> Seq(T)]
      BY <2>2, <3>1
    <3> HIDE DEF part
    <3> QED
      BY <3>1, <3>2, IsASeq, LenProperties
  <2>4. /\ FlattenSeq(part(i)) \in Seq(T)
        /\ \A x : x \in ToSet(FlattenSeq(part(i))) <=>
             \E j \in 1 .. Len(part(i)) : x \in ToSet(part(i)[j])
    <3> HIDE DEF part
    <3> QED
      BY <2>3, Flattened
  <2>5. ASSUME NEW j \in DOMAIN steps(i), NEW x
        PROVE  x \in ToSet(part(i)[j]) <=> steps(i)[j].status # "skipped" /\ x = <<i, j>>
    <3>1. ToSet(<<>>) = {} /\ ToSet(<<<<i, j>>>>) = {<<i, j>>}
      BY DEF ToSet
    <3> QED
      BY <3>1
  <2> HIDE DEF part
  <2> QED
    BY <2>3, <2>4, <2>5
<1>3. parts \in Seq(Seq(T)) /\ Len(parts) = Len(shape.stages)
        /\ DOMAIN shape.stages = 1 .. Len(shape.stages)
  <2>1. DOMAIN shape.stages = 1 .. Len(shape.stages) /\ Len(shape.stages) \in Nat
    BY <1>1, LenProperties
  <2>2. parts \in [1 .. Len(shape.stages) -> Seq(T)]
    BY <1>2, <2>1
  <2> HIDE DEF parts
  <2> QED
    BY <2>1, <2>2, IsASeq, LenProperties
<1>4. StepsOf(shape) = FlattenSeq(parts)
  BY DEF StepsOf
<1>5. ASSUME NEW i \in DOMAIN shape.stages PROVE parts[i] = FlattenSeq(part(i))
  OBVIOUS
<1> HIDE DEF parts, part
<1>6. /\ FlattenSeq(parts) \in Seq(T)
      /\ \A x : x \in ToSet(FlattenSeq(parts)) <=>
           \E i \in 1 .. Len(parts) : x \in ToSet(parts[i])
  BY <1>3, Flattened
<1>7. \A x : x \in ToSet(FlattenSeq(parts)) <=>
        \E i \in DOMAIN shape.stages : \E j \in DOMAIN steps(i) :
          steps(i)[j].status # "skipped" /\ x = <<i, j>>
  <2>1. ASSUME NEW x, NEW i \in DOMAIN shape.stages
        PROVE  x \in ToSet(parts[i]) <=>
                 \E j \in DOMAIN steps(i) : steps(i)[j].status # "skipped" /\ x = <<i, j>>
    BY <1>2, <1>5, Zenon
  <2>2. \A i : i \in 1 .. Len(parts) <=> i \in DOMAIN shape.stages
    BY <1>3
  <2> QED
    BY <1>6, <2>1, <2>2, Zenon
<1>8. \A x : x \in Unskipped(shape) <=>
        \E i \in DOMAIN shape.stages : \E j \in DOMAIN steps(i) :
          steps(i)[j].status # "skipped" /\ x = <<i, j>>
  BY DEF Unskipped
<1> QED
  BY <1>4, <1>6, <1>7, <1>8
-------------------------------------------------------------------------------
\* A reply of Drone to the request for the logs of a step.
Reply(r, p, ok) == [id |-> Id(r, p[1], p[2]), ok |-> ok]

\* Drone was asked for the logs of a step.
Asks(rs, r, p) == \E ok \in BOOLEAN : Reply(r, p, ok) \in rs

\* What becomes of the lines of a step of a build of that shape.
LogsOf(shape, r, p) ==
  [span |-> Id(r, p[1], p[2]), stamps |-> Stamps(StepAt(shape, p))]

\* Logs are those of steps Drone gave some for, and of all it did.
Matches(rs, shape, r, logs) ==
  /\ \A l \in ToSet(logs) : \E p \in Unskipped(shape) :
       l = LogsOf(shape, r, p) /\ Reply(r, p, TRUE) \in rs
  /\ \A x \in rs : x.ok /\ x.id[1] = r.serial => \E l \in ToSet(logs) : l.span = x.id

\* No two handlers work on one webhook, and what is said of one has a number that was
\* given out.
SerialInv ==
  /\ \A h \in Handlers : req[h].kind = "build" => req[h].serial <= received
  /\ \A h, k \in Handlers :
       req[h].kind = "build" /\ req[k].kind = "build" /\ req[h].serial = req[k].serial => h = k
  /\ \A x \in replies : x.ok \in BOOLEAN /\ x.id[1] \in Nat /\ x.id[1] <= received
  /\ \A o \in offered : o.serial \in Nat /\ o.serial <= received

\* A handler asks for one step after the other, and has what Drone answered.
Asking(h) ==
  /\ asked[h] <= Len(Steps(h)) /\ (pc[h] = "offering" => asked[h] = Len(Steps(h)))
  /\ \A n \in 1 .. asked[h] : Asks(replies, req[h], Steps(h)[n])
  /\ Matches(replies, ShapeOf(req[h]), req[h], got[h])

AskedInv ==
  \A h \in Handlers :
    /\ pc[h] = "serving" /\ req[h].kind = "build" =>
         \A x \in replies : x.id[1] # req[h].serial
    /\ pc[h] \in {"idle", "serving"} => got[h] = <<>> /\ asked[h] = 0
    /\ pc[h] \in {"converting", "offering"} => Asking(h)

\* What was passed on is as a handler had it.
Kept(rs, shape, o) ==
  /\ o.signal = "logs" =>
       (\A p \in Unskipped(shape) : Asks(rs, o, p)) /\ Matches(rs, shape, o, o.content)
  /\ o.signal = "traces" =>
       \A p \in Unskipped(shape) : \E span \in o.content : span.id = Id(o, p[1], p[2])

\* One webhook is of one build, and a handler that passed logs on is done with it.
OfferedInv ==
  \A o \in offered :
    /\ Kept(replies, ShapeOf(o), o)
    /\ \A t \in offered : t.serial = o.serial => t.build = o.build
    /\ \A h \in Handlers : req[h].kind = "build" /\ req[h].serial = o.serial =>
         o.signal # "logs" /\ req[h].build = o.build

KeptInv == SerialInv /\ AskedInv /\ OfferedInv

LEMMA ShapesAreTyped ==
  ASSUME ServerInv, NEW r, True(r)
  PROVE  ShapeOf(r) \in Shape
<1>1. builds[r.build] \in Row
  BY ElementOfSeq, LenProperties DEF ServerInv, True
<1> QED
  BY <1>1, ServerAssumption DEF Row, ShapeOf

\* Replies to others change nothing.
LEMMA MatchesStill ==
  ASSUME NEW rs, NEW ss, NEW shape, NEW r, NEW logs, Matches(rs, shape, r, logs),
         rs \subseteq ss, \A x \in ss \ rs : x.id[1] # r.serial
  PROVE  Matches(ss, shape, r, logs)
BY DEF Matches

LEMMA MatchesMore ==
  ASSUME NEW rs, NEW shape, NEW r, NEW S, NEW logs \in Seq(S), Matches(rs, shape, r, logs),
         NEW p \in Unskipped(shape), NEW ok \in BOOLEAN
  PROVE  Matches(rs \cup {Reply(r, p, ok)}, shape, r,
                 IF ok THEN Append(logs, LogsOf(shape, r, p)) ELSE logs)
<1> DEFINE own == LogsOf(shape, r, p)
           ss == rs \cup {Reply(r, p, ok)}
<1>1. own.span = Id(r, p[1], p[2]) /\ Reply(r, p, ok).id = Id(r, p[1], p[2])
        /\ Reply(r, p, ok).ok = ok
  BY DEF LogsOf, Reply
<1>2. CASE ok
  <2>1. ToSet(Append(logs, own)) = ToSet(logs) \cup {own}
    <3>1. Append(logs, own) = logs \o <<own>> /\ logs \in Seq(S \cup {own})
            /\ <<own>> \in Seq(S \cup {own})
      BY AppendIsConcat
    <3>2. Range(Append(logs, own)) = Range(logs) \cup Range(<<own>>)
      BY <3>1, RangeConcatenation
    <3>3. Range(<<own>>) = {own}
      BY DEF Range
    <3> QED
      BY <3>2, <3>3 DEF ToSet, Range
  <2>2. Reply(r, p, TRUE) \in ss
    BY <1>2
  <2> HIDE DEF own
  <2>3. own = LogsOf(shape, r, p)
    BY DEF own
  <2>4. \A l \in ToSet(Append(logs, own)) : \E q \in Unskipped(shape) :
          l = LogsOf(shape, r, q) /\ Reply(r, q, TRUE) \in ss
    BY <2>1, <2>2, <2>3 DEF Matches
  <2>5. \A x \in ss : x.ok /\ x.id[1] = r.serial =>
          \E l \in ToSet(Append(logs, own)) : l.span = x.id
    BY <1>1, <2>1 DEF Matches
  <2> QED
    BY <1>2, <2>3, <2>4, <2>5 DEF Matches
<1>3. CASE ~ok
  BY <1>1, <1>3 DEF Matches
<1> QED
  BY <1>2, <1>3
-------------------------------------------------------------------------------
\* What a handler with a build works on.
LEMMA RequestFields ==
  ASSUME Base, NEW h \in Handlers, req[h].kind = "build"
  PROVE  /\ req[h] \in Request /\ True(req[h]) /\ ShapeOf(req[h]) \in Shape
         /\ Steps(h) \in Seq(Nat \X Nat) /\ Len(Steps(h)) \in Nat
         /\ ToSet(Steps(h)) = Unskipped(ShapeOf(req[h]))
<1>1. req[h] \in Request
  BY HookAssumption DEF Base, HookInv, HookTypeOK, Nothing
<1>2. True(req[h]) /\ ShapeOf(req[h]) \in Shape
  BY ShapesAreTyped DEF Base, HookInv
<1> QED
  BY <1>1, <1>2, StepsAreUnskipped, LenProperties DEF Steps

\* The table grows and nothing else happens.
LEMMA KeptSurvivesGrowth ==
  Base /\ KeptInv /\ (Grows \/ UNCHANGED builds) /\ UNCHANGED hook => KeptInv'
<1> SUFFICES ASSUME Base, KeptInv, Grows \/ UNCHANGED builds, UNCHANGED hook PROVE KeptInv'
  OBVIOUS
<1>1. ASSUME NEW r, True(r) PROVE builds'[r.build].shape = builds[r.build].shape
  BY <1>1 DEF True, Grows
<1>2. SerialInv'
  BY DEF KeptInv, SerialInv, hook
<1>3. ASSUME NEW h \in Handlers, pc[h] \in {"converting", "offering"} PROVE Asking(h)'
  <2>1. req[h].kind = "build" /\ Asking(h)
    BY <1>3 DEF Base, HookInv, KeptInv, AskedInv
  <2>2. builds'[req[h].build].shape = builds[req[h].build].shape
    <3>1. True(req[h])
      BY <2>1, RequestFields
    <3>2. PICK r : r = req[h]
      OBVIOUS
    <3> QED
      BY <1>1, <3>1, <3>2
  <2>3. ShapeOf(req[h])' = ShapeOf(req[h]) /\ UNCHANGED <<req, asked, pc, got, replies>>
    BY <2>2 DEF ShapeOf, hook
  <2>4. Steps(h)' = Steps(h)
    BY <2>3 DEF Steps
  <2> QED
    BY <2>1, <2>3, <2>4 DEF Asking
<1>4. AskedInv'
  BY <1>3 DEF KeptInv, AskedInv, hook
<1>5. ASSUME NEW o \in offered PROVE ShapeOf(o)' = ShapeOf(o)
  BY <1>1 DEF Base, HookInv, ShapeOf
<1>6. OfferedInv'
  BY <1>5 DEF KeptInv, OfferedInv, hook
<1> QED
  BY <1>2, <1>4, <1>6 DEF KeptInv

\* A handler that changes alone and leaves replies and what was offered alone.
LEMMA KeptSurvivesMove ==
  ASSUME Base, KeptInv, UNCHANGED <<builds, replies, offered>>, NEW h \in Handlers,
         UNCHANGED received \/ received' = received + 1,
         \A k \in Handlers \ {h} : /\ pc'[k] = pc[k] /\ req'[k] = req[k]
                                   /\ asked'[k] = asked[k] /\ got'[k] = got[k],
         SerialInv',
         req'[h].kind = "build" => req'[h] = req[h] \/ req'[h].serial = received + 1,
         pc'[h] = "serving" /\ req'[h].kind = "build" =>
           \A x \in replies : x.id[1] # req'[h].serial,
         pc'[h] \in {"idle", "serving"} => got'[h] = <<>> /\ asked'[h] = 0,
         pc'[h] \in {"converting", "offering"} => Asking(h)'
  PROVE  KeptInv'
<1>1. ASSUME NEW k \in Handlers, k # h, Asking(k) PROVE Asking(k)'
  <2>1. ShapeOf(req[k])' = ShapeOf(req[k])
    BY <1>1 DEF ShapeOf
  <2>2. Steps(k)' = Steps(k)
    BY <2>1 DEF Steps
  <2> QED
    BY <1>1, <2>1, <2>2 DEF Asking
<1>2. AskedInv'
  BY <1>1 DEF KeptInv, AskedInv
<1>3. \A o \in offered : ShapeOf(o)' = ShapeOf(o)
  BY DEF ShapeOf
<1>4. ASSUME NEW o \in offered, NEW k \in Handlers, req'[k].kind = "build",
             req'[k].serial = o.serial
      PROVE  o.signal # "logs" /\ req'[k].build = o.build
  <2>1. o.serial \in Nat /\ o.serial <= received /\ received \in Nat
    BY DEF KeptInv, SerialInv, Base, HookInv, HookTypeOK
  <2>2. req'[k] = req[k]
    BY <1>4, <2>1
  <2> QED
    BY <1>4, <2>2 DEF KeptInv, OfferedInv
<1>5. OfferedInv'
  BY <1>3, <1>4 DEF KeptInv, OfferedInv
<1> QED
  BY <1>2, <1>5 DEF KeptInv
-------------------------------------------------------------------------------
LEMMA ReceiveKept ==
  ASSUME Base, KeptInv, UNCHANGED server, NEW h \in Handlers, NEW r \in Webhooks,
         Receive(h, r)
  PROVE  KeptInv'
<1>1. received \in Nat /\ received' = received + 1
  BY DEF Receive, Base, HookInv, HookTypeOK
<1>2. r.kind = "build" => r.serial = received + 1
  BY HookAssumption DEF Webhooks
<1>3. req'[h] = r /\ pc'[h] = "serving"
  BY DEF Receive, Base, HookInv, HookTypeOK
<1>4. \A k \in Handlers \ {h} : pc'[k] = pc[k] /\ req'[k] = req[k]
  BY DEF Receive, Base, HookInv, HookTypeOK
<1>5. UNCHANGED <<builds, replies, offered, asked, got>>
  BY DEF Receive, server
<1>6. \A k \in Handlers : req[k].kind = "build" => req[k].serial \in Nat /\ req[k].serial <= received
  BY RequestFields DEF Request, KeptInv, SerialInv
<1>7. SerialInv'
  <2>1. \A k \in Handlers : req'[k].kind = "build" => req'[k].serial <= received'
    BY <1>1, <1>2, <1>3, <1>4, <1>6
  <2>2. \A j, k \in Handlers :
          req'[j].kind = "build" /\ req'[k].kind = "build" /\ req'[j].serial = req'[k].serial
            => j = k
    <3> SUFFICES ASSUME NEW j \in Handlers, NEW k \in Handlers, req'[j].kind = "build",
                        req'[k].kind = "build", req'[j].serial = req'[k].serial
                 PROVE  j = k
      OBVIOUS
    <3>1. CASE j # h /\ k # h
      BY <1>4, <3>1 DEF KeptInv, SerialInv
    <3>2. CASE j = h /\ k # h
      BY <1>1, <1>2, <1>3, <1>4, <1>6, <3>2
    <3>3. CASE j # h /\ k = h
      BY <1>1, <1>2, <1>3, <1>4, <1>6, <3>3
    <3> QED
      BY <3>1, <3>2, <3>3
  <2>3. \A x \in replies : x.ok \in BOOLEAN /\ x.id[1] \in Nat /\ x.id[1] <= received'
    BY <1>1 DEF KeptInv, SerialInv
  <2>4. \A o \in offered : o.serial \in Nat /\ o.serial <= received'
    BY <1>1 DEF KeptInv, SerialInv
  <2> QED
    BY <1>5, <2>1, <2>2, <2>3, <2>4 DEF SerialInv
<1>8. req'[h].kind = "build" => \A x \in replies : x.id[1] # req'[h].serial
  BY <1>1, <1>2, <1>3 DEF KeptInv, SerialInv
<1>9. got'[h] = <<>> /\ asked'[h] = 0
  BY <1>5 DEF Receive, KeptInv, AskedInv
<1> QED
  BY <1>1, <1>2, <1>3, <1>4, <1>5, <1>7, <1>8, <1>9, KeptSurvivesMove

\* A handler that goes back to net/http leaves nothing behind.
LEMMA Leaving ==
  ASSUME Base, NEW h \in Handlers, Leave(h)
  PROVE  /\ pc'[h] = "idle" /\ req'[h] = Nothing /\ asked'[h] = 0 /\ got'[h] = <<>>
         /\ \A k \in Handlers \ {h} : /\ pc'[k] = pc[k] /\ req'[k] = req[k]
                                      /\ asked'[k] = asked[k] /\ got'[k] = got[k]
BY DEF Leave, Base, HookInv, HookTypeOK

LEMMA LeaveSerials ==
  ASSUME Base, KeptInv, NEW h \in Handlers, Leave(h), UNCHANGED <<replies, received>>,
         \A o \in offered' \ offered : o.serial \in Nat /\ o.serial <= received
  PROVE  SerialInv'
BY Leaving DEF KeptInv, SerialInv, Nothing

LEMMA LeaveKept ==
  ASSUME Base, KeptInv, UNCHANGED server, NEW h \in Handlers, Leave(h),
         UNCHANGED <<pipelines, replies, offered, received>>
  PROVE  KeptInv'
<1>1. SerialInv'
  BY LeaveSerials
<1>2. req'[h].kind # "build"
  BY Leaving DEF Nothing
<1> QED
  BY <1>1, <1>2, Leaving, KeptSurvivesMove DEF server

LEMMA ConvertKept ==
  ASSUME Base, KeptInv, UNCHANGED server, NEW h \in Handlers, Convert(h)
  PROVE  KeptInv'
<1>1. /\ pc[h] = "serving" /\ pc'[h] = "converting" /\ req[h].kind = "build"
      /\ UNCHANGED <<pipelines, req, asked, got, replies, offered, received, builds>>
      /\ \A k \in Handlers \ {h} : pc'[k] = pc[k]
  BY DEF Convert, Wanted, server, Base, HookInv, HookTypeOK
<1>2. got[h] = <<>> /\ asked[h] = 0 /\ \A x \in replies : x.id[1] # req[h].serial
  BY <1>1 DEF KeptInv, AskedInv
<1>3. Len(Steps(h)) \in Nat
  BY <1>1, RequestFields
<1>4. Steps(h)' = Steps(h) /\ ShapeOf(req[h])' = ShapeOf(req[h])
  BY <1>1 DEF Steps, ShapeOf
<1>5. Matches(replies, ShapeOf(req[h]), req[h], got[h])
  BY <1>2 DEF Matches, ToSet
<1>6. Asking(h)'
  BY <1>1, <1>2, <1>3, <1>4, <1>5 DEF Asking
<1>7. SerialInv'
  BY <1>1 DEF KeptInv, SerialInv
<1> QED
  BY <1>1, <1>6, <1>7, KeptSurvivesMove

LEMMA AskKept ==
  ASSUME Base, KeptInv, UNCHANGED server, NEW h \in Handlers, NEW ok \in BOOLEAN,
         AskLogs(h, ok)
  PROVE  KeptInv'
<1> DEFINE p == Steps(h)[asked[h] + 1]
           r == req[h]
           reply == Reply(r, p, ok)
<1>1. /\ pc[h] = "converting" /\ asked[h] < Len(Steps(h))
      /\ asked' = [asked EXCEPT ![h] = @ + 1]
      /\ got' = [got EXCEPT ![h] = IF ok THEN Append(@, StepLogs(r, p)) ELSE @]
      /\ replies' = replies \cup {reply}
      /\ UNCHANGED <<builds, pipelines, pc, req, offered, received>>
  BY DEF AskLogs, Reply, server
<1>2. r.kind = "build" /\ Asking(h) /\ asked[h] \in Nat
  BY <1>1 DEF Base, HookInv, HookTypeOK, KeptInv, AskedInv
<1>3. /\ r \in Request /\ Steps(h) \in Seq(Nat \X Nat) /\ Len(Steps(h)) \in Nat
      /\ ToSet(Steps(h)) = Unskipped(ShapeOf(r))
  BY <1>2, RequestFields
<1>4. p \in Unskipped(ShapeOf(r))
  <2>1. asked[h] + 1 \in DOMAIN Steps(h)
    BY <1>1, <1>2, <1>3, LenProperties
  <2> QED
    BY <1>3, <2>1 DEF ToSet
<1>5. /\ asked'[h] = asked[h] + 1
      /\ got'[h] = IF ok THEN Append(got[h], LogsOf(ShapeOf(r), r, p)) ELSE got[h]
  BY <1>1 DEF Base, HookInv, HookTypeOK, StepLogs, LogsOf
<1>6. \A k \in Handlers \ {h} : asked'[k] = asked[k] /\ got'[k] = got[k]
  BY <1>1 DEF Base, HookInv, HookTypeOK
<1>7. reply.ok = ok /\ reply.id = Id(r, p[1], p[2]) /\ reply.id[1] = r.serial
  BY DEF Reply, Id
<1>8. r.serial \in Nat /\ r.serial <= received
  BY <1>2, <1>3 DEF Request, KeptInv, SerialInv
<1>9. Steps(h)' = Steps(h) /\ ShapeOf(req[h])' = ShapeOf(req[h])
  BY <1>1 DEF Steps, ShapeOf
<1> HIDE DEF reply
<1>10. Asking(h)'
  <2>1. asked'[h] <= Len(Steps(h)) /\ pc'[h] # "offering"
    BY <1>1, <1>2, <1>3, <1>5
  <2>2. ASSUME NEW n \in 1 .. asked'[h] PROVE Asks(replies', r, Steps(h)[n])
    <3>1. CASE n \in 1 .. asked[h]
      <4>1. Asks(replies, r, Steps(h)[n])
        BY <1>2, <3>1 DEF Asking
      <4> QED
        BY <1>1, <4>1 DEF Asks
    <3>2. CASE n = asked[h] + 1
      BY <1>1, <3>2 DEF Asks, reply
    <3> QED
      BY <1>2, <1>5, <3>1, <3>2
  <2>3. Matches(replies', ShapeOf(r), r, got'[h])
    <3>1. PICK S : got[h] \in Seq(S)
      BY DEF Base, HookInv, GotInv
    <3>2. Matches(replies, ShapeOf(r), r, got[h])
      BY <1>2 DEF Asking
    <3>3. Matches(replies \cup {Reply(r, p, ok)}, ShapeOf(r), r,
                  IF ok THEN Append(got[h], LogsOf(ShapeOf(r), r, p)) ELSE got[h])
      <4> HIDE DEF p, r
      <4> QED
        BY <1>4, <3>1, <3>2, MatchesMore
    <3>4. replies' = replies \cup {Reply(r, p, ok)}
      BY <1>1 DEF reply
    <3> HIDE DEF p, r
    <3> QED
      BY <1>5, <3>3, <3>4, Zenon
  <2> QED
    BY <1>1, <1>9, <2>1, <2>2, <2>3 DEF Asking
<1>11. ASSUME NEW k \in Handlers, k # h, pc[k] \in {"converting", "offering"}
       PROVE  Asking(k)'
  <2>1. Asking(k) /\ req[k].kind = "build"
    BY <1>11 DEF KeptInv, AskedInv, Base, HookInv
  <2>2. req[k].serial # r.serial
    BY <1>2, <1>11, <2>1 DEF KeptInv, SerialInv
  <2>3. Steps(k)' = Steps(k) /\ ShapeOf(req[k])' = ShapeOf(req[k])
    BY <1>1 DEF Steps, ShapeOf
  <2>4. Matches(replies', ShapeOf(req[k]), req[k], got[k])
    <3>1. Matches(replies, ShapeOf(req[k]), req[k], got[k])
      BY <2>1 DEF Asking
    <3>2. \A x \in replies' \ replies : x.id[1] # req[k].serial
      BY <1>1, <1>7, <2>2
    <3> QED
      BY <1>1, <3>1, <3>2, MatchesStill
  <2>5. \A n \in 1 .. asked[k] : Asks(replies', req[k], Steps(k)[n])
    BY <1>1, <2>1 DEF Asking, Asks
  <2> QED
    BY <1>1, <1>6, <1>11, <2>1, <2>3, <2>4, <2>5 DEF Asking
<1>12. AskedInv'
  <2>1. ASSUME NEW k \in Handlers, pc[k] = "serving", req[k].kind = "build"
        PROVE  \A x \in replies' : x.id[1] # req[k].serial
    <3>1. k # h
      BY <1>1, <2>1
    <3>2. req[k].serial # r.serial
      BY <1>2, <2>1, <3>1 DEF KeptInv, SerialInv
    <3> QED
      BY <1>1, <1>7, <2>1, <3>2 DEF KeptInv, AskedInv
  <2>2. \A k \in Handlers : pc[k] \in {"idle", "serving"} => got'[k] = <<>> /\ asked'[k] = 0
    BY <1>1, <1>6 DEF KeptInv, AskedInv
  <2> QED
    BY <1>1, <1>10, <1>11, <2>1, <2>2 DEF AskedInv
<1>13. SerialInv'
  <2>1. \A x \in replies' : x.ok \in BOOLEAN /\ x.id[1] \in Nat /\ x.id[1] <= received
    BY <1>1, <1>7, <1>8 DEF KeptInv, SerialInv
  <2> QED
    BY <1>1, <2>1 DEF KeptInv, SerialInv
<1>14. OfferedInv'
  <2>1. ASSUME NEW o \in offered PROVE Kept(replies', ShapeOf(o), o)
    <3>1. Kept(replies, ShapeOf(o), o)
      BY DEF KeptInv, OfferedInv
    <3>2. ASSUME o.signal = "logs"
          PROVE  /\ \A q \in Unskipped(ShapeOf(o)) : Asks(replies', o, q)
                 /\ Matches(replies', ShapeOf(o), o, o.content)
      <4>1. o.serial # r.serial
        BY <1>2, <3>2 DEF KeptInv, OfferedInv
      <4>2. \A x \in replies' \ replies : x.id[1] # o.serial
        BY <1>1, <1>7, <4>1
      <4>3. Matches(replies', ShapeOf(o), o, o.content)
        BY <1>1, <3>1, <3>2, <4>2, MatchesStill DEF Kept
      <4> QED
        BY <1>1, <3>1, <3>2, <4>3 DEF Kept, Asks
    <3> QED
      BY <3>1, <3>2 DEF Kept
  <2>2. \A o \in offered : ShapeOf(o)' = ShapeOf(o)
    BY <1>1 DEF ShapeOf
  <2> QED
    BY <1>1, <2>1, <2>2 DEF KeptInv, OfferedInv
<1> QED
  BY <1>12, <1>13, <1>14 DEF KeptInv
-------------------------------------------------------------------------------
\* What is passed on tells whose it is.
LEMMA Offering ==
  ASSUME NEW signal, NEW h \in Handlers, NEW content, Offer(signal, h, content)
  PROVE  \E o : /\ o.signal = signal /\ o.serial = req[h].serial /\ o.build = req[h].build
                /\ o.content = content
                /\ offered \subseteq offered' /\ offered' \subseteq offered \cup {o}
<1> DEFINE o == [signal |-> signal, serial |-> req[h].serial, build |-> req[h].build,
                 status |-> req[h].status, content |-> content]
<1>1. offered \subseteq offered' /\ offered' \subseteq offered \cup {o}
  BY DEF Offer
<1> QED
  BY <1>1

\* A handler passes on what is as the invariant says.
LEMMA OfferKept ==
  ASSUME Base, KeptInv, NEW h \in Handlers, req[h].kind = "build",
         UNCHANGED <<builds, replies, received>>,
         NEW signal \in {"traces", "logs"}, NEW o,
         o.signal = signal, o.serial = req[h].serial, o.build = req[h].build,
         offered' \subseteq offered \cup {o},
         Kept(replies, ShapeOf(req[h]), o),
         \A k \in Handlers : req'[k].kind = "build" => req'[k] = req[k],
         signal = "logs" => req'[h].kind # "build"
  PROVE  OfferedInv' /\ (o.serial \in Nat /\ o.serial <= received)
<1>1. ShapeOf(req[h]) = ShapeOf(o)
  BY DEF ShapeOf
<1>2. \A x \in offered' : ShapeOf(x)' = ShapeOf(x)
  BY DEF ShapeOf
<1>3. \A x \in offered' : Kept(replies, ShapeOf(x), x)
  BY <1>1 DEF KeptInv, OfferedInv
<1>4. \A x \in offered : x.serial = o.serial => x.build = o.build
  BY DEF KeptInv, OfferedInv
<1>5. \A x, t \in offered' : t.serial = x.serial => t.build = x.build
  BY <1>4 DEF KeptInv, OfferedInv
<1>6. ASSUME NEW x \in offered', NEW k \in Handlers, req'[k].kind = "build",
             req'[k].serial = x.serial
      PROVE  x.signal # "logs" /\ req'[k].build = x.build
  <2>1. req'[k] = req[k]
    BY <1>6
  <2>2. CASE x \in offered
    BY <1>6, <2>1, <2>2 DEF KeptInv, OfferedInv
  <2>3. CASE x = o
    <3>1. k = h
      BY <1>6, <2>1, <2>3 DEF KeptInv, SerialInv
    <3> QED
      BY <1>6, <2>1, <2>3, <3>1
  <2> QED
    BY <2>2, <2>3
<1>7. o.serial \in Nat /\ o.serial <= received
  BY RequestFields DEF Request, KeptInv, SerialInv
<1> QED
  BY <1>2, <1>3, <1>5, <1>6, <1>7 DEF OfferedInv

LEMMA TracesKept ==
  ASSUME Base, KeptInv, UNCHANGED server, NEW h \in Handlers, NEW ok \in BOOLEAN,
         OfferTraces(h, ok)
  PROVE  KeptInv'
<1>1. /\ pc[h] = "converting" /\ asked[h] = Len(Steps(h)) /\ pc'[h] = "offering"
      /\ Offer("traces", h, Spans(req[h]))
      /\ \A k \in Handlers \ {h} : pc'[k] = pc[k]
      /\ UNCHANGED <<builds, pipelines, req, asked, got, replies, received>>
  BY DEF OfferTraces, server, Base, HookInv, HookTypeOK
<1>2. req[h].kind = "build" /\ Asking(h)
  BY <1>1 DEF Base, HookInv, KeptInv, AskedInv
<1>3. PICK o : /\ o.signal = "traces" /\ o.serial = req[h].serial /\ o.build = req[h].build
               /\ o.content = Spans(req[h])
               /\ offered \subseteq offered' /\ offered' \subseteq offered \cup {o}
  BY <1>1, Offering
<1>4. Kept(replies, ShapeOf(req[h]), o)
  <2>1. ASSUME NEW p \in Unskipped(ShapeOf(req[h]))
        PROVE  \E span \in o.content : span.id = Id(o, p[1], p[2])
    <3>1. p \in ToSet(StepsOf(ShapeOf(req[h])))
      BY <1>2, RequestFields DEF Steps
    <3>2. StepSpan(req[h], p) \in o.content
      BY <1>3, <3>1 DEF Spans
    <3>3. StepSpan(req[h], p).id = Id(o, p[1], p[2])
      BY <1>3 DEF StepSpan, Id
    <3> QED
      BY <3>2, <3>3
  <2> QED
    BY <1>3, <2>1 DEF Kept
<1>5. OfferedInv' /\ o.serial \in Nat /\ o.serial <= received
  BY <1>1, <1>2, <1>3, <1>4, OfferKept
<1>6. SerialInv'
  BY <1>1, <1>3, <1>5 DEF KeptInv, SerialInv
<1>7. \A k \in Handlers : Steps(k)' = Steps(k) /\ ShapeOf(req[k])' = ShapeOf(req[k])
  BY <1>1 DEF Steps, ShapeOf
<1>8. AskedInv'
  <2>1. ASSUME NEW k \in Handlers, pc'[k] \in {"converting", "offering"} PROVE Asking(k)'
    <3>1. Asking(k) /\ (pc'[k] = "offering" => asked[k] = Len(Steps(k)))
      BY <1>1, <1>2, <2>1 DEF KeptInv, AskedInv, Asking
    <3> QED
      BY <1>1, <1>7, <3>1 DEF Asking
  <2> QED
    BY <1>1, <2>1 DEF KeptInv, AskedInv
<1> QED
  BY <1>5, <1>6, <1>8 DEF KeptInv

LEMMA LogsKept ==
  ASSUME Base, KeptInv, UNCHANGED server, NEW h \in Handlers, OfferLogs(h)
  PROVE  KeptInv'
<1>1. /\ pc[h] = "offering" /\ Offer("logs", h, got[h]) /\ Leave(h)
      /\ UNCHANGED <<builds, pipelines, replies, received>>
  BY DEF OfferLogs, server
<1>2. req[h].kind = "build" /\ Asking(h) /\ asked[h] = Len(Steps(h))
  BY <1>1 DEF Base, HookInv, KeptInv, AskedInv, Asking
<1>3. PICK o : /\ o.signal = "logs" /\ o.serial = req[h].serial /\ o.build = req[h].build
               /\ o.content = got[h]
               /\ offered \subseteq offered' /\ offered' \subseteq offered \cup {o}
  BY <1>1, Offering
<1>4. Kept(replies, ShapeOf(req[h]), o)
  <2>1. \A p : Id(o, p[1], p[2]) = Id(req[h], p[1], p[2])
    BY <1>3 DEF Id
  <2>2. ASSUME NEW p \in Unskipped(ShapeOf(req[h])) PROVE Asks(replies, o, p)
    <3>1. p \in ToSet(Steps(h)) /\ Steps(h) \in Seq(Nat \X Nat) /\ Len(Steps(h)) \in Nat
      BY <1>2, RequestFields
    <3>2. PICK n \in 1 .. asked[h] : p = Steps(h)[n]
      BY <1>2, <3>1, LenProperties DEF ToSet
    <3>3. Asks(replies, req[h], p)
      BY <1>2, <3>2 DEF Asking
    <3> QED
      BY <2>1, <3>3 DEF Asks, Reply
  <2>3. Matches(replies, ShapeOf(req[h]), o, o.content)
    <3>1. Matches(replies, ShapeOf(req[h]), req[h], got[h])
      BY <1>2 DEF Asking
    <3> QED
      BY <1>3, <2>1, <3>1 DEF Matches, LogsOf, Reply
  <2> QED
    BY <1>3, <2>2, <2>3 DEF Kept
<1>5. req'[h].kind # "build" /\ \A k \in Handlers : req'[k].kind = "build" => req'[k] = req[k]
  BY <1>1, Leaving DEF Nothing
<1>6. OfferedInv' /\ o.serial \in Nat /\ o.serial <= received
  BY <1>1, <1>2, <1>3, <1>4, <1>5, OfferKept
<1>7. SerialInv'
  BY <1>1, <1>3, <1>6, LeaveSerials
<1>8. \A k \in Handlers \ {h} : Asking(k) => Asking(k)'
  <2> SUFFICES ASSUME NEW k \in Handlers, k # h, Asking(k) PROVE Asking(k)'
    OBVIOUS
  <2>1. pc'[k] = pc[k] /\ req'[k] = req[k] /\ asked'[k] = asked[k] /\ got'[k] = got[k]
    BY <1>1, Leaving
  <2>2. ShapeOf(req[k])' = ShapeOf(req[k])
    BY <1>1, <2>1 DEF ShapeOf
  <2>3. Steps(k)' = Steps(k)
    BY <2>2 DEF Steps
  <2> QED
    BY <1>1, <2>1, <2>2, <2>3 DEF Asking
<1>9. AskedInv'
  BY <1>1, <1>8, Leaving DEF KeptInv, AskedInv
<1> QED
  BY <1>6, <1>7, <1>9 DEF KeptInv

LEMMA KeptStep == Base /\ KeptInv /\ [Next]_vars => KeptInv'
<1> SUFFICES ASSUME Base, KeptInv, [Next]_vars PROVE KeptInv'
  OBVIOUS
<1>1. CASE Drone
  BY <1>1, TableGrows, KeptSurvivesGrowth DEF Drone, Base
<1>2. CASE Scraper \/ UNCHANGED vars
  BY <1>2, KeptSurvivesGrowth DEF Scraper, vars, server
<1>3. CASE Handler
  <2>1. UNCHANGED server
    BY <1>3 DEF Handler
  <2>2. PICK h \in Handlers :
          \/ \E r \in Webhooks : Receive(h, r)
          \/ HandlerStep(h)
          \/ \E ok \in BOOLEAN : AskLogs(h, ok)
    BY <1>3 DEF Handler, HookNext
  <2>3. CASE Reject(h) \/ PanicWithoutRepo(h) \/ Ignore(h)
    BY <2>1, <2>3, LeaveKept DEF Reject, PanicWithoutRepo, Ignore
  <2> QED
    BY <2>1, <2>2, <2>3, ReceiveKept, ConvertKept, AskKept, TracesKept, LogsKept DEF HandlerStep
<1> QED
  BY <1>1, <1>2, <1>3 DEF Next

LEMMA KeptAlways == Spec => [](Base /\ KeptInv)
<1>1. Init => KeptInv
  BY DEF Init, HookInit, KeptInv, SerialInv, AskedInv, OfferedInv, Nothing
<1> QED
  BY <1>1, BaseStarts, BaseStep, KeptStep, PTL DEF Spec

\* Logs are passed on with a span each, unless Drone refused just these, and no others
\* (the loops of handleEvent).
THEOREM LogsArePassedOn == Spec => []StepLogsKept
<1>1. Base /\ KeptInv => StepLogsKept
  <2> SUFFICES ASSUME Base, KeptInv, NEW o \in offered, o.signal = "logs"
               PROVE  LET ids == {Id(o, p[1], p[2]) : p \in Unskipped(ShapeOf(o))}
                          answered == {r.id : r \in {x \in replies : x.ok}}
                          refused  == {r.id : r \in {x \in replies : ~x.ok}}
                          logged   == {l.span : l \in ToSet(o.content)}
                      IN  /\ ids \subseteq answered \cup refused
                          /\ logged = ids \cap answered
                          /\ \A t \in offered : t.signal = "traces" /\ t.serial = o.serial =>
                               ids \subseteq {span.id : span \in t.content}
    BY DEF StepLogsKept
  <2> DEFINE ids == {Id(o, p[1], p[2]) : p \in Unskipped(ShapeOf(o))}
             answered == {r.id : r \in {x \in replies : x.ok}}
             refused  == {r.id : r \in {x \in replies : ~x.ok}}
             logged   == {l.span : l \in ToSet(o.content)}
  <2>1. (\A p \in Unskipped(ShapeOf(o)) : Asks(replies, o, p))
          /\ Matches(replies, ShapeOf(o), o, o.content)
    BY DEF KeptInv, OfferedInv, Kept
  <2>2. ids \subseteq answered \cup refused
    <3> SUFFICES ASSUME NEW p \in Unskipped(ShapeOf(o))
                 PROVE  Id(o, p[1], p[2]) \in answered \cup refused
      OBVIOUS
    <3>1. PICK ok \in BOOLEAN : Reply(o, p, ok) \in replies
      BY <2>1 DEF Asks
    <3>2. Reply(o, p, ok).id = Id(o, p[1], p[2]) /\ Reply(o, p, ok).ok = ok
      BY DEF Reply
    <3> QED
      BY <3>1, <3>2
  <2>3. ASSUME NEW i \in logged PROVE i \in ids /\ i \in answered
    <3>1. PICK l \in ToSet(o.content) : i = l.span
      OBVIOUS
    <3>2. PICK p \in Unskipped(ShapeOf(o)) :
            l = LogsOf(ShapeOf(o), o, p) /\ Reply(o, p, TRUE) \in replies
      BY <2>1 DEF Matches
    <3>3. i = Id(o, p[1], p[2]) /\ Reply(o, p, TRUE).id = i /\ Reply(o, p, TRUE).ok
      BY <3>1, <3>2 DEF LogsOf, Reply
    <3> QED
      BY <3>2, <3>3
  <2>4. ASSUME NEW i \in ids, i \in answered PROVE i \in logged
    <3>1. PICK x \in replies : x.ok /\ x.id = i
      BY <2>4
    <3>2. i[1] = o.serial
      BY DEF Id
    <3> QED
      BY <2>1, <3>1, <3>2 DEF Matches
  <2>5. ASSUME NEW t \in offered, t.signal = "traces", t.serial = o.serial
        PROVE  ids \subseteq {span.id : span \in t.content}
    <3>1. t.build = o.build
      BY <2>5 DEF KeptInv, OfferedInv
    <3>2. ShapeOf(t) = ShapeOf(o) /\ \A p : Id(t, p[1], p[2]) = Id(o, p[1], p[2])
      BY <2>5, <3>1 DEF ShapeOf, Id
    <3>3. \A p \in Unskipped(ShapeOf(t)) : \E span \in t.content : span.id = Id(t, p[1], p[2])
      BY <2>5 DEF KeptInv, OfferedInv, Kept
    <3> QED
      BY <3>2, <3>3
  <2>6. logged = ids \cap answered
    <3> HIDE DEF logged, ids, answered
    <3> QED
      BY <2>3, <2>4
  <2> QED
    BY <2>2, <2>5, <2>6
<1> QED
  BY <1>1, KeptAlways, PTL
-------------------------------------------------------------------------------
\* Multiplication and division by the nanoseconds of a second.
LEMMA SecondsApart ==
  ASSUME NEW s \in Nat \ {0}, NEW a \in Nat, NEW b \in Nat, a < b
  PROVE  a * s + s <= b * s
<1>1. PICK c \in Nat : b = (a + 1) + c
  <2>1. b - (a + 1) \in Nat /\ b = (a + 1) + (b - (a + 1))
    OBVIOUS
  <2> QED
    BY <2>1
<1>2. b * s = (a + 1) * s + c * s
  BY <1>1
<1>3. (a + 1) * s = a * s + s
  OBVIOUS
<1>4. c * s \in Nat /\ a * s \in Nat
  OBVIOUS
<1> QED
  BY <1>2, <1>3, <1>4

LEMMA SecondOf ==
  ASSUME NEW s \in Nat \ {0}, NEW a \in Nat, NEW d \in Nat, d < s
  PROVE  (a * s + d) \div s = a
<1> DEFINE t == a * s + d
           q == t \div s
<1>1. t \in Nat /\ a * s \in Nat
  OBVIOUS
<1>2. q \in Nat /\ q * s <= t /\ t < q * s + s
  OBVIOUS
<1>3. ~ (a < q)
  <2> SUFFICES ASSUME a < q PROVE FALSE
    OBVIOUS
  <2>1. a * s + s <= q * s
    BY <1>2, SecondsApart
  <2> QED
    BY <1>1, <1>2, <2>1
<1>4. ~ (q < a)
  <2> SUFFICES ASSUME q < a PROVE FALSE
    OBVIOUS
  <2>1. q * s + s <= a * s
    BY <1>2, SecondsApart
  <2> QED
    BY <1>1, <1>2, <2>1
<1> QED
  BY <1>2, <1>3, <1>4

LEMMA DeltaCounts ==
  ASSUME NEW lines \in Seq(Nat)
  PROVE  /\ \A i \in 1 .. Len(lines) : Delta(lines)[i] \in Nat /\ Delta(lines)[i] <= i
         /\ \A i \in 2 .. Len(lines) : lines[i] = lines[i - 1] =>
              Delta(lines)[i] = Delta(lines)[i - 1] + 1
<1> DEFINE n == Len(lines)
           prev(i) == IF i = 1 THEN 0 ELSE lines[i - 1]
           step == [x \in (1 .. n) \X Nat |-> IF lines[x[1]] = prev(x[1]) THEN x[2] + 1 ELSE 0]
           IsDelta(d) == d = [i \in 0 .. n |-> IF i = 0 THEN 0
                               ELSE IF lines[i] = prev(i) THEN d[i - 1] + 1 ELSE 0]
           d == CHOOSE d : IsDelta(d)
<1>1. n \in Nat
  BY LenProperties
<1>2. \E g : IsDelta(g)
  <2>1. step \in [(1 .. n) \X Nat -> Nat]
    OBVIOUS
  <2>2. PICK g \in [0 .. n -> Nat] : Iterated(g, n, 0, step)
    <3> HIDE DEF step, n
    <3> QED
      BY <1>1, <2>1, Iterates
  <2>3. ASSUME NEW i \in 0 .. n
        PROVE  g[i] = IF i = 0 THEN 0 ELSE IF lines[i] = prev(i) THEN g[i - 1] + 1 ELSE 0
    <3>1. CASE i = 0
      BY <2>2, <3>1 DEF Iterated
    <3>2. CASE i # 0
      <4>1. i \in 1 .. n /\ i - 1 \in 0 .. n /\ <<i, g[i - 1]>> \in (1 .. n) \X Nat
        <5>1. i \in 1 .. n /\ i - 1 \in 0 .. n
          BY <1>1, <3>2
        <5>2. g[i - 1] \in Nat
          BY <2>2, <5>1
        <5> QED
          BY <5>1, <5>2
      <4>2. g[i] = step[<<i, g[i - 1]>>]
        BY <2>2, <4>1 DEF Iterated
      <4> QED
        BY <3>2, <4>1, <4>2
    <3> QED
      BY <3>1, <3>2
  <2>4. IsDelta(g)
    <3>1. g = [i \in 0 .. n |-> g[i]]
      BY <2>2
    <3> HIDE DEF n, prev
    <3> QED
      BY <2>3, <3>1
  <2> QED
    BY <2>4
<1>3. IsDelta(d)
  <2> HIDE DEF IsDelta
  <2> QED
    BY <1>2, Zenon
<1>4. Delta(lines) = d
  BY Zenon DEF Delta
<1> HIDE DEF d
<1>5. \A i \in 0 .. n : d[i] = IF i = 0 THEN 0 ELSE IF lines[i] = prev(i) THEN d[i - 1] + 1 ELSE 0
  <2> HIDE DEF n, prev
  <2> QED
    BY <1>3
<1> DEFINE N == {i \in Nat : i <= n => d[i] \in Nat /\ d[i] <= i}
<1>6. 0 \in N
  BY <1>1, <1>5
<1>7. ASSUME NEW i \in Nat, i \in N PROVE i + 1 \in N
  <2> SUFFICES ASSUME i + 1 <= n PROVE d[i + 1] \in Nat /\ d[i + 1] <= i + 1
    OBVIOUS
  <2>1. i + 1 \in 0 .. n /\ i + 1 # 0 /\ (i + 1) - 1 = i /\ i <= n
    BY <1>1
  <2>2. d[i + 1] = d[i] + 1 \/ d[i + 1] = 0
    BY <1>5, <2>1
  <2> HIDE DEF n
  <2> QED
    BY <1>7, <2>1, <2>2
<1>8. Nat \subseteq N
  <2> HIDE DEF N
  <2> QED
    BY <1>6, <1>7, Induct
<1>9. \A i \in 1 .. n : d[i] \in Nat /\ d[i] <= i
  BY <1>1, <1>8
<1>10. ASSUME NEW i \in 2 .. n, lines[i] = lines[i - 1] PROVE d[i] = d[i - 1] + 1
  <2>1. i \in 0 .. n /\ i # 0 /\ i # 1
    BY <1>1
  <2> QED
    BY <1>5, <1>10, <2>1
<1> QED
  BY <1>4, <1>9, <1>10

\* The times of lines that are in order and few enough are in order and in their seconds.
LEMMA StampsInOrder ==
  ASSUME NEW step \in Step, Len(step.lines) < Second,
         \A k \in 2 .. Len(step.lines) : step.lines[k - 1] <= step.lines[k]
  PROVE  /\ \A i \in DOMAIN Stamps(step) : Stamps(step)[i] \div Second = step.started + step.lines[i]
         /\ \A i \in 2 .. Len(Stamps(step)) : Stamps(step)[i - 1] < Stamps(step)[i]
<1> DEFINE lines == step.lines
           n == Len(lines)
           sec(i) == step.started + lines[i]
           delta(i) == Delta(lines)[i]
<1>1. lines \in Seq(Nat) /\ step.started \in Nat
  BY DEF Step
<1>2. n \in Nat /\ DOMAIN lines = 1 .. n /\ \A i \in 1 .. n : lines[i] \in Nat
  BY <1>1, LenProperties, ElementOfSeq
<1>3. Second \in Nat \ {0}
  BY HookAssumption
<1>4. DOMAIN Stamps(step) = 1 .. n /\ \A i \in 1 .. n : Stamps(step)[i] = sec(i) * Second + delta(i)
  BY <1>2 DEF Stamps
<1>5. Len(Stamps(step)) = n
  BY <1>2, <1>4
<1>6. \A i \in 1 .. n : sec(i) \in Nat /\ delta(i) \in Nat /\ delta(i) < Second
  <2>1. \A i \in 1 .. n : delta(i) \in Nat /\ delta(i) <= i
    BY <1>1, DeltaCounts
  <2> QED
    BY <1>1, <1>2, <1>3, <2>1
<1>7. \A i \in 2 .. n : lines[i] = lines[i - 1] => delta(i) = delta(i - 1) + 1
  BY <1>1, DeltaCounts
<1>8. \A i \in 2 .. n : lines[i - 1] <= lines[i]
  OBVIOUS
<1>9. ASSUME NEW i \in 1 .. n PROVE Stamps(step)[i] \div Second = sec(i)
  <2>1. (sec(i) * Second + delta(i)) \div Second = sec(i)
    <3> HIDE DEF sec, delta, n
    <3> QED
      BY <1>3, <1>6, SecondOf
  <2> HIDE DEF sec, delta, n
  <2> QED
    BY <1>4, <2>1
<1>10. ASSUME NEW i \in 2 .. n PROVE Stamps(step)[i - 1] < Stamps(step)[i]
  <2>1. i \in 1 .. n /\ i - 1 \in 1 .. n
    BY <1>2
  <2> DEFINE a == sec(i - 1)
             b == sec(i)
             c == delta(i - 1)
             e == delta(i)
  <2>2. a \in Nat /\ b \in Nat /\ c \in Nat /\ e \in Nat /\ c < Second /\ e < Second
    BY <1>6, <2>1
  <2>3. a < b \/ (a = b /\ e = c + 1)
    BY <1>1, <1>2, <1>7, <1>8, <2>1
  <2>4. Stamps(step)[i - 1] = a * Second + c /\ Stamps(step)[i] = b * Second + e
    BY <1>4, <2>1
  <2> HIDE DEF a, b, c, e
  <2>5. a * Second + c < b * Second + e
    <3>1. CASE a < b
      <4>1. a * Second + Second <= b * Second
        BY <1>3, <2>2, <3>1, SecondsApart
      <4> QED
        BY <1>3, <2>2, <4>1
    <3>2. CASE a = b /\ e = c + 1
      BY <1>3, <2>2, <3>2
    <3> QED
      BY <2>3, <3>1, <3>2
  <2> QED
    BY <2>4, <2>5
<1> QED
  BY <1>4, <1>5, <1>9, <1>10

\* No two lines of a step have one time (generateLogs), if Drone's lines are in order
\* and fewer than a second has nanoseconds.
THEOREM LinesKeepOrder == ASSUME LinesInTurn PROVE Spec => []LineTimes
<1>1. Base /\ KeptInv => LineTimes
  <2> SUFFICES ASSUME Base, KeptInv, NEW o \in offered, o.signal = "logs",
                      NEW l \in ToSet(o.content)
               PROVE  LET step == StepAt(ShapeOf(o), <<l.span[2], l.span[3]>>)
                      IN  /\ \A i \in DOMAIN l.stamps :
                               l.stamps[i] \div Second = step.started + step.lines[i]
                          /\ \A i \in 2 .. Len(l.stamps) : l.stamps[i - 1] < l.stamps[i]
    BY DEF LineTimes
  <2>1. PICK p \in Unskipped(ShapeOf(o)) : l = LogsOf(ShapeOf(o), o, p)
    BY DEF KeptInv, OfferedInv, Kept, Matches
  <2>2. PICK i \in DOMAIN ShapeOf(o).stages : \E j \in DOMAIN ShapeOf(o).stages[i].steps :
          p = <<i, j>>
    BY DEF Unskipped
  <2>3. PICK j \in DOMAIN ShapeOf(o).stages[i].steps : p = <<i, j>>
    BY <2>2
  <2> DEFINE step == StepAt(ShapeOf(o), <<i, j>>)
  <2>4. <<l.span[2], l.span[3]>> = <<i, j>> /\ l.stamps = Stamps(step)
    BY <2>1, <2>3 DEF LogsOf, Id
  <2>5. True(o) /\ ShapeOf(o) \in Shapes /\ ShapeOf(o) \in Shape
    <3>1. True(o)
      BY DEF Base, HookInv
    <3>2. builds[o.build] \in Row
      BY <3>1, ElementOfSeq, LenProperties DEF Base, ServerInv, True
    <3> QED
      BY <3>1, <3>2, ServerAssumption DEF Row, ShapeOf
  <2>6. step \in Step
    <3>1. ShapeOf(o).stages \in Seq(Stage)
      BY <2>5 DEF Shape
    <3>2. ShapeOf(o).stages[i] \in Stage
      BY <3>1, LenProperties, ElementOfSeq
    <3>3. ShapeOf(o).stages[i].steps \in Seq(Step)
      BY <3>2 DEF Stage
    <3>4. ShapeOf(o).stages[i].steps[j] \in Step
      BY <3>3, LenProperties, ElementOfSeq
    <3> QED
      BY <3>4 DEF StepAt
  <2>7. step = ShapeOf(o).stages[i].steps[j]
    BY DEF StepAt
  <2>8. Len(step.lines) < Second
          /\ \A k \in 2 .. Len(step.lines) : step.lines[k - 1] <= step.lines[k]
    BY <2>5, <2>7 DEF LinesInTurn
  <2> HIDE DEF step
  <2>9. /\ \A k \in DOMAIN Stamps(step) : Stamps(step)[k] \div Second = step.started + step.lines[k]
        /\ \A k \in 2 .. Len(Stamps(step)) : Stamps(step)[k - 1] < Stamps(step)[k]
    BY <2>6, <2>8, StampsInOrder
  <2> QED
    BY <2>4, <2>9 DEF step
<1> QED
  BY <1>1, KeptAlways, PTL
===============================================================================
