--------------------------- MODULE ReceiverLifecycle ---------------------------
(***************************************************************************)
(* The life of one githubActionsReceiver: the collector creates it once    *)
(* per signal through SharedComponents.GetOrAdd, starts every signal,      *)
(* shuts every signal down; behind the shared component run the goroutine  *)
(* of the HTTP server, the build-info ticker and the HTTP handlers.        *)
(*                                                                         *)
(* The collector (external) calls one component at a time.  It gives up    *)
(* when a creation fails, and shuts everything down when any component of  *)
(* the pipeline fails to start.                                            *)
(***************************************************************************)
EXTENDS Naturals, FiniteSets

CONSTANTS
  Signals,   \* the signals the receiver is configured for
  Metrics,   \* the metrics signal
  Handlers   \* goroutines of net/http that serve requests

ASSUME SignalAssumption == Signals # {}

VARIABLES
  collector,                  \* what the collector is doing
  created, started, stopped,  \* the signals it has done that with
  registered,                 \* the configuration is a key of the map
  startOnce, stopOnce,        \* the sync.Onces of the shared component
  server,                     \* gar.server: nil, open or closed
  cancelled,                  \* tickCtx is done
  serverGo, tickGo,           \* the two goroutines of Start
  wg,                         \* gar.shutdownWG
  handler,                    \* the HTTP handlers
  starts, stops               \* calls of the receiver's Start and Shutdown

signals == <<created, started, stopped>>
onces   == <<startOnce, stopOnce>>
gos     == <<serverGo, tickGo, wg>>
counts  == <<starts, stops>>
vars == <<collector, signals, registered, onces, server, cancelled, gos, handler, counts>>

Init ==
  /\ collector = "building"
  /\ created = {} /\ started = {} /\ stopped = {}
  /\ registered = FALSE /\ startOnce = FALSE /\ stopOnce = FALSE
  /\ server = "nil" /\ cancelled = FALSE
  /\ serverGo = "none" /\ tickGo = "none" /\ wg = 0
  /\ handler = [h \in Handlers |-> "idle"]
  /\ starts = 0 /\ stops = 0
-------------------------------------------------------------------------------
\* new{Traces,Logs,Metrics}Receiver: GetOrAdd, and the consumer of the signal.
Create(s) ==
  /\ collector = "building" /\ s \notin created
  /\ created' = created \cup {s} /\ registered' = TRUE
  /\ UNCHANGED <<collector, started, stopped, onces, server, cancelled, gos, handler, counts>>

\* newReceiver fails inside GetOrAdd, which keeps the entry all the same.
CreateFails ==
  /\ collector = "building" /\ ~registered
  /\ registered' = TRUE /\ collector' = "aborted"
  /\ UNCHANGED <<signals, onces, server, cancelled, gos, handler, counts>>

\* The collector goes on to start, or to shut down, what it created.
Proceed(from, to) ==
  /\ collector = from /\ created # {}
  /\ collector' = to
  /\ UNCHANGED <<signals, registered, onces, server, cancelled, gos, handler, counts>>

\* Mutant of StartAgain: Start without startOnce.
StartEveryTime == TRUE

\* Whether SharedComponent.Start runs the function of startOnce.Do.
StartAgain == ~startOnce

\* Mutant of GoroutinesAdded: the ticker is not added to the wait group.
ServerAdded == 1

\* How many goroutines Start adds to shutdownWG.
GoroutinesAdded == IF Metrics \in created THEN 2 ELSE 1

\* githubActionsReceiver.Start.
ReceiverStart ==
  /\ server' = "open" /\ serverGo' = "spawned"
  /\ tickGo' = IF Metrics \in created THEN "emitting" ELSE tickGo
  /\ wg' = wg + GoroutinesAdded
  /\ starts' = starts + 1

Start(s) ==
  /\ collector = "starting" /\ s \in created \ started
  /\ started' = started \cup {s} /\ startOnce' = TRUE
  /\ IF StartAgain THEN ReceiverStart ELSE UNCHANGED <<server, gos, starts>>
  /\ UNCHANGED <<collector, created, stopped, registered, stopOnce, cancelled, handler, stops>>

\* SharedComponent.Shutdown, up to gar.cancel().
Shutdown(s) ==
  /\ collector = "stopping" /\ s \in created \ stopped
  /\ stopped' = stopped \cup {s} /\ stopOnce' = TRUE
  /\ IF stopOnce
       THEN UNCHANGED <<collector, cancelled>>
       ELSE collector' = "closing" /\ cancelled' = (tickGo # "none")
  /\ UNCHANGED <<created, started, registered, startOnce, server, gos, handler, counts>>

\* gar.server.Close().
CloseServer ==
  /\ collector = "closing"
  /\ server' = IF server = "open" THEN "closed" ELSE server
  /\ collector' = "waiting"
  /\ UNCHANGED <<signals, registered, onces, cancelled, gos, handler, counts>>

\* Mutant of AllDone: Shutdown does not wait.
DoneAnyway == TRUE

\* When gar.shutdownWG.Wait() returns.
AllDone == wg = 0

\* Mutant of Forgotten: Shutdown without removeFunc.
StillKnown == registered

\* Whether the configuration is a key of the map once removeFunc was called.
Forgotten == FALSE

\* Shutdown returns and the configuration leaves the map.
WaitReturns ==
  /\ collector = "waiting" /\ AllDone
  /\ registered' = Forgotten /\ stops' = stops + 1 /\ collector' = "stopping"
  /\ UNCHANGED <<signals, onces, server, cancelled, gos, handler, starts>>

\* All signals were shut down.
Finished ==
  /\ collector = "stopping" /\ stopped = created
  /\ collector' = "stopped"
  /\ UNCHANGED <<signals, registered, onces, server, cancelled, gos, handler, counts>>
-------------------------------------------------------------------------------
\* ListenAndServe gets its listener.
Listen ==
  /\ serverGo = "spawned" /\ server = "open"
  /\ serverGo' = "serving"
  /\ UNCHANGED <<collector, signals, registered, onces, server, cancelled, tickGo, wg, handler, counts>>

\* ListenAndServe returns: the address is in use, or the server was closed.
ServerReturns ==
  /\ \/ serverGo = "spawned"
     \/ serverGo = "serving" /\ server = "closed"
  /\ serverGo' = "exited" /\ wg' = wg - 1
  /\ UNCHANGED <<collector, signals, registered, onces, server, cancelled, tickGo, handler, counts>>

\* emitBuildInfo has returned.
EmitBuildInfo ==
  /\ tickGo = "emitting"
  /\ tickGo' = "selecting"
  /\ UNCHANGED <<collector, signals, registered, onces, server, cancelled, serverGo, wg, handler, counts>>

\* select: case <-ticker.C
Tick ==
  /\ tickGo = "selecting"
  /\ tickGo' = "emitting"
  /\ UNCHANGED <<collector, signals, registered, onces, server, cancelled, serverGo, wg, handler, counts>>

\* Mutant of TickDone: the loop watches no context.
NeverDone == FALSE

\* <-tickCtx.Done() can be received from.
TickDone == cancelled

\* select: case <-tickCtx.Done()
TickerReturns ==
  /\ tickGo = "selecting" /\ TickDone
  /\ tickGo' = "exited" /\ wg' = wg - 1
  /\ UNCHANGED <<collector, signals, registered, onces, server, cancelled, serverGo, handler, counts>>

\* A request comes in; server.Close does not wait for the handlers.
Accept(h) ==
  /\ serverGo = "serving" /\ server = "open" /\ handler[h] = "idle"
  /\ handler' = [handler EXCEPT ![h] = "serving"]
  /\ UNCHANGED <<collector, signals, registered, onces, server, cancelled, gos, counts>>

Respond(h) ==
  /\ handler[h] = "serving"
  /\ handler' = [handler EXCEPT ![h] = "idle"]
  /\ UNCHANGED <<collector, signals, registered, onces, server, cancelled, gos, counts>>
-------------------------------------------------------------------------------
Collect ==
  \/ \E s \in Signals : Create(s)
  \/ CreateFails
  \/ Proceed("building", "starting") \/ Proceed("starting", "stopping")
  \/ \E s \in Signals : Start(s)

\* What follows once the collector shuts down.
Stopping ==
  \/ \E s \in Signals : Shutdown(s)
  \/ CloseServer \/ WaitReturns \/ Finished

\* The process ends with the collector.
Ended == collector \in {"aborted", "stopped"} /\ UNCHANGED vars

Next ==
  \/ Collect \/ Stopping \/ Ended
  \/ Listen \/ ServerReturns
  \/ EmitBuildInfo \/ Tick \/ TickerReturns
  \/ \E h \in Handlers : Accept(h) \/ Respond(h)

Spec == Init /\ [][Next]_vars

\* Goroutines run; consumers return; select picks each ready case some time.  The
\* collector need not ever stop, and handlers need not ever return.
Fairness ==
  /\ WF_vars(Stopping) /\ WF_vars(ServerReturns) /\ WF_vars(EmitBuildInfo)
  /\ SF_vars(TickerReturns)

FairSpec == Spec /\ Fairness
-------------------------------------------------------------------------------
Alive == {"spawned", "serving", "emitting", "selecting"}

\* The variables keep their types.
TypeOK ==
  /\ collector \in {"building", "aborted", "starting", "stopping", "closing",
                    "waiting", "stopped"}
  /\ created \subseteq Signals /\ started \subseteq created /\ stopped \subseteq created
  /\ registered \in BOOLEAN /\ startOnce \in BOOLEAN /\ stopOnce \in BOOLEAN
  /\ server \in {"nil", "open", "closed"} /\ cancelled \in BOOLEAN
  /\ serverGo \in {"none", "spawned", "serving", "exited"}
  /\ tickGo \in {"none", "emitting", "selecting", "exited"}
  /\ wg \in Nat /\ starts \in Nat /\ stops \in Nat
  /\ handler \in [Handlers -> {"idle", "serving"}]

\* The shared component starts and stops the receiver once, and no goroutine of
\* the receiver is alive when its Shutdown returns or ever after.
Service == INSTANCE OneService WITH busy <- {serverGo, tickGo} \cap Alive # {}
ServiceSpec == Service!Spec

\* Whatever requests are in flight, Shutdown returns and the collector stops.
ShutdownReturns == collector = "stopping" ~> collector = "stopped"

\* The map forgets the configuration of a receiver that was stopped, and of no
\* other: the factory hands out one receiver per configuration until then.
RegisteredUntilStopped ==
  /\ created # {} => (registered <=> stops = 0)
  /\ collector = "stopped" => stops = 1
===============================================================================
