------------------------ MODULE ReceiverLifecycleProofs ------------------------
(***************************************************************************)
(* Proofs about ReceiverLifecycle: its type invariant, when the map knows  *)
(* the configuration, and that it implements OneService, for any set of    *)
(* signals and handlers.                                                   *)
(***************************************************************************)
EXTENDS ReceiverLifecycle, TLAPS

ServerAlive == serverGo \in {"spawned", "serving"}
TickAlive   == tickGo \in {"emitting", "selecting"}

\* The wait group counts the goroutines that are alive.
WgInv == wg = (IF ServerAlive THEN 1 ELSE 0) + (IF TickAlive THEN 1 ELSE 0)

\* What the onces have seen.
StartInv ==
  /\ startOnce <=> started # {}
  /\ starts = IF startOnce THEN 1 ELSE 0
  /\ ~startOnce => serverGo = "none" /\ tickGo = "none"

\* The phases of the collector, and the one call of the receiver's Shutdown.
PhaseInv ==
  /\ collector \in {"building", "aborted"} => started = {}
  /\ collector \in {"building", "aborted", "starting"} => stopped = {}
  /\ collector \notin {"building", "aborted"} => created # {}
  /\ collector = "aborted" => created = {}
  /\ stopOnce <=> stopped # {}
  /\ collector \in {"closing", "waiting"} => stopOnce /\ stops = 0
  /\ collector \notin {"closing", "waiting"} => stops = IF stopOnce THEN 1 ELSE 0
  /\ collector = "stopped" => stopped = created

\* Nothing is alive once Shutdown has returned.
StopInv == stops # 0 => wg = 0

IInv == TypeOK /\ WgInv /\ StartInv /\ PhaseInv /\ StopInv /\ RegisteredUntilStopped

USE DEF signals, onces, gos, counts

LEMMA Initially == Init => IInv
<1> SUFFICES ASSUME Init PROVE IInv
  OBVIOUS
<1> USE DEF Init
<1>1. TypeOK
  BY DEF TypeOK
<1>2. WgInv /\ StartInv /\ StopInv
  BY DEF WgInv, StartInv, StopInv, ServerAlive, TickAlive
<1>3. PhaseInv /\ RegisteredUntilStopped
  BY DEF PhaseInv, RegisteredUntilStopped
<1> QED
  BY <1>1, <1>2, <1>3 DEF IInv

\* The steps of the collector keep the invariant.
LEMMA CollectKeeps == IInv /\ Collect => IInv'
<1> SUFFICES ASSUME IInv, Collect PROVE IInv'
  OBVIOUS
<1> USE DEF IInv, TypeOK, WgInv, StartInv, PhaseInv, StopInv,
            RegisteredUntilStopped, ServerAlive, TickAlive
<1>1. CASE \E s \in Signals : Create(s)
  BY <1>1 DEF Create
<1>2. CASE CreateFails
  BY <1>2 DEF CreateFails
<1>3. CASE Proceed("building", "starting") \/ Proceed("starting", "stopping")
  BY <1>3 DEF Proceed
<1>4. CASE \E s \in Signals : Start(s)
  <2> PICK s \in Signals : Start(s)
    BY <1>4
  <2>1. CASE StartAgain
    BY <2>1 DEF Start, StartAgain, ReceiverStart, GoroutinesAdded
  <2>2. CASE ~StartAgain
    BY <2>2 DEF Start, StartAgain
  <2> QED
    BY <2>1, <2>2
<1> QED
  BY <1>1, <1>2, <1>3, <1>4 DEF Collect

\* So do those of its shutdown.
LEMMA StoppingKeeps == IInv /\ Stopping => IInv'
<1> SUFFICES ASSUME IInv, Stopping PROVE IInv'
  OBVIOUS
<1> USE DEF IInv, TypeOK, WgInv, StartInv, PhaseInv, StopInv,
            RegisteredUntilStopped, ServerAlive, TickAlive
<1>1. CASE \E s \in Signals : Shutdown(s)
  BY <1>1 DEF Shutdown
<1>2. CASE CloseServer
  BY <1>2 DEF CloseServer
<1>3. CASE WaitReturns
  <2> USE DEF WaitReturns, AllDone, Forgotten
  <2>1. wg = 0 /\ stops = 0 /\ stops' = 1 /\ stopOnce
    BY <1>3
  <2>2. TypeOK'
    <3>1. stops' \in Nat /\ collector' = "stopping"
      BY <1>3, <2>1
    <3>2. registered' \in BOOLEAN
      BY <1>3, Zenon
    <3>3. UNCHANGED <<signals, onces, server, cancelled, gos, handler, starts>>
      BY <1>3
    <3> QED
      BY <3>1, <3>2, <3>3
  <2>3. WgInv'
    BY <1>3, <2>1
  <2>4. StartInv'
    BY <1>3, <2>1
  <2>5. StopInv'
    BY <1>3, <2>1
  <2>6. PhaseInv' /\ RegisteredUntilStopped'
    BY <1>3, <2>1
  <2> QED
    BY <2>2, <2>3, <2>4, <2>5, <2>6
<1>4. CASE Finished
  BY <1>4 DEF Finished
<1> QED
  BY <1>1, <1>2, <1>3, <1>4 DEF Stopping

\* And those of the goroutines.
LEMMA GoroutinesKeep ==
  IInv /\ (\/ Listen \/ ServerReturns \/ EmitBuildInfo \/ Tick \/ TickerReturns
           \/ \E h \in Handlers : Accept(h) \/ Respond(h)) => IInv'
<1> USE DEF IInv, TypeOK, WgInv, StartInv, PhaseInv, StopInv,
            RegisteredUntilStopped, ServerAlive, TickAlive
<1>1. IInv /\ Listen => IInv'
  BY DEF Listen
<1>2. IInv /\ ServerReturns => IInv'
  BY DEF ServerReturns
<1>3. IInv /\ (EmitBuildInfo \/ Tick) => IInv'
  BY DEF EmitBuildInfo, Tick
<1>4. IInv /\ TickerReturns => IInv'
  BY DEF TickerReturns, TickDone
<1>5. IInv /\ (\E h \in Handlers : Accept(h) \/ Respond(h)) => IInv'
  BY DEF Accept, Respond
<1> QED
  BY <1>1, <1>2, <1>3, <1>4, <1>5

LEMMA StutterKeeps == IInv /\ UNCHANGED vars => IInv'
BY DEF vars, IInv, TypeOK, WgInv, StartInv, PhaseInv, StopInv,
       RegisteredUntilStopped, ServerAlive, TickAlive

\* The invariant is inductive.
LEMMA Inductive == Spec => []IInv
<1>1. IInv /\ [Next]_vars => IInv'
  BY CollectKeeps, StoppingKeeps, GoroutinesKeep, StutterKeeps DEF Next, Ended
<1> QED
  BY Initially, <1>1, PTL DEF Spec

\* TypeOK: among others the wait group never goes below zero, which would panic.
THEOREM TypeCorrect == Spec => []TypeOK
BY Inductive, PTL DEF IInv

\* RegisteredUntilStopped: SharedComponents forgets a receiver exactly when it was
\* stopped, so that there is never a second one beside it.
THEOREM RegisteredUntilStoppedAlways == Spec => []RegisteredUntilStopped
BY Inductive, PTL DEF IInv
-------------------------------------------------------------------------------
Busy == {serverGo, tickGo} \cap Alive # {}

\* The wait group tells whether some goroutine is alive.
LEMMA BusyIsWg == IInv => (Busy <=> wg # 0)
<1> SUFFICES ASSUME IInv PROVE Busy <=> wg # 0
  OBVIOUS
<1>1. Busy <=> ServerAlive \/ TickAlive
  BY DEF IInv, TypeOK, ServerAlive, TickAlive, Busy, Alive
<1>2. wg # 0 <=> ServerAlive \/ TickAlive
  BY DEF IInv, WgInv
<1> QED
  BY <1>1, <1>2

\* Every step is a step of OneService, or changes none of its variables.
LEMMA StepImplements == IInv /\ IInv' /\ [Next]_vars => [Service!Next]_Service!vars
<1> SUFFICES ASSUME IInv, IInv', [Next]_vars
             PROVE  [Service!Next]_Service!vars
  OBVIOUS
<1> DEFINE Still == starts' = starts /\ stops' = stops /\ Busy' = Busy
<1> USE DEF Service!Next, Service!vars, Service!Start, Service!Finish, Service!Stop
<1>0. Still => [Service!Next]_Service!vars
  BY DEF Busy
<1>1. CASE \E s \in Signals : Start(s)
  <2> PICK s \in Signals : Start(s)
    BY <1>1
  <2>1. CASE StartAgain
    <3>1. starts = 0 /\ stops = 0 /\ starts' = 1 /\ stops' = stops
      BY <2>1 DEF Start, StartAgain, ReceiverStart, IInv, TypeOK, StartInv, PhaseInv
    <3>2. Busy'
      BY <2>1 DEF Start, ReceiverStart, Busy, Alive
    <3> QED
      BY <3>1, <3>2 DEF Busy
  <2>2. CASE ~StartAgain
    BY <1>0, <2>2 DEF Start, Busy
  <2> QED
    BY <2>1, <2>2
<1>2. CASE WaitReturns
  <2>1. ~Busy /\ ~Busy'
    BY <1>2, BusyIsWg DEF WaitReturns, AllDone, Busy
  <2>2. stops = 0 /\ stops' = 1 /\ starts' = starts
    BY <1>2 DEF WaitReturns, IInv, PhaseInv
  <2> QED
    BY <2>1, <2>2 DEF Busy
<1>3. CASE ServerReturns \/ TickerReturns
  <2>1. Busy /\ stops = 0 /\ stops' = stops /\ starts' = starts
    <3>1. Busy
      BY <1>3 DEF ServerReturns, TickerReturns, Busy, Alive
    <3> QED
      BY <1>3, <3>1, BusyIsWg DEF ServerReturns, TickerReturns, IInv, StopInv
  <2>2. CASE Busy'
    BY <1>0, <2>1, <2>2
  <2>3. CASE ~Busy'
    BY <2>1, <2>3 DEF Busy
  <2> QED
    BY <2>2, <2>3
<1>4. CASE Listen \/ EmitBuildInfo \/ Tick
  BY <1>0, <1>4 DEF Listen, EmitBuildInfo, Tick, Busy, Alive
<1>5. CASE \/ \E s \in Signals : Create(s) \/ Shutdown(s)
           \/ CreateFails \/ CloseServer \/ Finished
           \/ Proceed("building", "starting") \/ Proceed("starting", "stopping")
           \/ \E h \in Handlers : Accept(h) \/ Respond(h)
  BY <1>0, <1>5 DEF Create, CreateFails, Proceed, Shutdown, CloseServer, Finished,
     Accept, Respond, Busy
<1>6. CASE UNCHANGED vars
  BY <1>0, <1>6 DEF vars, Busy
<1> QED
  BY <1>1, <1>2, <1>3, <1>4, <1>5, <1>6 DEF Next, Collect, Stopping, Ended

\* ServiceSpec: the receiver is started and stopped once, however many signals
\* share it, and nothing of it runs once Shutdown has returned.
THEOREM Implements == Spec => ServiceSpec
<1>1. Init => Service!Init
  BY DEF Init, Service!Init, Alive
<1> QED
  BY <1>1, Inductive, StepImplements, PTL DEF Spec, ServiceSpec, Service!Spec
===============================================================================
