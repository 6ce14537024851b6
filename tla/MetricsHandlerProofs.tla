------------------------- MODULE MetricsHandlerProofs -------------------------
(***************************************************************************)
(* Theorems about MetricsHandler, for any number of handlers, any events,  *)
(* groups, statuses, conclusions, and any cache size: exact counters,      *)
(* private emissions, the order of samples, who panics, and when counters  *)
(* arrive in their order.                                                  *)
(***************************************************************************)
EXTENDS MetricsHandler, TLAPS

\* The mutex: its holder, and nobody else, is between Lock and Unlock.
LockInv == \A p \in Procs : pc[p] \in Section <=> mu = p

\* A goroutine inside the section works on an event of its branch, and what it
\* loaded from the counters cache is still there when it stores.
LoadInv ==
  \A p \in Procs :
    /\ pc[p] = "build_info" => ev[p].kind = "info"
    /\ pc[p] \in {"load", "store"} => ev[p] \in Events /\ Counted(ev[p])
    /\ pc[p] = "store" =>
         /\ cur[p].found <=> CellOf(ev[p]) \in DOMAIN counters
         /\ cur[p].val = IF cur[p].found THEN counters[CellOf(ev[p])] ELSE 0

\* A group no cell of which was evicted is cached as a whole or not at all.
CounterInv ==
  \A g \in Groups : CellsOf(g) \cap lost = {} =>
    \/ \A c \in CellsOf(g) :
         /\ c \notin DOMAIN counters
         /\ seen["job"][c] = 0 /\ seen["run"][c] = 0
    \/ \A c \in CellsOf(g) :
         /\ c \in DOMAIN counters
         /\ counters[c] = seen["job"][c] + seen["run"][c]

IInv == TypeOK /\ LockInv /\ LoadInv /\ CounterInv
-------------------------------------------------------------------------------
\* An event that is counted is counted under one of the cells of its group.
LEMMA CellOfCells ==
  ASSUME NEW e \in Events, Counted(e)
  PROVE  /\ CellOf(e) \in Cells /\ CellOf(e) \in CellsOf(e.group)
         /\ e.kind \in Kinds /\ e.group \in Groups
         /\ CellsOf(e.group) \subseteq Cells
<1>1. e.kind \in Kinds /\ e.group \in Groups
  BY HandlerAssumption DEF Groups, Kinds
<1>2. StatusOf(e) \in Statuses
  BY HandlerAssumption DEF StatusOf, Counted
<1>3. ConclusionOf(e) \in Conclusions
  BY HandlerAssumption DEF ConclusionOf
<1> QED
  BY <1>1, <1>2, <1>3 DEF CellOf, Cells, CellsOf

\* The cells of two groups are disjoint.
LEMMA CellsOfDisjoint ==
  ASSUME NEW g \in Groups, NEW h \in Groups, NEW c \in CellsOf(g), c \in CellsOf(h)
  PROVE  g = h
  BY DEF CellsOf

LEMMA InfoIsNoEvent == InfoEvent.kind = "info" /\ InfoEvent \notin Events
  BY HandlerAssumption DEF InfoEvent, Kinds
-------------------------------------------------------------------------------
LEMMA InitIInv == Init => IInv
<1> SUFFICES ASSUME Init PROVE IInv
  OBVIOUS
<1>1. TypeOK
  BY DEF Init, TypeOK, NoCur, Section, Procs
<1>2. LockInv
  BY HandlerAssumption DEF Init, LockInv, Section
<1>3. LoadInv
  BY DEF Init, LoadInv
<1>4. CounterInv
  BY DEF Init, CounterInv, Cells, CellsOf, Groups, Kinds
<1> QED
  BY <1>1, <1>2, <1>3, <1>4 DEF IInv

LEMMA ReceiveIInv ==
  ASSUME IInv, NEW h \in Handlers, NEW e \in Events, Receive(h, e)
  PROVE  IInv'
<1> USE DEF IInv
<1>1. h \in Procs BY DEF Procs
<1>2. TypeOK' BY <1>1 DEF TypeOK, Receive, caches, history
<1>3. LockInv' BY <1>1 DEF LockInv, TypeOK, Receive, Section
<1>4. LoadInv' BY <1>1 DEF LoadInv, TypeOK, Receive, caches
<1>5. CounterInv' BY DEF CounterInv, Receive, caches, history
<1> QED BY <1>2, <1>3, <1>4, <1>5

LEMMA TickIInv ==
  ASSUME IInv, Tick
  PROVE  IInv'
<1> USE DEF IInv
<1>1. Ticker \in Procs BY DEF Procs
<1>2. TypeOK' BY <1>1 DEF TypeOK, Tick, caches, history
<1>3. LockInv' BY <1>1 DEF LockInv, TypeOK, Tick, Section
<1>4. LoadInv' BY <1>1 DEF LoadInv, TypeOK, Tick, caches
<1>5. CounterInv' BY DEF CounterInv, Tick, caches, history
<1> QED BY <1>2, <1>3, <1>4, <1>5

LEMMA LockIInv ==
  ASSUME IInv, NEW p \in Procs, Lock(p)
  PROVE  IInv'
<1> USE DEF IInv
<1>1. AfterLock(ev[p]) \in Section BY DEF AfterLock, Section
<1>2. TypeOK' BY <1>1 DEF TypeOK, Lock, caches, history, bounds
<1>3. LockInv'
  BY <1>1, HandlerAssumption DEF LockInv, TypeOK, Lock, LockFree
<1>4. LoadInv'
  <2>1. AfterLock(ev[p]) = "load" => ev[p] \in Events /\ Counted(ev[p])
    BY InfoIsNoEvent DEF AfterLock, TypeOK
  <2>2. AfterLock(ev[p]) # "store" /\ (AfterLock(ev[p]) = "build_info" => ev[p].kind = "info")
    BY DEF AfterLock
  <2> QED BY <2>1, <2>2 DEF LoadInv, TypeOK, Lock, caches
<1>5. CounterInv' BY DEF CounterInv, Lock, caches, history
<1> QED BY <1>2, <1>3, <1>4, <1>5

LEMMA LoadIInv ==
  ASSUME IInv, NEW p \in Procs, Load(p)
  PROVE  IInv'
<1> USE DEF IInv
<1>1. ev[p] \in Events /\ Counted(ev[p]) BY DEF LoadInv, Load
<1>2. CellOf(ev[p]) \in Cells BY <1>1, CellOfCells
<1>3. TypeOK' BY <1>2 DEF TypeOK, Load, history, bounds, Section
<1>4. LockInv' BY DEF LockInv, TypeOK, Load, Section
<1>5. LoadInv' BY <1>1 DEF LoadInv, TypeOK, Load
<1>6. CounterInv' BY DEF CounterInv, Load, history
<1> QED BY <1>3, <1>4, <1>5, <1>6

LEMMA StoreIInv ==
  ASSUME IInv, NEW p \in Procs, Store(p)
  PROVE  IInv'
<1> USE DEF IInv
<1> DEFINE e == ev[p]
           c == CellOf(e)
           S == DOMAIN Stores(p)
<1>1. e \in Events /\ Counted(e) BY DEF LoadInv, Store
<1>2. /\ c \in Cells /\ c \in CellsOf(e.group) /\ CellsOf(e.group) \subseteq Cells
      /\ e.kind \in Kinds /\ e.group \in Groups
  BY <1>1, CellOfCells
<1>3. S = IF cur[p].found THEN {c} ELSE CellsOf(e.group)
  BY <1>2 DEF Stores
<1>4. c \in S /\ S \subseteq CellsOf(e.group) BY <1>2, <1>3
<1>5. Stores(p) \in [S -> Nat] BY <1>3 DEF Stores, TypeOK
<1>6. PICK V : /\ counters' = [d \in (DOMAIN counters \cup S) \ V |->
                                  IF d \in S THEN Stores(p)[d] ELSE counters[d]]
               /\ lost' = lost \cup ((DOMAIN counters \cup S) \cap V)
  BY DEF Store
<1>7. DOMAIN counters' = (DOMAIN counters \cup S) \ V
  BY <1>6
<1>8. \A d \in DOMAIN counters' :
        counters'[d] = IF d \in S THEN Stores(p)[d] ELSE counters[d]
  BY <1>6
<1>9. /\ seen' = [seen EXCEPT ![e.kind][c] = @ + 1]
      /\ seen' \in [Kinds -> [Cells -> Nat]]
  BY <1>2 DEF Store, TypeOK
<1>10. TypeOK'
  <2>1. DOMAIN counters' \subseteq Cells
    BY <1>2, <1>4, <1>7 DEF TypeOK
  <2>2. counters' \in [DOMAIN counters' -> Nat]
    BY <1>5, <1>6 DEF TypeOK
  <2>3. lost' \subseteq Cells
    BY <1>2, <1>4, <1>6 DEF TypeOK
  <2> QED BY <2>1, <2>2, <2>3, <1>9 DEF TypeOK, Store, bounds, Section
<1>11. LockInv' BY DEF LockInv, TypeOK, Store, Section
<1>12. LoadInv'
  BY DEF LoadInv, LockInv, TypeOK, Store, Section
<1>13. CounterInv'
  <2> SUFFICES ASSUME NEW g \in Groups, CellsOf(g) \cap lost' = {}
               PROVE  \/ \A d \in CellsOf(g) :
                            /\ d \notin DOMAIN counters'
                            /\ seen'["job"][d] = 0 /\ seen'["run"][d] = 0
                      \/ \A d \in CellsOf(g) :
                            /\ d \in DOMAIN counters'
                            /\ counters'[d] = seen'["job"][d] + seen'["run"][d]
    BY DEF CounterInv
  <2>1. /\ CellsOf(g) \cap lost = {}
        /\ \A d \in CellsOf(g) : d \in DOMAIN counters \cup S => d \notin V
    BY <1>6
  <2>2. CellsOf(g) \subseteq Cells BY DEF CellsOf, Cells
  <2>3. CASE g # e.group
    <3>1. \A d \in CellsOf(g) : d \notin S /\ d # c
      BY <2>3, <1>2, <1>4, CellsOfDisjoint
    <3>2. \A d \in CellsOf(g) :
            /\ d \in DOMAIN counters' <=> d \in DOMAIN counters
            /\ d \in DOMAIN counters => counters'[d] = counters[d]
            /\ seen'["job"][d] = seen["job"][d] /\ seen'["run"][d] = seen["run"][d]
      BY <3>1, <2>1, <2>2, <1>2, <1>7, <1>8, <1>9 DEF TypeOK, Kinds
    <3> QED BY <3>2, <2>1 DEF CounterInv
  <2>4. CASE g = e.group /\ cur[p].found
    <3>1. c \in DOMAIN counters /\ cur[p].val = counters[c]
      BY <2>4 DEF LoadInv, Store
    <3>2. \A d \in CellsOf(g) :
            /\ d \in DOMAIN counters
            /\ counters[d] = seen["job"][d] + seen["run"][d]
      BY <3>1, <2>1, <2>4, <1>2 DEF CounterInv
    <3>3. S = {c} /\ Stores(p)[c] = counters[c] + 1
      BY <2>4, <3>1, <1>3, <1>4 DEF Stores
    <3>4. \A d \in CellsOf(g) :
            /\ d \in DOMAIN counters'
            /\ counters'[d] = IF d = c THEN counters[c] + 1 ELSE counters[d]
      BY <3>2, <3>3, <2>1, <1>7, <1>8
    <3>5. \A d \in CellsOf(g) :
            seen'["job"][d] + seen'["run"][d]
              = IF d = c THEN seen["job"][d] + seen["run"][d] + 1
                         ELSE seen["job"][d] + seen["run"][d]
      <4>1. CASE e.kind = "job" BY <4>1, <2>2, <1>2, <1>9 DEF TypeOK, Kinds
      <4>2. CASE e.kind = "run" BY <4>2, <2>2, <1>2, <1>9 DEF TypeOK, Kinds
      <4> QED BY <4>1, <4>2, <1>2 DEF Kinds
    <3> QED BY <3>2, <3>4, <3>5
  <2>5. CASE g = e.group /\ ~cur[p].found
    <3>1. c \notin DOMAIN counters /\ cur[p].val = 0
      BY <2>5 DEF LoadInv, Store
    <3>2. \A d \in CellsOf(g) : seen["job"][d] = 0 /\ seen["run"][d] = 0
      BY <3>1, <2>1, <2>5, <1>2 DEF CounterInv
    <3>3. S = CellsOf(g)
          /\ \A d \in CellsOf(g) : Stores(p)[d] = IF d = c THEN 1 ELSE 0
      BY <2>5, <3>1, <1>3 DEF Stores
    <3>4. \A d \in CellsOf(g) :
            d \in DOMAIN counters' /\ counters'[d] = IF d = c THEN 1 ELSE 0
      BY <3>3, <2>1, <1>7, <1>8
    <3>5. \A d \in CellsOf(g) :
            seen'["job"][d] + seen'["run"][d] = IF d = c THEN 1 ELSE 0
      BY <3>2, <2>2, <1>2, <1>9 DEF TypeOK, Kinds
    <3> QED BY <3>4, <3>5
  <2> QED BY <2>3, <2>4, <2>5
<1> QED BY <1>10, <1>11, <1>12, <1>13

LEMMA BuildInfoIInv ==
  ASSUME IInv, NEW p \in Procs, BuildInfo(p)
  PROVE  IInv'
<1> USE DEF IInv
<1>1. TypeOK' BY DEF TypeOK, BuildInfo, caches, history, bounds, Section
<1>2. LockInv' BY DEF LockInv, TypeOK, BuildInfo, Section
<1>3. LoadInv' BY DEF LoadInv, TypeOK, BuildInfo, caches
<1>4. CounterInv' BY DEF CounterInv, BuildInfo, caches, history
<1> QED BY <1>1, <1>2, <1>3, <1>4

\* Whatever the duration metric and the sweep do to the histograms, the counters
\* and their histories stay as they are.
LEMMA EmitFrame ==
  ASSUME NEW p \in Procs, Emit(p) \/ EmitPanics(p)
  PROVE  /\ pc[p] = "emit" /\ mu' = Nobody
         /\ \E where \in {"consume", "panicked"} : pc' = [pc EXCEPT ![p] = where]
         /\ UNCHANGED <<ev, stamp, cur, counters, recency, sink, seen, lost, bounds>>
  BY DEF Emit, EmitPanics, Unlocked, caches, history

LEMMA EmitIInv ==
  ASSUME IInv, NEW p \in Procs, Emit(p) \/ EmitPanics(p)
  PROVE  IInv'
<1> USE EmitFrame DEF IInv
<1>1. TypeOK' BY DEF TypeOK, bounds, Section
<1>2. LockInv' BY HandlerAssumption DEF LockInv, TypeOK, Section
<1>3. LoadInv' BY DEF LoadInv, TypeOK
<1>4. CounterInv' BY DEF CounterInv
<1> QED BY <1>1, <1>2, <1>3, <1>4

LEMMA ReturnIInv ==
  ASSUME IInv, NEW p \in Procs,
         Recover(p) \/ \E accepted \in BOOLEAN : Consume(p, accepted)
  PROVE  IInv'
<1> USE DEF IInv
<1>1. /\ pc[p] \in {"panicked", "consume"} /\ Return(p)
      /\ UNCHANGED <<mu, caches, history, bounds>>
  BY DEF Recover, Consume
<1>2. TypeOK' BY <1>1 DEF TypeOK, Return, NoCur, caches, history, bounds
<1>3. LockInv' BY <1>1 DEF LockInv, TypeOK, Return, Section
<1>4. LoadInv' BY <1>1 DEF LoadInv, TypeOK, Return, caches
<1>5. CounterInv' BY <1>1 DEF CounterInv, caches, history
<1> QED BY <1>2, <1>3, <1>4, <1>5

LEMMA AdvanceIInv ==
  ASSUME IInv, Advance
  PROVE  IInv'
<1> USE DEF IInv
<1>1. TypeOK' BY DEF TypeOK, Advance, locals, caches, history
<1>2. LockInv' BY DEF LockInv, Advance, locals
<1>3. LoadInv' BY DEF LoadInv, Advance, locals, caches
<1>4. CounterInv' BY DEF CounterInv, Advance, caches, history
<1> QED BY <1>1, <1>2, <1>3, <1>4

LEMMA StutterIInv ==
  ASSUME IInv, UNCHANGED vars
  PROVE  IInv'
BY DEF IInv, TypeOK, LockInv, LoadInv, CounterInv, vars, locals, caches, history, bounds

LEMMA NextIInv == IInv /\ [Next]_vars => IInv'
<1> SUFFICES ASSUME IInv, [Next]_vars PROVE IInv'
  OBVIOUS
<1>1. CASE Idle \/ UNCHANGED vars BY <1>1, StutterIInv DEF Idle
<1>2. ASSUME NEW h \in Handlers, NEW e \in Events, Receive(h, e) PROVE IInv'
  BY <1>2, ReceiveIInv
<1>3. CASE Tick BY <1>3, TickIInv
<1>4. CASE Advance BY <1>4, AdvanceIInv
<1>5. ASSUME NEW p \in Procs, Lock(p) PROVE IInv' BY <1>5, LockIInv
<1>6. ASSUME NEW p \in Procs, Work(p) PROVE IInv'
  BY <1>6, LoadIInv, StoreIInv, BuildInfoIInv, EmitIInv, ReturnIInv DEF Work
<1> QED BY <1>1, <1>2, <1>3, <1>4, <1>5, <1>6 DEF Next

LEMMA SpecIInv == Spec => []IInv
<1>1. Init => IInv BY InitIInv
<1>2. IInv /\ [Next]_vars => IInv' BY NextIInv
<1> QED BY <1>1, <1>2, PTL DEF Spec
-------------------------------------------------------------------------------
\* The variables the handlers share keep their types.
THEOREM TypeCorrect == Spec => []TypeOK
<1>1. IInv => TypeOK BY DEF IInv
<1> QED BY <1>1, SpecIInv, PTL

\* At most one goroutine is between m.mu.Lock and m.mu.Unlock.
THEOREM MutualExclusion ==
  Spec => [](\A p, q \in Procs : pc[p] \in Section /\ pc[q] \in Section => p = q)
<1>1. IInv => \A p, q \in Procs : pc[p] \in Section /\ pc[q] \in Section => p = q
  BY DEF IInv, LockInv
<1> QED BY <1>1, SpecIInv, PTL

\* No event is lost or counted twice, whatever handlers do at the same time: the
\* counters of a group are its numbers of events until one of them is evicted.
THEOREM CountersAreExact == Spec => []CountersExact
<1>1. IInv => CountersExact
  BY DEF IInv, CounterInv, CountersExact
<1> QED BY <1>1, SpecIInv, PTL
-------------------------------------------------------------------------------
\* The builder is empty unless the holder of the mutex has recorded its event in
\* it, and what was taken out of it is private to its goroutine.
BufferInv ==
  /\ (\A p \in Procs : pc[p] # "emit") => buffer = {}
  /\ \A p \in Procs : pc[p] = "emit" => OwnPoints(ev[p], stamp[p], buffer)

PrivateInv ==
  BufferInv /\ EmissionsArePrivate /\ DOMAIN out = Procs

\* An empty set of points is private to an event that is not counted, and to any
\* event when its metric is disabled.
LEMMA NoPoints ==
  ASSUME NEW e, NEW now, ~(e.kind \in Kinds \cap EnabledMetrics /\ Counted(e))
  PROVE  OwnPoints(e, now, {})
BY DEF OwnPoints

\* A duration data point does not count as a point of the event.
LEMMA DurationPoint ==
  ASSUME NEW e, NEW now, NEW points, NEW pt, pt.metric = "duration",
         OwnPoints(e, now, points)
  PROVE  OwnPoints(e, now, points \cup {pt})
<1>1. {q \in points \cup {pt} : q.metric # "duration"}
        = {q \in points : q.metric # "duration"}
  OBVIOUS
<1> QED BY <1>1 DEF OwnPoints

LEMMA StorePoints ==
  ASSUME TypeOK, LoadInv, NEW p \in Procs, pc[p] = "store"
  PROVE  OwnPoints(ev[p], stamp[p], Points(ev[p].kind, Stores(p), stamp[p]))
<1> DEFINE e == ev[p]
           S == DOMAIN Stores(p)
           P == Points(e.kind, Stores(p), stamp[p])
<1>1. e \in Events /\ Counted(e) BY DEF LoadInv
<1>2. CellOf(e) \in CellsOf(e.group) /\ e.kind \in Kinds
  BY <1>1, CellOfCells
<1>3. CellOf(e) \in S /\ S \subseteq CellsOf(e.group)
  BY <1>2 DEF Stores
<1>4. Stores(p)[CellOf(e)] = cur[p].val + 1 /\ cur[p].val \in Nat
  BY <1>3 DEF Stores, TypeOK
<1>5. CASE e.kind \notin EnabledMetrics
  <2>1. P = {} BY <1>5 DEF Points
  <2> QED BY <2>1, <1>5, NoPoints
<1>6. CASE e.kind \in EnabledMetrics
  <2>1. P = {[metric |-> e.kind, cell |-> c, val |-> Stores(p)[c], ts |-> stamp[p]] :
               c \in S}
    BY <1>6 DEF Points
  <2>2. \A pt \in P : /\ pt.metric = e.kind /\ pt.ts = stamp[p]
                       /\ pt.cell \in CellsOf(e.group)
    BY <2>1, <1>3
  <2>3. [metric |-> e.kind, cell |-> CellOf(e), val |-> Stores(p)[CellOf(e)],
         ts |-> stamp[p]] \in P
    BY <2>1, <1>3
  <2>4. \A pt \in P : pt.metric # "duration"
    BY <2>2, <1>2 DEF Kinds
  <2>5. \E pt \in P : pt.cell = CellOf(e) /\ pt.val > 0
    BY <2>3, <1>4
  <2> QED BY <2>2, <2>4, <2>5 DEF OwnPoints
<1> QED BY <1>5, <1>6

LEMMA InitPrivate == Init => PrivateInv
BY DEF Init, PrivateInv, BufferInv, EmissionsArePrivate

\* The steps of goroutine p that leave the builder alone: p is not in the part
\* of the section where the builder is in use, before or after.
LEMMA QuietPrivate ==
  ASSUME IInv, PrivateInv, NEW p \in Procs, pc[p] \notin {"emit"},
         NEW where, where \notin {"emit", "consume"}, pc' = [pc EXCEPT ![p] = where],
         \A q \in Procs \ {p} : ev'[q] = ev[q] /\ stamp'[q] = stamp[q] /\ out'[q] = out[q],
         DOMAIN out' = Procs, buffer' = buffer
  PROVE  PrivateInv'
<1>1. BufferInv'
  BY DEF PrivateInv, BufferInv, IInv, TypeOK
<1>2. EmissionsArePrivate'
  BY DEF PrivateInv, EmissionsArePrivate, IInv, TypeOK
<1> QED BY <1>1, <1>2 DEF PrivateInv

\* The steps of goroutine p that record its event.
LEMMA RecordPrivate ==
  ASSUME IInv, PrivateInv, NEW p \in Procs, pc[p] \in Section \ {"emit"},
         NEW points, OwnPoints(ev[p], stamp[p], points),
         pc' = [pc EXCEPT ![p] = "emit"], buffer' = buffer \cup points,
         UNCHANGED <<ev, stamp, out>>
  PROVE  PrivateInv'
<1>1. \A q \in Procs : pc[q] # "emit"
  BY DEF IInv, LockInv, Section
<1>2. buffer' = points
  BY <1>1 DEF PrivateInv, BufferInv
<1>3. BufferInv'
  BY <1>1, <1>2 DEF BufferInv, IInv, TypeOK
<1>4. EmissionsArePrivate'
  BY DEF PrivateInv, EmissionsArePrivate, IInv, TypeOK
<1> QED BY <1>3, <1>4 DEF PrivateInv

LEMMA EmitPrivate ==
  ASSUME IInv, PrivateInv, NEW p \in Procs, Emit(p)
  PROVE  PrivateInv'
<1>1. pc[p] = "emit" /\ buffer' = {} /\ pc' = [pc EXCEPT ![p] = "consume"]
      /\ UNCHANGED <<ev, stamp>>
  BY DEF Emit, MovedOut
<1>2. \A q \in Procs \ {p} : pc[q] # "emit"
  BY <1>1 DEF IInv, LockInv, Section
<1>3. BufferInv'
  BY <1>1, <1>2 DEF BufferInv, IInv, TypeOK
<1>4. OwnPoints(ev[p], stamp[p], buffer)
  BY <1>1 DEF PrivateInv, BufferInv
<1>5. \E points : /\ out' = [out EXCEPT ![p] = points]
                  /\ OwnPoints(ev[p], stamp[p], points)
  <2>1. CASE out' = [out EXCEPT ![p] = buffer]
    BY <2>1, <1>4
  <2>2. CASE Measure(p)
    <3>1. PICK pt : pt.metric = "duration" /\ out' = [out EXCEPT ![p] = buffer \cup {pt}]
      BY <2>2 DEF Measure
    <3> QED BY <3>1, <1>4, DurationPoint
  <2> QED BY <2>1, <2>2 DEF Emit, Sweep
<1>6. EmissionsArePrivate' /\ DOMAIN out' = Procs
  BY <1>1, <1>5 DEF PrivateInv, EmissionsArePrivate, IInv, TypeOK
<1> QED BY <1>3, <1>6 DEF PrivateInv

LEMMA LockPrivate ==
  ASSUME IInv, PrivateInv, NEW p \in Procs, Lock(p)
  PROVE  PrivateInv'
<1>1. /\ pc[p] = "waiting" /\ mu = Nobody /\ pc' = [pc EXCEPT ![p] = AfterLock(ev[p])]
      /\ UNCHANGED <<ev, out, buffer>>
      /\ \A q \in Procs \ {p} : stamp'[q] = stamp[q]
  BY DEF Lock, LockFree, IInv, TypeOK
<1>2. buffer = {}
  <2>1. \A q \in Procs : pc[q] # "emit"
    BY <1>1, HandlerAssumption DEF IInv, LockInv, Section
  <2> QED BY <2>1 DEF PrivateInv, BufferInv
<1>3. AfterLock(ev[p]) = "emit" => OwnPoints(ev[p], stamp'[p], {})
  <2>1. AfterLock(ev[p]) = "emit" => ~Counted(ev[p])
    BY DEF AfterLock
  <2> QED BY <2>1, NoPoints
<1>4. AfterLock(ev[p]) # "consume" BY DEF AfterLock
<1>5. BufferInv'
  BY <1>1, <1>2, <1>3 DEF PrivateInv, BufferInv, IInv, TypeOK
<1>6. EmissionsArePrivate'
  BY <1>1, <1>4 DEF PrivateInv, EmissionsArePrivate, IInv, TypeOK
<1> QED BY <1>1, <1>5, <1>6 DEF PrivateInv

LEMMA NextPrivate ==
  ASSUME IInv, PrivateInv, [Next]_vars
  PROVE  PrivateInv'
<1> DEFINE Same == UNCHANGED <<pc, ev, stamp, out, buffer>>
<1>1. ASSUME Same PROVE PrivateInv'
  BY <1>1 DEF PrivateInv, BufferInv, EmissionsArePrivate
<1>2. CASE Idle \/ Advance \/ UNCHANGED vars
  BY <1>1, <1>2 DEF Idle, Advance, vars, locals
<1>3. ASSUME NEW h \in Handlers, NEW e \in Events, Receive(h, e) PROVE PrivateInv'
  BY <1>3, QuietPrivate DEF Receive, PrivateInv, Procs, IInv, TypeOK
<1>4. CASE Tick
  BY <1>4, QuietPrivate DEF Tick, PrivateInv, Procs
<1>5. ASSUME NEW p \in Procs, Lock(p) PROVE PrivateInv'
  BY <1>5, LockPrivate
<1>6. ASSUME NEW p \in Procs, Load(p) PROVE PrivateInv'
  BY <1>6, QuietPrivate DEF Load, PrivateInv
<1>7. ASSUME NEW p \in Procs, Store(p) PROVE PrivateInv'
  BY <1>7, RecordPrivate, StorePoints DEF Store, Section, IInv
<1>8. ASSUME NEW p \in Procs, BuildInfo(p) PROVE PrivateInv'
  <2> DEFINE P == Points("info", [c \in {NoCell} |-> 1], stamp[p])
  <2>1. ev[p].kind = "info"
    BY <1>8 DEF IInv, LoadInv, BuildInfo
  <2>2. OwnPoints(ev[p], stamp[p], P)
    BY <2>1 DEF OwnPoints, Points, Kinds
  <2> QED BY <1>8, <2>2, RecordPrivate DEF BuildInfo, Section
<1>9. ASSUME NEW p \in Procs, Emit(p) PROVE PrivateInv'
  BY <1>9, EmitPrivate
<1>10. ASSUME NEW p \in Procs, EmitPanics(p) PROVE PrivateInv'
  <2>1. /\ pc[p] = "emit" /\ buffer = {} /\ pc' = [pc EXCEPT ![p] = "panicked"]
        /\ UNCHANGED <<ev, stamp, out, buffer>>
    BY <1>10 DEF EmitPanics, Panics
  <2> QED BY <2>1 DEF PrivateInv, BufferInv, EmissionsArePrivate, IInv, TypeOK
<1>11. ASSUME NEW p \in Procs, Recover(p) \/ \E a \in BOOLEAN : Consume(p, a)
       PROVE PrivateInv'
  <2>1. /\ pc[p] # "emit" /\ pc' = [pc EXCEPT ![p] = "idle"] /\ buffer' = buffer
        /\ \A q \in Procs \ {p} :
             ev'[q] = ev[q] /\ stamp'[q] = stamp[q] /\ out'[q] = out[q]
        /\ DOMAIN out' = Procs
    BY <1>11 DEF Recover, Consume, Return, PrivateInv, IInv, TypeOK
  <2> QED BY <2>1, QuietPrivate
<1> QED
  BY <1>2, <1>3, <1>4, <1>5, <1>6, <1>7, <1>8, <1>9, <1>10, <1>11 DEF Next, Work

\* What a handler or the ticker hands to the consumer holds the points of its own
\* event and nobody else's, although all share one metrics builder.
THEOREM EmissionsPrivate == Spec => []EmissionsArePrivate
<1>1. Init => PrivateInv BY InitPrivate
<1>2. IInv /\ PrivateInv /\ [Next]_vars => PrivateInv' BY NextPrivate
<1>3. PrivateInv => EmissionsArePrivate BY DEF PrivateInv
<1> QED BY <1>1, <1>2, <1>3, SpecIInv, PTL DEF Spec
-------------------------------------------------------------------------------
\* The order of samples.  A job is stamped under the mutex, so no sample there is yet
\* bears a later time, and its values are the numbers of all events counted so far,
\* which no sample there is exceeds.

\* The samples of job counters, in the builder, on their way and accepted.
JobPoints == {pt \in buffer \cup UNION Emissions : pt.metric = "job"}

\* No cell of the group of cell c was ever evicted.
Intact(c) == CellsOf(c[1]) \cap lost = {}

Total(c) == seen["job"][c] + seen["run"][c]

PointType == /\ \A pt \in JobPoints : pt.cell \in Cells /\ pt.val \in Nat /\ pt.ts \in Nat
             /\ sink \in Seq(Range(sink)) /\ DOMAIN out = Procs

\* A sample is not of the future, nor over what was counted.
PointsPast ==
  \A pt \in JobPoints : pt.ts <= clock /\ (Intact(pt.cell) => pt.val <= Total(pt.cell))

\* Whoever works on a job under the mutex has the latest time.
StampInv ==
  \A p \in Procs : pc[p] \in Section /\ ev[p].kind = "job" =>
    stamp[p] <= clock /\ \A pt \in JobPoints : pt.ts <= stamp[p]

PointsOrdered ==
  \A a, b \in JobPoints :
    a.cell = b.cell /\ Intact(a.cell) /\ a.ts < b.ts => a.val <= b.val

SampleInv == PointType /\ PointsPast /\ StampInv /\ PointsOrdered

\* Counted events stay counted, evicted cells evicted.
Onward ==
  /\ \A c \in Cells : Intact(c)' => Intact(c)
  /\ \A c \in Cells : /\ Total(c) \in Nat /\ Total(c)' \in Nat
                      /\ Total(c)' >= Total(c)
  /\ clock' \in Nat /\ clock' >= clock
-------------------------------------------------------------------------------
\* The sequence of accepted emissions grows by one.
LEMMA Appended ==
  ASSUME NEW s, s \in Seq(Range(s)), NEW x
  PROVE  LET t == Append(s, x) IN t \in Seq(Range(t)) /\ Range(t) = Range(s) \cup {x}
<1> DEFINE A == Range(s) \cup {x}
           t == Append(s, x)
<1>1. s \in [1 .. Len(s) -> Range(s)] /\ Len(s) \in Nat
  OBVIOUS
<1>2. s \in Seq(A)
  BY <1>1
<1>3. t \in Seq(A) /\ Len(t) = Len(s) + 1 /\ DOMAIN t = 1 .. Len(s) + 1
  BY <1>2
<1>4. (\A i \in 1 .. Len(s) : t[i] = s[i]) /\ t[Len(s) + 1] = x
  BY <1>2
<1>5. Range(t) = A
  <2>1. \A y \in Range(t) : y \in A
    BY <1>1, <1>3, <1>4 DEF Range
  <2>2. ASSUME NEW y \in Range(s) PROVE y \in Range(t)
    <3>1. PICK i \in 1 .. Len(s) : y = s[i]
      BY <1>1 DEF Range
    <3>2. i \in DOMAIN t /\ t[i] = y
      BY <1>1, <1>3, <1>4, <3>1
    <3> QED
      BY <3>2 DEF Range
  <2>3. x \in Range(t)
    <3>1. Len(s) + 1 \in DOMAIN t /\ t[Len(s) + 1] = x
      BY <1>1, <1>3, <1>4
    <3> QED
      BY <3>1 DEF Range
  <2> QED
    BY <2>1, <2>2, <2>3
<1> QED
  BY <1>3, <1>5

LEMMA NextOnward ==
  ASSUME IInv, [Next]_vars
  PROVE  Onward
<1>1. CASE UNCHANGED <<seen, lost>> /\ clock' \in {clock, clock + 1}
  <2>1. seen \in [Kinds -> [Cells -> Nat]] /\ clock \in Nat
    BY DEF IInv, TypeOK
  <2>2. \A c \in Cells : Total(c) \in Nat /\ Total(c)' = Total(c)
    BY <1>1, <2>1 DEF Total, Kinds
  <2>3. \A c \in Cells : Intact(c)' = Intact(c)
    BY <1>1 DEF Intact
  <2> QED
    BY <1>1, <2>1, <2>2, <2>3 DEF Onward
<1>2. ASSUME NEW p \in Procs, Store(p) PROVE Onward
  <2> DEFINE e == ev[p]
             c == CellOf(e)
  <2>1. e \in Events /\ Counted(e) /\ c \in Cells /\ e.kind \in Kinds
    BY <1>2, CellOfCells DEF IInv, LoadInv, Store
  <2>2. /\ seen' = [seen EXCEPT ![e.kind][c] = @ + 1] /\ clock' = clock /\ lost \subseteq lost'
        /\ seen \in [Kinds -> [Cells -> Nat]] /\ clock \in Nat
    BY <1>2 DEF Store, bounds, IInv, TypeOK
  <2>3. \A d \in Cells : Intact(d)' => Intact(d)
    BY <2>2 DEF Intact
  <2>4. ASSUME NEW d \in Cells
        PROVE  Total(d) \in Nat /\ Total(d)' \in Nat /\ Total(d)' >= Total(d)
    <3>1. CASE e.kind = "job"
      BY <3>1, <2>1, <2>2 DEF Total, Kinds
    <3>2. CASE e.kind = "run"
      BY <3>2, <2>1, <2>2 DEF Total, Kinds
    <3> QED
      BY <3>1, <3>2, <2>1 DEF Kinds
  <2> QED
    BY <2>2, <2>3, <2>4 DEF Onward
<1>3. ASSUME NEW p \in Procs,
             \/ Lock(p) \/ Load(p) \/ BuildInfo(p) \/ Emit(p) \/ EmitPanics(p) \/ Recover(p)
             \/ \E accepted \in BOOLEAN : Consume(p, accepted)
      PROVE  UNCHANGED <<seen, lost, clock>>
  BY <1>3 DEF Lock, Load, BuildInfo, Emit, EmitPanics, Recover, Consume, history, bounds
<1>4. CASE \E h \in Handlers, e \in Events : Receive(h, e)
  BY <1>4, <1>1 DEF Receive, history
<1>5. CASE Tick \/ Advance \/ Idle \/ UNCHANGED vars
  BY <1>5, <1>1 DEF Tick, Advance, Idle, vars, history, bounds
<1> QED
  BY <1>1, <1>2, <1>3, <1>4, <1>5 DEF Next, Work

\* A step that records no job sample and lets nobody on a job into the section.
LEMMA NothingRecorded ==
  ASSUME IInv, SampleInv, Onward, PointType', JobPoints' \subseteq JobPoints,
         \A p \in Procs : pc'[p] \in Section /\ ev'[p].kind = "job" =>
           pc[p] \in Section /\ ev[p].kind = "job" /\ stamp'[p] = stamp[p]
  PROVE  SampleInv'
<1>1. \A pt \in JobPoints : pt.cell \in Cells /\ pt.val \in Nat /\ pt.ts \in Nat
  BY DEF SampleInv, PointType
<1>2. PointsPast'
  <2> SUFFICES ASSUME NEW pt \in JobPoints'
               PROVE  pt.ts <= clock' /\ (Intact(pt.cell)' => pt.val <= Total(pt.cell)')
    BY DEF PointsPast
  <2>1. pt \in JobPoints /\ pt.cell \in Cells /\ pt.val \in Nat /\ pt.ts \in Nat
    BY <1>1
  <2>2. pt.ts <= clock /\ (Intact(pt.cell) => pt.val <= Total(pt.cell))
    BY <2>1 DEF SampleInv, PointsPast
  <2>3. /\ clock' >= clock /\ clock \in Nat /\ clock' \in Nat
        /\ Intact(pt.cell)' => Intact(pt.cell)
        /\ Total(pt.cell) \in Nat /\ Total(pt.cell)' \in Nat
        /\ Total(pt.cell)' >= Total(pt.cell)
    BY <2>1 DEF Onward, IInv, TypeOK
  <2> QED
    BY <2>1, <2>2, <2>3
<1>3. StampInv'
  <2> SUFFICES ASSUME NEW p \in Procs, pc'[p] \in Section, ev'[p].kind = "job"
               PROVE  stamp'[p] <= clock' /\ \A pt \in JobPoints' : pt.ts <= stamp'[p]
    BY DEF StampInv
  <2>1. pc[p] \in Section /\ ev[p].kind = "job" /\ stamp'[p] = stamp[p] /\ stamp[p] \in Nat
    BY DEF IInv, TypeOK
  <2>2. stamp[p] <= clock /\ \A pt \in JobPoints : pt.ts <= stamp[p]
    BY <2>1 DEF SampleInv, StampInv
  <2>3. clock' \in Nat /\ clock \in Nat /\ clock <= clock'
    BY DEF Onward, IInv, TypeOK
  <2> QED
    BY <2>1, <2>2, <2>3
<1>4. PointsOrdered'
  <2> SUFFICES ASSUME NEW a \in JobPoints', NEW b \in JobPoints',
                      a.cell = b.cell, Intact(a.cell)', a.ts < b.ts
               PROVE  a.val <= b.val
    BY DEF PointsOrdered
  <2>1. a \in JobPoints /\ b \in JobPoints /\ Intact(a.cell)
    BY <1>1 DEF Onward
  <2> QED
    BY <2>1 DEF SampleInv, PointsOrdered
<1> QED
  BY <1>2, <1>3, <1>4 DEF SampleInv

\* Where points go: from the builder to the locals, from there to the consumer.
LEMMA PointsPassOn ==
  ASSUME PointType, NEW p \in Procs, NEW X, out' = [out EXCEPT ![p] = X] \/ out' = out,
         \A pt \in X \cup buffer' : pt.metric = "job" => pt \in JobPoints,
         sink' = sink \/ sink' = Append(sink, out[p])
  PROVE  JobPoints' \subseteq JobPoints /\ PointType'
<1>1. DOMAIN out = Procs /\ DOMAIN out' = Procs /\ sink \in Seq(Range(sink))
  BY DEF PointType
<1>2. \A set \in Range(out') : set = X \/ set \in Range(out)
  BY <1>1 DEF Range
<1>3. sink' \in Seq(Range(sink')) /\ Range(sink') \subseteq Range(sink) \cup {out[p]}
  <2>1. CASE sink' = sink
    BY <2>1, <1>1
  <2>2. CASE sink' = Append(sink, out[p])
    BY <2>2, <1>1, Appended
  <2> QED
    BY <2>1, <2>2
<1>4. out[p] \in Range(out)
  BY <1>1 DEF Range
<1>5. JobPoints' \subseteq JobPoints
  <2> SUFFICES ASSUME NEW pt \in buffer' \cup UNION Emissions', pt.metric = "job"
               PROVE  pt \in JobPoints
    BY DEF JobPoints
  <2>1. CASE pt \in buffer'
    BY <2>1
  <2>2. ASSUME NEW set \in Emissions', pt \in set PROVE pt \in JobPoints
    <3>1. set = X \/ set \in Range(out) \cup Range(sink)
      BY <1>2, <1>3, <1>4 DEF Emissions
    <3> QED
      BY <2>2, <3>1 DEF JobPoints, Emissions
  <2> QED
    BY <2>1, <2>2
<1> QED
  BY <1>1, <1>3, <1>5 DEF PointType

\* All steps but Store pass points on at most.
LEMMA OnlyStoreRecords ==
  ASSUME PointType, [Next]_vars, \A p \in Procs : ~Store(p)
  PROVE  JobPoints' \subseteq JobPoints /\ PointType'
<1>1. ASSUME UNCHANGED <<out, sink, buffer>> PROVE JobPoints' \subseteq JobPoints /\ PointType'
  BY <1>1 DEF JobPoints, PointType, Emissions
<1>2. CASE Idle \/ Tick \/ Advance \/ UNCHANGED vars
  BY <1>1, <1>2 DEF Idle, Tick, Advance, vars, locals
<1>3. CASE \E h \in Handlers, e \in Events : Receive(h, e)
  BY <1>1, <1>3 DEF Receive
<1>4. ASSUME NEW p \in Procs, Lock(p) \/ Load(p) \/ EmitPanics(p)
      PROVE JobPoints' \subseteq JobPoints /\ PointType'
  BY <1>1, <1>4 DEF Lock, Load, EmitPanics, caches
<1>5. ASSUME NEW p \in Procs, BuildInfo(p)
      PROVE JobPoints' \subseteq JobPoints /\ PointType'
  <2>1. \A pt \in Points("info", [c \in {NoCell} |-> 1], stamp[p]) : pt.metric # "job"
    BY DEF Points
  <2>2. \A pt \in buffer' : pt.metric = "job" => pt \in JobPoints
    BY <1>5, <2>1 DEF BuildInfo, JobPoints
  <2>3. out' = out /\ sink' = sink
    BY <1>5 DEF BuildInfo
  <2> QED
    BY <2>2, <2>3, PointsPassOn, Zenon
<1>6. ASSUME NEW p \in Procs, Emit(p)
      PROVE JobPoints' \subseteq JobPoints /\ PointType'
  <2>1. buffer' = {} /\ sink' = sink
    BY <1>6 DEF Emit, MovedOut
  <2>2. \E X : /\ out' = [out EXCEPT ![p] = X]
               /\ \A pt \in X : pt.metric = "job" => pt \in buffer
    <3>1. CASE out' = [out EXCEPT ![p] = buffer]
      BY <3>1
    <3>2. CASE Measure(p)
      <4>1. PICK pt : pt.metric = "duration" /\ out' = [out EXCEPT ![p] = buffer \cup {pt}]
        BY <3>2 DEF Measure
      <4> QED
        BY <4>1
    <3> QED
      BY <1>6, <3>1, <3>2 DEF Emit, Sweep
  <2>3. PICK X : /\ out' = [out EXCEPT ![p] = X]
                 /\ \A pt \in X : pt.metric = "job" => pt \in buffer
    BY <2>2
  <2>4. \A pt \in X \cup buffer' : pt.metric = "job" => pt \in JobPoints
    BY <2>1, <2>3 DEF JobPoints
  <2> QED
    BY <2>1, <2>3, <2>4, PointsPassOn
<1>7. ASSUME NEW p \in Procs, Recover(p) \/ \E accepted \in BOOLEAN : Consume(p, accepted)
      PROVE JobPoints' \subseteq JobPoints /\ PointType'
  <2>1. /\ buffer' = buffer /\ out' = [out EXCEPT ![p] = {}]
        /\ sink' = sink \/ sink' = Append(sink, out[p])
    BY <1>7 DEF Recover, Consume, Return, caches
  <2>2. \A pt \in {} \cup buffer' : pt.metric = "job" => pt \in JobPoints
    BY <2>1 DEF JobPoints
  <2> QED
    BY <2>1, <2>2, PointsPassOn
<1> QED
  BY <1>2, <1>3, <1>4, <1>5, <1>6, <1>7 DEF Next, Work

\* Who is on a job in the section after a step was there before, with the same
\* time, unless the step is the lock.
LEMMA OnlyLockEnters ==
  ASSUME IInv, [Next]_vars, \A p \in Procs : ~Lock(p)
  PROVE  \A q \in Procs : pc'[q] \in Section /\ ev'[q].kind = "job" =>
           pc[q] \in Section /\ ev[q].kind = "job" /\ stamp'[q] = stamp[q]
<1> DEFINE Stays == \A q \in Procs : pc'[q] \in Section /\ ev'[q].kind = "job" =>
                      pc[q] \in Section /\ ev[q].kind = "job" /\ stamp'[q] = stamp[q]
<1> USE DEF IInv, TypeOK
<1>1. CASE Idle \/ Advance \/ UNCHANGED vars
  BY <1>1 DEF Idle, Advance, vars, locals
<1>2. CASE Tick
  BY <1>2 DEF Tick, Section
<1>3. ASSUME NEW h \in Handlers, NEW e \in Events, Receive(h, e) PROVE Stays
  BY <1>3 DEF Receive, Section, Procs
<1>4. ASSUME NEW p \in Procs, Load(p) \/ BuildInfo(p) \/ Store(p) \/ Emit(p) \/ EmitPanics(p)
      PROVE Stays
  BY <1>4 DEF Load, BuildInfo, Store, Emit, EmitPanics, Section
<1>5. ASSUME NEW p \in Procs, Recover(p) \/ \E accepted \in BOOLEAN : Consume(p, accepted)
      PROVE Stays
  BY <1>5 DEF Recover, Consume, Return, Section
<1> QED
  BY <1>1, <1>2, <1>3, <1>4, <1>5 DEF Next, Work

\* The lock: a job's handler takes the time there.
LEMMA LockSamples ==
  ASSUME IInv, SampleInv, Onward, NEW p \in Procs, Lock(p), JobPoints' \subseteq JobPoints, PointType'
  PROVE  SampleInv'
<1>1. /\ \A q \in Procs \ {p} : pc'[q] = pc[q] /\ stamp'[q] = stamp[q]
      /\ ev' = ev /\ clock' = clock
      /\ ev[p].kind = "job" => stamp'[p] = clock
      /\ UNCHANGED <<seen, lost>>
  BY DEF Lock, StampsLocked, IInv, TypeOK, bounds, history
<1>2. PointsPast' /\ PointsOrdered'
  BY <1>1 DEF SampleInv, PointsPast, PointsOrdered, Intact, Total
<1>3. StampInv'
  <2> SUFFICES ASSUME NEW q \in Procs, pc'[q] \in Section, ev'[q].kind = "job"
               PROVE  stamp'[q] <= clock' /\ \A pt \in JobPoints' : pt.ts <= stamp'[q]
    BY DEF StampInv
  <2>1. CASE q = p
    BY <1>1, <2>1 DEF SampleInv, PointsPast, IInv, TypeOK
  <2>2. CASE q # p
    BY <1>1, <2>2 DEF SampleInv, StampInv
  <2> QED
    BY <2>1, <2>2
<1> QED
  BY <1>2, <1>3 DEF SampleInv

\* The values an event is stored with are those of the counters afterwards.
LEMMA StoredValues ==
  ASSUME IInv, IInv', NEW p \in Procs, Store(p),
         NEW pt \in Points(ev[p].kind, Stores(p), stamp[p])
  PROVE  /\ pt.cell \in Cells /\ pt.val \in Nat /\ pt.metric = ev[p].kind /\ pt.ts = stamp[p]
         /\ Intact(pt.cell)' => pt.val = Total(pt.cell)'
<1> DEFINE e == ev[p]
           S == DOMAIN Stores(p)
<1>1. e \in Events /\ CellOf(e) \in CellsOf(e.group) /\ CellsOf(e.group) \subseteq Cells
  BY CellOfCells DEF IInv, LoadInv, Store
<1>2. S \subseteq CellsOf(e.group) /\ Stores(p) \in [S -> Nat]
  BY <1>1 DEF Stores, IInv, TypeOK
<1>3. /\ pt.metric = e.kind /\ pt.cell \in S
      /\ pt.val = Stores(p)[pt.cell] /\ pt.ts = stamp[p]
  BY DEF Points
<1>4. ASSUME Intact(pt.cell)' PROVE pt.val = Total(pt.cell)'
  <2>1. PICK V : /\ counters' = [d \in (DOMAIN counters \cup S) \ V |->
                                  IF d \in S THEN Stores(p)[d] ELSE counters[d]]
                 /\ lost' = lost \cup ((DOMAIN counters \cup S) \cap V)
    BY DEF Store
  <2>2. /\ pt.cell \in CellsOf(pt.cell[1]) /\ pt.cell[1] \in Groups
    BY <1>1, <1>2, <1>3 DEF Cells, CellsOf
  <2>3. pt.cell \notin lost'
    BY <1>4, <2>2 DEF Intact
  <2>4. pt.cell \in DOMAIN counters' /\ counters'[pt.cell] = Stores(p)[pt.cell]
    BY <1>3, <2>1, <2>3
  <2>5. counters'[pt.cell] = seen'["job"][pt.cell] + seen'["run"][pt.cell]
    BY <1>4, <2>2, <2>4 DEF IInv, CounterInv, Intact
  <2> QED
    BY <1>3, <2>4, <2>5 DEF Total
<1> QED
  BY <1>1, <1>2, <1>3, <1>4

\* A job is counted: its samples have the latest time and the values of all cells.
LEMMA StoreSamples ==
  ASSUME IInv, IInv', SampleInv, Onward, NEW p \in Procs, Store(p)
  PROVE  SampleInv'
<1> DEFINE e == ev[p]
           c == CellOf(e)
           S == DOMAIN Stores(p)
           New == Points(e.kind, Stores(p), stamp[p])
<1>1. /\ e \in Events /\ Counted(e) /\ pc[p] = "store"
      /\ c \in CellsOf(e.group) /\ CellsOf(e.group) \subseteq Cells
  BY CellOfCells DEF IInv, LoadInv, Store
<1>2. S \subseteq CellsOf(e.group) /\ S \subseteq Cells /\ Stores(p) \in [S -> Nat]
  BY <1>1 DEF Stores, IInv, TypeOK
<1>3. /\ buffer' = buffer \cup New /\ out' = out /\ sink' = sink /\ ev' = ev
      /\ stamp' = stamp /\ clock' = clock /\ pc' = [pc EXCEPT ![p] = "emit"]
  BY DEF Store, bounds
<1>4. \A pt \in New : /\ pt.metric = e.kind /\ pt.cell \in S
                      /\ pt.val = Stores(p)[pt.cell] /\ pt.ts = stamp[p]
  BY DEF Points
<1>5. PointType'
  <2>1. \A pt \in New : pt.cell \in Cells /\ pt.val \in Nat /\ pt.ts \in Nat
    BY <1>2, <1>4 DEF IInv, TypeOK
  <2>2. JobPoints' \subseteq JobPoints \cup New
    BY <1>3 DEF JobPoints, Emissions
  <2> QED
    BY <1>3, <2>1, <2>2 DEF SampleInv, PointType
<1>6. CASE e.kind # "job"
  <2>1. JobPoints' \subseteq JobPoints
    BY <1>3, <1>4, <1>6 DEF JobPoints, Emissions
  <2>2. \A q \in Procs : pc'[q] \in Section /\ ev'[q].kind = "job" =>
          pc[q] \in Section /\ ev[q].kind = "job" /\ stamp'[q] = stamp[q]
    BY <1>3, <1>1, <1>6 DEF IInv, TypeOK
  <2> QED
    BY <1>5, <2>1, <2>2, NothingRecorded
<1>7. CASE e.kind = "job"
  <2>1. JobPoints' = JobPoints \cup New
    BY <1>3, <1>4, <1>7 DEF JobPoints, Emissions
  <2>2. stamp[p] <= clock /\ stamp[p] \in Nat /\ \A pt \in JobPoints : pt.ts <= stamp[p]
    BY <1>1, <1>7 DEF SampleInv, StampInv, Section, IInv, TypeOK
  \* The values of the cells that are still cached.
  <2>3. \A pt \in New : Intact(pt.cell)' => pt.val = Total(pt.cell)'
    BY StoredValues
  <2>4. \A pt \in JobPoints : pt.cell \in Cells /\ pt.val \in Nat /\ pt.ts \in Nat
    BY DEF SampleInv, PointType
  <2>5. \A pt \in New : pt.cell \in Cells /\ pt.val \in Nat
    BY <1>2, <1>4
  <2>6. \A pt \in JobPoints : Intact(pt.cell)' => Intact(pt.cell) /\ pt.val <= Total(pt.cell)'
    <3> SUFFICES ASSUME NEW pt \in JobPoints, Intact(pt.cell)'
                 PROVE  Intact(pt.cell) /\ pt.val <= Total(pt.cell)'
      OBVIOUS
    <3>1. /\ Intact(pt.cell) /\ Total(pt.cell) \in Nat /\ Total(pt.cell)' \in Nat
          /\ Total(pt.cell) <= Total(pt.cell)'
      BY <2>4 DEF Onward
    <3>2. pt.val <= Total(pt.cell) /\ pt.val \in Nat
      BY <2>4, <3>1 DEF SampleInv, PointsPast
    <3> QED
      BY <3>1, <3>2
  <2>7. PointsPast'
    <3> SUFFICES ASSUME NEW pt \in JobPoints'
                 PROVE  pt.ts <= clock' /\ (Intact(pt.cell)' => pt.val <= Total(pt.cell)')
      BY DEF PointsPast
    <3>1. CASE pt \in JobPoints
      BY <3>1, <2>6, <1>3 DEF SampleInv, PointsPast
    <3>2. CASE pt \in New
      <4>1. pt.ts <= clock'
        BY <3>2, <1>3, <1>4, <2>2
      <4>2. ASSUME Intact(pt.cell)' PROVE pt.val <= Total(pt.cell)'
        BY <3>2, <4>2, <2>3, <2>5
      <4> QED
        BY <4>1, <4>2
    <3> QED
      BY <3>1, <3>2, <2>1
  <2>8. StampInv'
    <3> SUFFICES ASSUME NEW q \in Procs, pc'[q] \in Section, ev'[q].kind = "job"
                 PROVE  stamp'[q] <= clock' /\ \A pt \in JobPoints' : pt.ts <= stamp'[q]
      BY DEF StampInv
    <3>1. q = p
      BY <1>1, <1>3 DEF IInv, LockInv, TypeOK, Section
    <3> QED
      BY <3>1, <2>1, <2>2, <1>3, <1>4
  <2>9. PointsOrdered'
    <3> SUFFICES ASSUME NEW a \in JobPoints', NEW b \in JobPoints',
                        a.cell = b.cell, Intact(a.cell)', a.ts < b.ts
                 PROVE  a.val <= b.val
      BY DEF PointsOrdered
    <3>1. a \notin New
      <4>1. ASSUME a \in New PROVE b.ts <= stamp[p] /\ a.ts = stamp[p] /\ b.ts \in Nat
        BY <4>1, <2>1, <2>2, <2>4, <1>4
      <4> QED
        BY <4>1, <2>2
    <3>2. CASE b \in JobPoints
      BY <3>1, <3>2, <2>1, <2>6 DEF SampleInv, PointsOrdered
    <3>3. CASE b \in New
      BY <3>1, <3>3, <2>1, <2>3, <2>6
    <3> QED
      BY <3>2, <3>3, <2>1
  <2> QED
    BY <1>5, <2>7, <2>8, <2>9 DEF SampleInv
<1> QED
  BY <1>6, <1>7

LEMMA SampleStep == IInv /\ IInv' /\ SampleInv /\ [Next]_vars => SampleInv'
<1> SUFFICES ASSUME IInv, IInv', SampleInv, [Next]_vars PROVE SampleInv'
  OBVIOUS
<1>1. Onward
  BY NextOnward
<1>2. CASE \E p \in Procs : Store(p)
  BY <1>1, <1>2, StoreSamples
<1>3. CASE \A p \in Procs : ~Store(p)
  <2>1. JobPoints' \subseteq JobPoints /\ PointType'
    BY <1>3, OnlyStoreRecords DEF SampleInv
  <2>2. CASE \E p \in Procs : Lock(p)
    BY <1>1, <2>1, <2>2, LockSamples
  <2>3. CASE \A p \in Procs : ~Lock(p)
    BY <1>1, <2>1, <2>3, OnlyLockEnters, NothingRecorded
  <2> QED
    BY <2>2, <2>3
<1> QED
  BY <1>2, <1>3

\* A later sample of a job counter that was not evicted is never a smaller one,
\* however many handlers there are: workflowJobEventToMetrics reads the time under
\* the lock.
THEOREM JobSamplesInOrder == Spec => []JobSamplesOrdered
<1>1. Init => SampleInv
  <2> SUFFICES ASSUME Init PROVE SampleInv
    OBVIOUS
  <2>1. sink = <<>> /\ buffer = {} /\ (\A p \in Procs : out[p] = {}) /\ DOMAIN out = Procs
        /\ \A p \in Procs : pc[p] = "idle"
    BY DEF Init
  <2>2. Range(sink) = {} /\ sink \in Seq(Range(sink))
    BY <2>1 DEF Range
  <2>3. JobPoints = {}
    BY <2>1, <2>2 DEF JobPoints, Emissions, Range
  <2> QED
    BY <2>1, <2>2, <2>3 DEF SampleInv, PointType, PointsPast, StampInv, PointsOrdered, Section
<1>2. IInv /\ IInv' /\ SampleInv /\ [Next]_vars => SampleInv'
  BY SampleStep
<1>3. SampleInv => JobSamplesOrdered
  <2> SUFFICES ASSUME SampleInv, NEW A \in Emissions, NEW B \in Emissions, NEW a \in A, NEW b \in B,
                      a.metric = "job", b.metric = "job", a.cell = b.cell,
                      CellsOf(a.cell[1]) \cap lost = {}, a.ts < b.ts
               PROVE  a.val <= b.val
    BY DEF JobSamplesOrdered
  <2> QED
    BY DEF SampleInv, PointsOrdered, JobPoints, Intact
<1> QED
  BY <1>1, <1>2, <1>3, SpecIInv, PTL DEF Spec
-------------------------------------------------------------------------------
\* Crashes.  With an event of which nothing is recorded the builder stays empty.
EmptyInv == \A p \in Procs : pc[p] = "emit" /\ Unrecorded(ev[p]) => buffer = {}

PanicInv == EmptyInv /\ UnrecordedPanic

LEMMA PanicStep ==
  ASSUME IInv, PrivateInv, PanicInv, [Next]_vars
  PROVE  PanicInv'
<1> USE DEF IInv, TypeOK, PanicInv
<1>1. CASE Idle \/ Advance \/ UNCHANGED vars
  BY <1>1 DEF Idle, Advance, vars, locals, EmptyInv, UnrecordedPanic
<1>2. CASE Tick
  BY <1>2 DEF Tick, EmptyInv, UnrecordedPanic
<1>3. ASSUME NEW h \in Handlers, NEW e \in Events, Receive(h, e) PROVE PanicInv'
  BY <1>3 DEF Receive, EmptyInv, UnrecordedPanic, Procs
<1>4. ASSUME NEW p \in Procs, Lock(p) PROVE PanicInv'
  <2>1. buffer' = buffer /\ \A q \in Procs : pc[q] # "emit"
    BY <1>4, HandlerAssumption DEF Lock, LockFree, LockInv, Section
  <2>2. buffer = {}
    BY <2>1 DEF PrivateInv, BufferInv
  <2> QED
    BY <1>4, <2>1, <2>2 DEF Lock, AfterLock, EmptyInv, UnrecordedPanic
<1>5. ASSUME NEW p \in Procs, Load(p) PROVE PanicInv'
  BY <1>5 DEF Load, EmptyInv, UnrecordedPanic
<1>6. ASSUME NEW p \in Procs, Store(p) \/ BuildInfo(p) PROVE PanicInv'
  <2>1. \A q \in Procs : pc[q] # "emit"
    BY <1>6 DEF Store, BuildInfo, LockInv, Section
  <2>2. buffer = {} /\ (Unrecorded(ev[p]) => buffer' = {})
    <3>1. buffer = {}
      BY <2>1 DEF PrivateInv, BufferInv
    <3>2. CASE Store(p)
      <4>1. Counted(ev[p]) /\ buffer' = buffer \cup Points(ev[p].kind, Stores(p), stamp[p])
        BY <1>6, <3>2 DEF Store, LoadInv
      <4> QED
        BY <3>1, <4>1 DEF Unrecorded, Points
    <3>3. CASE BuildInfo(p)
      BY <1>6, <3>1, <3>3 DEF BuildInfo, LoadInv, Unrecorded, Kinds
    <3> QED
      BY <1>6, <3>1, <3>2, <3>3
  <2> QED
    BY <1>6, <2>1, <2>2 DEF Store, BuildInfo, EmptyInv, UnrecordedPanic
<1>7. ASSUME NEW p \in Procs, Emit(p) PROVE PanicInv'
  <2>1. ~Unrecorded(ev[p])
    BY <1>7 DEF Emit, Panics, EmptyInv, Unrecorded
  <2>2. \A q \in Procs : q # p => pc[q] # "emit"
    BY <1>7 DEF Emit, LockInv, Section
  <2> QED
    BY <1>7, <2>1, <2>2 DEF Emit, EmptyInv, UnrecordedPanic
<1>8. ASSUME NEW p \in Procs, EmitPanics(p) PROVE PanicInv'
  <2>1. OwnPoints(ev[p], stamp[p], {}) /\ ev[p].kind \in Kinds /\ ev[p].wellFormed
    BY <1>8 DEF EmitPanics, Panics, PrivateInv, BufferInv
  <2>2. Unrecorded(ev[p])
    BY <2>1 DEF OwnPoints, Unrecorded
  <2> QED
    BY <1>8, <2>2 DEF EmitPanics, EmptyInv, UnrecordedPanic
<1>9. ASSUME NEW p \in Procs, Recover(p) \/ \E accepted \in BOOLEAN : Consume(p, accepted)
      PROVE  PanicInv'
  BY <1>9 DEF Recover, Consume, Return, EmptyInv, UnrecordedPanic
<1> QED
  BY <1>1, <1>2, <1>3, <1>4, <1>5, <1>6, <1>7, <1>8, <1>9 DEF Next, Work

\* A handler panics exactly over a well-formed event of which nothing is recorded,
\* because of its action or a disabled counter: what other handlers or the ticker did
\* to the builder neither causes a panic nor hides one (ResourceMetrics().At(0)).
THEOREM OnlyUnrecordedPanic == Spec => []UnrecordedPanic
<1>1. Init => PanicInv /\ PrivateInv
  BY InitPrivate DEF Init, PanicInv, EmptyInv, UnrecordedPanic
<1>2. IInv /\ PrivateInv /\ [Next]_vars => PrivateInv'
  BY NextPrivate
<1>3. IInv /\ PrivateInv /\ PanicInv /\ [Next]_vars => PanicInv'
  BY PanicStep
<1>4. PanicInv => UnrecordedPanic
  BY DEF PanicInv
<1> QED
  BY <1>1, <1>2, <1>3, <1>4, SpecIInv, PTL DEF Spec
-------------------------------------------------------------------------------
\* The order of arrival with one handler.  What is on its way to the consumer is then
\* one emission at most, and no sample of it is below one that arrived.
CounterPoints(S) == {pt \in S : pt.metric \in Kinds}

Arrived == CounterPoints(UNION Range(sink))
Pending == CounterPoints(buffer \cup UNION Range(out))

ArrivalType ==
  /\ sink \in Seq(Range(sink)) /\ DOMAIN out = Procs /\ ev[Ticker] = InfoEvent
  /\ \A p \in Procs : pc[p] # "consume" => out[p] = {}

ArrivalPast ==
  \A pt \in Arrived \cup Pending :
    pt.cell \in Cells /\ pt.val \in Nat /\ (Intact(pt.cell) => pt.val <= Total(pt.cell))

NothingOvertakes ==
  \A a \in Arrived, b \in Pending : a.cell = b.cell /\ Intact(a.cell) => a.val <= b.val

\* CounterArrivesMonotonic for the groups no cell of which was evicted.
IntactArrivesMonotonic ==
  \A i, j \in DOMAIN sink : i < j =>
    \A a \in sink[i], b \in sink[j] :
      /\ a.metric \in Kinds /\ b.metric \in Kinds
      /\ a.cell = b.cell /\ Intact(a.cell)
      => a.val <= b.val

ArrivalInv == ArrivalType /\ ArrivalPast /\ NothingOvertakes /\ IntactArrivesMonotonic

\* A step that brings no counter point.
LEMMA NothingArrives ==
  ASSUME IInv, ArrivalInv, Onward, ArrivalType', Pending' \subseteq Pending, sink' = sink
  PROVE  ArrivalInv'
<1>1. Arrived' = Arrived
  BY DEF Arrived
<1>2. \A pt \in Arrived \cup Pending : Intact(pt.cell)' => Intact(pt.cell)
  BY DEF Onward, ArrivalInv, ArrivalPast
<1>3. ArrivalPast'
  <2> SUFFICES ASSUME NEW pt \in Arrived \cup Pending
               PROVE  /\ pt.cell \in Cells /\ pt.val \in Nat
                      /\ Intact(pt.cell)' => pt.val <= Total(pt.cell)'
    BY <1>1 DEF ArrivalPast
  <2>1. /\ pt.cell \in Cells /\ pt.val \in Nat /\ (Intact(pt.cell) => pt.val <= Total(pt.cell))
    BY DEF ArrivalInv, ArrivalPast
  <2>2. /\ Total(pt.cell) \in Nat /\ Total(pt.cell)' \in Nat /\ Total(pt.cell)' >= Total(pt.cell)
    BY <2>1 DEF Onward
  <2> QED
    BY <1>2, <2>1, <2>2
<1>4. NothingOvertakes'
  BY <1>1, <1>2 DEF ArrivalInv, NothingOvertakes
<1>5. IntactArrivesMonotonic'
  <2> SUFFICES ASSUME NEW i \in DOMAIN sink, NEW j \in DOMAIN sink, i < j,
                      NEW a \in sink[i], NEW b \in sink[j],
                      a.metric \in Kinds, b.metric \in Kinds, a.cell = b.cell, Intact(a.cell)'
               PROVE  a.val <= b.val
    BY DEF IntactArrivesMonotonic
  <2>1. a \in Arrived
    BY DEF Arrived, CounterPoints, Range
  <2> QED
    BY <1>2, <2>1 DEF ArrivalInv, IntactArrivesMonotonic
<1> QED
  BY <1>3, <1>4, <1>5 DEF ArrivalInv

LEMMA StoreArrives ==
  ASSUME IInv, IInv', ArrivalInv, Onward, NEW p \in Procs, Store(p)
  PROVE  ArrivalInv'
<1> DEFINE New == Points(ev[p].kind, Stores(p), stamp[p])
<1>1. /\ buffer' = buffer \cup New /\ out' = out /\ sink' = sink /\ ev' = ev
      /\ pc' = [pc EXCEPT ![p] = "emit"] /\ pc[p] = "store"
  BY DEF Store
<1>2. Arrived' = Arrived /\ Pending' \subseteq Pending \cup New
  BY <1>1 DEF Arrived, Pending, CounterPoints
<1>3. \A pt \in New : /\ pt.cell \in Cells /\ pt.val \in Nat
                      /\ Intact(pt.cell)' => pt.val = Total(pt.cell)'
  BY StoredValues
<1> HIDE DEF New
<1>4. ArrivalType'
  BY <1>1 DEF ArrivalInv, ArrivalType, IInv, TypeOK
<1>5. ASSUME NEW pt \in Arrived \cup Pending
      PROVE  /\ pt.cell \in Cells /\ pt.val \in Nat
             /\ Intact(pt.cell)' => Intact(pt.cell) /\ pt.val <= Total(pt.cell)'
  <2>1. pt.cell \in Cells /\ pt.val \in Nat /\ (Intact(pt.cell) => pt.val <= Total(pt.cell))
    BY DEF ArrivalInv, ArrivalPast
  <2>2. /\ Total(pt.cell) \in Nat /\ Total(pt.cell)' \in Nat /\ Total(pt.cell)' >= Total(pt.cell)
        /\ Intact(pt.cell)' => Intact(pt.cell)
    BY <2>1 DEF Onward
  <2> QED
    BY <2>1, <2>2
<1>6. ArrivalPast'
  BY <1>2, <1>3, <1>5 DEF ArrivalPast
<1>7. NothingOvertakes'
  <2> SUFFICES ASSUME NEW a \in Arrived, NEW b \in Pending', a.cell = b.cell, Intact(a.cell)'
               PROVE  a.val <= b.val
    BY <1>2 DEF NothingOvertakes
  <2>1. CASE b \in Pending
    BY <1>5, <2>1 DEF ArrivalInv, NothingOvertakes
  <2>2. CASE b \in New
    BY <1>3, <1>5, <2>2
  <2> QED
    BY <1>2, <2>1, <2>2
<1>8. IntactArrivesMonotonic'
  <2> SUFFICES ASSUME NEW i \in DOMAIN sink, NEW j \in DOMAIN sink, i < j,
                      NEW a \in sink[i], NEW b \in sink[j],
                      a.metric \in Kinds, b.metric \in Kinds, a.cell = b.cell, Intact(a.cell)'
               PROVE  a.val <= b.val
    BY <1>1 DEF IntactArrivesMonotonic
  <2>1. a \in Arrived
    BY DEF Arrived, CounterPoints, Range
  <2> QED
    BY <1>5, <2>1 DEF ArrivalInv, IntactArrivesMonotonic
<1> QED
  BY <1>4, <1>6, <1>7, <1>8 DEF ArrivalInv

\* The steps that pass points on, short of the consumer.
LEMMA PassOnArrives ==
  ASSUME IInv, ArrivalInv, [Next]_vars, sink' = sink, \A p \in Procs : ~Store(p)
  PROVE  ArrivalType' /\ Pending' \subseteq Pending
<1> DEFINE Goal == ArrivalType' /\ Pending' \subseteq Pending
<1> USE DEF IInv, TypeOK
<1>1. ASSUME UNCHANGED <<buffer, out>>, ev'[Ticker] = ev[Ticker],
             \A p \in Procs : pc'[p] # "consume" => out[p] = {}
      PROVE  Goal
  BY <1>1 DEF ArrivalInv, ArrivalType, Pending
<1>2. ArrivalType
  BY DEF ArrivalInv
<1>3. CASE Idle \/ Advance \/ UNCHANGED vars
  BY <1>1, <1>2, <1>3 DEF Idle, Advance, vars, locals, ArrivalType
<1>4. CASE Tick
  BY <1>1, <1>2, <1>4 DEF Tick, ArrivalType
<1>5. ASSUME NEW h \in Handlers, NEW e \in Events, Receive(h, e) PROVE Goal
  <2>1. ev'[Ticker] = ev[Ticker]
    BY <1>5, HandlerAssumption DEF Receive, Procs
  <2>2. \A p \in Procs : pc'[p] # "consume" => out[p] = {}
    BY <1>2, <1>5 DEF Receive, ArrivalType, Procs
  <2> QED
    BY <1>1, <1>5, <2>1, <2>2 DEF Receive
<1>6. ASSUME NEW p \in Procs, Lock(p) \/ Load(p) \/ EmitPanics(p) PROVE Goal
  <2>1. \A q \in Procs : pc'[q] # "consume" => out[q] = {}
    BY <1>2, <1>6 DEF Lock, AfterLock, Load, EmitPanics, ArrivalType
  <2> QED
    BY <1>1, <1>6, <2>1 DEF Lock, Load, EmitPanics, caches
<1>7. ASSUME NEW p \in Procs, BuildInfo(p) PROVE Goal
  <2>1. \A pt \in Points("info", [c \in {NoCell} |-> 1], stamp[p]) : pt.metric = "info"
    BY DEF Points
  <2>2. CounterPoints(buffer' \cup UNION Range(out)) \subseteq Pending
    BY <1>7, <2>1 DEF BuildInfo, CounterPoints, Pending, Kinds
  <2>3. out' = out /\ ev' = ev /\ \A q \in Procs : pc'[q] # "consume" => out[q] = {}
    BY <1>2, <1>7 DEF BuildInfo, ArrivalType
  <2> QED
    BY <1>2, <2>2, <2>3 DEF Pending, ArrivalType
<1>8. ASSUME NEW p \in Procs, NEW X, out' = [out EXCEPT ![p] = X], buffer' \subseteq buffer,
             \A pt \in X : pt.metric \in Kinds => pt \in buffer
      PROVE  Pending' \subseteq Pending
  <2>1. \A set \in Range(out') : set = X \/ set \in Range(out)
    BY <1>2, <1>8 DEF ArrivalType, Range
  <2> SUFFICES ASSUME NEW pt \in buffer' \cup UNION Range(out'), pt.metric \in Kinds
               PROVE  pt \in Pending
    BY DEF Pending, CounterPoints
  <2>2. CASE pt \in buffer'
    BY <1>8, <2>2 DEF Pending, CounterPoints
  <2>3. ASSUME NEW set \in Range(out'), pt \in set PROVE pt \in Pending
    BY <1>8, <2>1, <2>3 DEF Pending, CounterPoints
  <2> QED
    BY <2>2, <2>3
<1>9. ASSUME NEW p \in Procs, Emit(p) PROVE Goal
  <2>1. /\ buffer' = {} /\ pc' = [pc EXCEPT ![p] = "consume"] /\ ev' = ev
    BY <1>9 DEF Emit, MovedOut
  <2>2. \E X : /\ out' = [out EXCEPT ![p] = X]
               /\ \A pt \in X : pt.metric \in Kinds => pt \in buffer
    <3>1. CASE out' = [out EXCEPT ![p] = buffer]
      BY <3>1
    <3>2. CASE Measure(p)
      <4>1. PICK pt : pt.metric = "duration" /\ out' = [out EXCEPT ![p] = buffer \cup {pt}]
        BY <3>2 DEF Measure
      <4>2. \A q \in buffer \cup {pt} : q.metric \in Kinds => q \in buffer
        BY <4>1 DEF Kinds
      <4> QED
        BY <4>1, <4>2
    <3> QED
      BY <1>9, <3>1, <3>2 DEF Emit, Sweep
  <2>3. Pending' \subseteq Pending
    BY <1>8, <2>1, <2>2
  <2> QED
    BY <1>2, <2>1, <2>2, <2>3 DEF ArrivalType
<1>10. ASSUME NEW p \in Procs, Recover(p) \/ \E accepted \in BOOLEAN : Consume(p, accepted)
       PROVE  Goal
  <2>1. /\ buffer' = buffer /\ out' = [out EXCEPT ![p] = {}]
        /\ ev' = [ev EXCEPT ![p] = InfoEvent] /\ pc' = [pc EXCEPT ![p] = "idle"]
    BY <1>10 DEF Recover, Consume, Return, caches
  <2>2. Pending' \subseteq Pending
    BY <1>8, <2>1
  <2> QED
    BY <1>2, <2>1, <2>2 DEF ArrivalType, Procs
<1> QED
  BY <1>3, <1>4, <1>5, <1>6, <1>7, <1>9, <1>10 DEF Next, Work

\* An emission is accepted.  The ticker's has no counters; the only handler's is all
\* that is on its way.
LEMMA ConsumeArrives ==
  ASSUME \A h, i \in Handlers : h = i, IInv, PrivateInv, ArrivalInv, NEW p \in Procs, pc[p] = "consume",
         sink' = Append(sink, out[p]), ArrivalType', Pending' \subseteq Pending,
         UNCHANGED <<seen, lost, buffer>>, out' = [out EXCEPT ![p] = {}]
  PROVE  ArrivalInv'
<1> DEFINE New == CounterPoints(out[p])
<1>1. ArrivalType /\ ArrivalPast /\ NothingOvertakes /\ IntactArrivesMonotonic
  BY DEF ArrivalInv
<1>2. /\ DOMAIN sink' = 1 .. Len(sink) + 1 /\ DOMAIN sink = 1 .. Len(sink) /\ Len(sink) \in Nat
      /\ sink'[Len(sink) + 1] = out[p] /\ \A i \in DOMAIN sink : sink'[i] = sink[i]
      /\ Range(sink') = Range(sink) \cup {out[p]}
  BY <1>1, Appended DEF ArrivalType
<1>3. Arrived' = Arrived \cup New
  BY <1>2 DEF Arrived, CounterPoints
<1>4. New \subseteq Pending
  BY <1>1 DEF ArrivalType, Pending, CounterPoints, Range
<1>5. \A c : Intact(c)' = Intact(c) /\ Total(c)' = Total(c)
  BY DEF Intact, Total
<1>6. ArrivalPast'
  BY <1>1, <1>3, <1>4, <1>5 DEF ArrivalPast
\* Only the handler has counters.
<1>7. ASSUME NEW q \in Procs, ev[q].kind = "info", NEW points, OwnPoints(ev[q], stamp[q], points)
      PROVE  CounterPoints(points) = {}
  BY <1>7 DEF OwnPoints, CounterPoints, Kinds
<1>8. \A q \in Procs : ev[q].kind # "info" => q \in Handlers
  BY <1>1 DEF ArrivalType, Procs, InfoEvent
<1>9. New = {} \/ Pending' = {}
  <2> SUFFICES ASSUME New # {} PROVE Pending' = {}
    OBVIOUS
  <2>1. OwnPoints(ev[p], stamp[p], out[p])
    BY DEF PrivateInv, EmissionsArePrivate
  <2>2. p \in Handlers
    BY <1>7, <1>8, <2>1
  <2>3. \A q \in Procs \ {p} : ev[q].kind = "info"
    BY <1>8, <2>2
  <2>4. CounterPoints(buffer) = {}
    <3>1. CASE \A q \in Procs : pc[q] # "emit"
      BY <3>1 DEF PrivateInv, BufferInv, CounterPoints
    <3>2. ASSUME NEW q \in Procs, pc[q] = "emit" PROVE CounterPoints(buffer) = {}
      <4>1. q # p /\ OwnPoints(ev[q], stamp[q], buffer)
        BY <3>2 DEF PrivateInv, BufferInv
      <4> QED
        BY <1>7, <2>3, <4>1
    <3> QED
      BY <3>1, <3>2
  <2>5. \A q \in Procs \ {p} : CounterPoints(out[q]) = {}
    <3> SUFFICES ASSUME NEW q \in Procs \ {p} PROVE CounterPoints(out[q]) = {}
      OBVIOUS
    <3>1. CASE pc[q] = "consume"
      BY <1>7, <2>3, <3>1 DEF PrivateInv, EmissionsArePrivate
    <3>2. CASE pc[q] # "consume"
      BY <1>1, <3>2 DEF ArrivalType, CounterPoints
    <3> QED
      BY <3>1, <3>2
  <2>6. \A set \in Range(out') : set = {} \/ \E q \in Procs \ {p} : set = out[q]
    BY <1>1 DEF ArrivalType, Range
  <2>7. \A pt \in buffer \cup UNION Range(out') : pt.metric \notin Kinds
    <3>1. \A pt \in buffer : pt.metric \notin Kinds
      BY <2>4 DEF CounterPoints
    <3>2. \A q \in Procs \ {p} : \A pt \in out[q] : pt.metric \notin Kinds
      BY <2>5 DEF CounterPoints
    <3> QED
      BY <2>6, <3>1, <3>2
  <2> QED
    BY <2>7 DEF Pending, CounterPoints
<1>10. NothingOvertakes'
  BY <1>1, <1>3, <1>5, <1>9 DEF NothingOvertakes
<1>11. IntactArrivesMonotonic'
  <2> SUFFICES ASSUME NEW i \in DOMAIN sink', NEW j \in DOMAIN sink', i < j,
                      NEW a \in sink'[i], NEW b \in sink'[j],
                      a.metric \in Kinds, b.metric \in Kinds, a.cell = b.cell, Intact(a.cell)
               PROVE  a.val <= b.val
    BY <1>5 DEF IntactArrivesMonotonic
  <2>1. i \in DOMAIN sink /\ sink'[i] = sink[i]
    BY <1>2
  <2>2. CASE j \in DOMAIN sink
    BY <1>1, <1>2, <2>1, <2>2 DEF IntactArrivesMonotonic
  <2>3. CASE j = Len(sink) + 1
    <3>1. a \in Arrived
      BY <2>1 DEF Arrived, CounterPoints, Range
    <3>2. b \in Pending
      BY <1>2, <1>4, <2>3 DEF CounterPoints
    <3> QED
      BY <1>1, <3>1, <3>2 DEF NothingOvertakes
  <2> QED
    BY <1>2, <2>2, <2>3
<1> QED
  BY <1>6, <1>10, <1>11 DEF ArrivalInv

LEMMA ArrivalStep ==
  ASSUME \A h, i \in Handlers : h = i, IInv, IInv', PrivateInv, ArrivalInv, [Next]_vars
  PROVE  ArrivalInv'
<1>1. Onward
  BY NextOnward
<1>2. CASE \E p \in Procs : Store(p)
  BY <1>1, <1>2, StoreArrives
<1>3. CASE sink' = sink /\ \A p \in Procs : ~Store(p)
  BY <1>1, <1>3, PassOnArrives, NothingArrives
<1>4. ASSUME NEW p \in Procs, Consume(p, TRUE) PROVE ArrivalInv'
  <2>1. /\ pc[p] = "consume" /\ sink' = Append(sink, out[p]) /\ out' = [out EXCEPT ![p] = {}]
        /\ UNCHANGED <<seen, lost, buffer>> /\ ev' = [ev EXCEPT ![p] = InfoEvent]
        /\ pc' = [pc EXCEPT ![p] = "idle"]
    BY <1>4 DEF Consume, Return, history
  <2>2. ArrivalType
    BY DEF ArrivalInv
  <2>3. sink' \in Seq(Range(sink'))
    BY <2>1, <2>2, Appended DEF ArrivalType
  <2>4. ArrivalType'
    BY <2>1, <2>2, <2>3 DEF ArrivalType, IInv, TypeOK, Procs
  <2>5. Pending' \subseteq Pending
    <3>1. \A set \in Range(out') : set = {} \/ set \in Range(out)
      BY <2>1, <2>2 DEF ArrivalType, Range
    <3> QED
      BY <2>1, <3>1 DEF Pending, CounterPoints
  <2> QED
    BY <2>1, <2>4, <2>5, ConsumeArrives
<1>5. sink' = sink \/ \E p \in Procs : Consume(p, TRUE)
  <2>1. CASE Idle \/ Tick \/ Advance \/ UNCHANGED vars
    BY <2>1 DEF Idle, Tick, Advance, vars
  <2>2. CASE \E h \in Handlers, e \in Events : Receive(h, e)
    BY <2>2 DEF Receive
  <2>3. ASSUME NEW p \in Procs,
               \/ Lock(p) \/ Load(p) \/ Store(p) \/ BuildInfo(p) \/ Emit(p) \/ EmitPanics(p)
               \/ Recover(p) \/ Consume(p, FALSE)
        PROVE  sink' = sink
    BY <2>3 DEF Lock, Load, Store, BuildInfo, Emit, EmitPanics, Recover, Consume
  <2> QED
    BY <2>1, <2>2, <2>3 DEF Next, Work
<1>6. \A p, q \in Procs : Store(p) => ~Consume(q, TRUE)
  BY DEF Store, Consume, Return, IInv, TypeOK
<1> QED
  BY <1>2, <1>3, <1>4, <1>5, <1>6

\* What CounterArrivesMonotonic demands of handlers that overtake each other, and of
\* counters zeroed beside an evicted one (runs metrics_out_of_order and
\* metrics_evicted_sibling), holds without these two: with one handler, the ticker
\* beside it, counters of a group that was never evicted arrive in their order.
THEOREM OneHandlerArrivesInOrder ==
  ASSUME \A h, i \in Handlers : h = i
  PROVE  Spec => []IntactArrivesMonotonic
<1>1. Init => PrivateInv /\ ArrivalInv
  <2> SUFFICES ASSUME Init PROVE ArrivalInv
    BY InitPrivate
  <2>1. /\ sink = <<>> /\ buffer = {} /\ (\A p \in Procs : out[p] = {}) /\ DOMAIN out = Procs
        /\ ev[Ticker] = InfoEvent
    BY DEF Init, Procs
  <2>2. Range(sink) = {} /\ sink \in Seq(Range(sink)) /\ DOMAIN sink = {}
    BY <2>1 DEF Range
  <2>3. Arrived = {} /\ Pending = {}
    BY <2>1, <2>2 DEF Arrived, Pending, CounterPoints, Range
  <2> QED
    BY <2>1, <2>2, <2>3
       DEF ArrivalInv, ArrivalType, ArrivalPast, NothingOvertakes, IntactArrivesMonotonic
<1>2. IInv /\ PrivateInv /\ [Next]_vars => PrivateInv'
  BY NextPrivate
<1>3. IInv /\ IInv' /\ PrivateInv /\ ArrivalInv /\ [Next]_vars => ArrivalInv'
  BY ArrivalStep
<1>4. ArrivalInv => IntactArrivesMonotonic
  BY DEF ArrivalInv
<1> QED
  BY <1>1, <1>2, <1>3, <1>4, SpecIInv, PTL DEF Spec
===============================================================================
