------------------------------ MODULE OneService ------------------------------
(***************************************************************************)
(* What sharedcomponent.go promises of the component it wraps, and what    *)
(* the receivers promise of themselves: the component is started and       *)
(* stopped only once, and its background work happens in between.          *)
(***************************************************************************)
EXTENDS Naturals

VARIABLES
  starts, stops,  \* how often Start and Shutdown of the component returned
  busy            \* some goroutine of the component is alive

vars == <<starts, stops, busy>>

Init == starts = 0 /\ stops = 0 /\ busy = FALSE

Start == starts = 0 /\ stops = 0 /\ starts' = 1 /\ busy' = TRUE /\ UNCHANGED stops

\* A goroutine ends.
Finish == busy /\ stops = 0 /\ busy' = FALSE /\ UNCHANGED <<starts, stops>>

Stop == ~busy /\ stops = 0 /\ stops' = 1 /\ UNCHANGED <<starts, busy>>

Next == Start \/ Finish \/ Stop

Spec == Init /\ [][Next]_vars
===============================================================================
