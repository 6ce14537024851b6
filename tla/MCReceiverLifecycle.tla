-------------------------- MODULE MCReceiverLifecycle --------------------------
(***************************************************************************)
(* ReceiverLifecycle with the three signals and two requests in flight.    *)
(***************************************************************************)
EXTENDS ReceiverLifecycle

CONSTANTS h1, h2
===============================================================================
