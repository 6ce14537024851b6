------------------------------ MODULE LruOrder ------------------------------
(***************************************************************************)
(* The recency order of github.com/hashicorp/golang-lru (not under src/),  *)
(* as countersCache and histogramCache use it: Add and Get make a key the  *)
(* youngest, Add drops the oldest keys while the cache is over size.       *)
(*                                                                         *)
(* An order is a set of pairs of keys, the older first.  Keys that were    *)
(* added by one loop over a Go map, whose iteration order is random, are   *)
(* not ordered among themselves: which of them is the older is decided     *)
(* when it matters, that is when one of them is evicted.                   *)
(***************************************************************************)
EXTENDS Integers, Sequences, FiniteSets, FiniteSetsExt, Functions

\* The order once the keys in S are gone.
Without(order, S) == {x \in order : x[1] \notin S /\ x[2] \notin S}

\* The order of keys once those in S were used, in an order nobody fixed.
Use(order, keys, S) == Without(order, S) \cup ((keys \ S) \X S)

\* Mutant of Victims: a cache without a limit.
NoVictims(keys, order, size) == {{}}

\* The sets of keys an over-full cache of the given size may have dropped:
\* as many as are over, and none before an older one.
Victims(keys, order, size) ==
  IF Cardinality(keys) <= size
    THEN {{}}
    ELSE {V \in kSubset(Cardinality(keys) - size, keys) :
            \A x \in order : x[2] \in V => x[1] \in V}
=============================================================================
