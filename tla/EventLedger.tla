----------------------------- MODULE EventLedger -----------------------------
(***************************************************************************)
(* What a consumer of the outbox promises: an event is consumed at most    *)
(* once and by one run; a run consumes its events in one step, and either  *)
(* emits what follows from all of them or, as a poll, nothing.             *)
(***************************************************************************)
EXTENDS Naturals

CONSTANTS Events, Runs, Nobody

VARIABLES
  consumedBy, \* the run that consumed every event
  emitted     \* the events whose outputs were emitted

lvars == <<consumedBy, emitted>>

Init ==
  /\ consumedBy = [e \in Events |-> Nobody]
  /\ emitted = {}

Consume(r, batch) ==
  /\ \A e \in Events : consumedBy[e] # r
  /\ \A e \in batch : consumedBy[e] = Nobody
  /\ consumedBy' = [e \in Events |-> IF e \in batch THEN r ELSE consumedBy[e]]
  /\ emitted' \in {emitted, emitted \cup batch}

Next == \E r \in Runs, batch \in SUBSET Events : Consume(r, batch)
Spec == Init /\ [][Next]_lvars
=============================================================================
