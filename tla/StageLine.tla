----------------------------- MODULE StageLine -----------------------------
(***************************************************************************)
(* What an activation grant promises: its stages are worked on in order, a *)
(* stage that passed stays passed, and the grant is closed once, when all  *)
(* of them have.                                                           *)
(***************************************************************************)
EXTENDS Naturals

CONSTANT NStages

VARIABLES
  stage,  \* the status of every stage
  closed

svars == <<stage, closed>>

Stages == 1 .. NStages

Init ==
  /\ stage = [s \in Stages |-> "planned"]
  /\ closed = FALSE

Work(s) ==
  /\ ~closed
  /\ \A t \in 1 .. s - 1 : stage[t] = "passed"
  /\ \/ /\ stage[s] \in {"planned", "failed", "rolled_back"}
        /\ stage' = [stage EXCEPT ![s] = "running"]
     \/ /\ stage[s] \in {"planned", "running"}
        /\ stage' = [stage EXCEPT ![s] = "failed"]
     \/ /\ stage[s] \in {"running", "failed"}
        /\ stage' = [stage EXCEPT ![s] = "rolled_back"]
     \/ /\ stage[s] = "running"
        /\ stage' = [stage EXCEPT ![s] = "passed"]
  /\ UNCHANGED closed

Close ==
  /\ ~closed
  /\ \A s \in Stages : stage[s] = "passed"
  /\ closed' = TRUE
  /\ UNCHANGED stage

Next == Close \/ \E s \in Stages : Work(s)
Spec == Init /\ [][Next]_svars
=============================================================================
