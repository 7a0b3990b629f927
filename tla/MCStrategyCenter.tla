--------------------------- MODULE MCStrategyCenter ---------------------------
(***************************************************************************)
(* Small instances of StrategyCenter: a stock that is confirmed by the     *)
(* second source and has lost its support in the third.                    *)
(***************************************************************************)
EXTENDS StrategyCenter

MCEvidence ==
  [s \in Sources |-> [t \in Times |-> IF s <= 2 THEN "confirmed" ELSE "signals"]]

Used == {r \in Ids : rev[r] # Absent}

AtRest == clock = MaxClock /\ source >= 2

SecondActive ==
  /\ Used = {1, 2} /\ rev[2].status = "active" /\ rev[2].version = "v2"
  /\ file.failed = <<>>

(* Evaluations by hand are explored while one revision exists; beside a      *)
(* pending one, at rest and before the evaluator saved anything; and on the  *)
(* v2 revision that took the place of the first.  The third revision is      *)
(* explored at rest, without them and without failures, and the third source *)
(* for that v2 revision, without them.                                       *)
Bounded ==
  /\ manual # Idle =>
       \/ Used \subseteq {1}
       \/ AtRest /\ Used \subseteq {1, 2} /\ Pending # {} /\ file = NewFile
       \/ SecondActive /\ manual.plan.rev = 2
  /\ rev[3] # Absent => AtRest /\ file.failed = <<>>
  /\ source > 2 => SecondActive /\ manual = Idle
=============================================================================
