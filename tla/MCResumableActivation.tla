----------------------- MODULE MCResumableActivation -----------------------
(* Small instances of ResumableActivation. *)
EXTENDS ResumableActivation, TLC

Symmetry == Permutations(Writers)

InFlight == {w \in Writers : op[w] # Idle}

(* Two commands are in flight while the file is short. *)
ShortFile == Cardinality(InFlight) > 1 => version <= 1

(* One command at a time, or else both count the same file: nothing is      *)
(* written while the other is still between its decision and its count.     *)
NoOldDecisions ==
  op' # op /\ log' # log => \A w \in Writers : op'[w].phase # "decided"
=============================================================================
