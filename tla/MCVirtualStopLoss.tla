-------------------------- MODULE MCVirtualStopLoss --------------------------
(***************************************************************************)
(* Small instances of VirtualStopLoss: minute 0 is in the final window of  *)
(* the first day and minute 1 its last; the other minutes are those of the *)
(* second day's session, or of two days.                                   *)
(***************************************************************************)
EXTENDS VirtualStopLoss, FiniteSets, TLC

MCDateOf  == [m \in Minutes |-> IF m <= 1 THEN 1 ELSE 2]
MCSession == Minutes \ {1}
MCWindow  == {0, 1}
MCClosed  == {1}

Symmetry == Permutations(Runs)

(* The minutes after the fifth, which re-arming needs, are explored for the *)
(* corrected program, the first episode, one run at a time and after a      *)
(* proposal that came to nothing; a row of the window's last minute, which  *)
(* freezing needs, until the second day has begun.                          *)
LateMinutesAlone ==
  /\ quote[1] # NoQuote => minute <= 2
  /\ minute > 5 =>
       /\ insertWorks /\ position.episode = 1
       /\ \E p \in Ids : proposal[p].status \in Terminal
       /\ Cardinality({r \in Runs : run[r] # NoRun}) <= 1
=============================================================================
