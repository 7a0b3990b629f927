--------------------------- MODULE MCTriggerWorker ---------------------------
(***************************************************************************)
(* Small instances of TriggerWorker: a market data run with two events of  *)
(* each of two partitions, such that two batches can have the partitions   *)
(* in opposite orders; and two runs with one event each of one partition.  *)
(***************************************************************************)
EXTENDS TriggerWorker, TLC

OneRun      == 1 :> "s1" @@ 2 :> "s1" @@ 3 :> "s1" @@ 4 :> "s1"
TwoStocks   == 1 :> "k1" @@ 2 :> "k2" @@ 3 :> "k2" @@ 4 :> "k1"

(* Publication is explored in one order, in which an event becomes visible   *)
(* after the one that follows it.                                            *)
LateFirst == outbox \in {{}, {2}, {1, 2}, {1, 2, 4}, {1, 2, 3, 4}}

RunAfterRun == 1 :> "s1" @@ 2 :> "s2"
OneStock    == 1 :> "k1" @@ 2 :> "k1"
InOrder     == outbox \in {{}, {1}, {1, 2}}
=============================================================================
