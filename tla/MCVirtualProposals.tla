------------------------- MODULE MCVirtualProposals -------------------------
(***************************************************************************)
(* Small instances of VirtualProposals: a signal or a position, two trade   *)
(* dates of which the model sees the session and what lies outside it.     *)
(***************************************************************************)
EXTENDS VirtualProposals, FiniteSets, TLC

(* Ticks 0..2 are the first date (the last of them after the close), the    *)
(* rest the second date.                                                    *)
MCTradeDate == [t \in Ticks |-> IF t <= 2 THEN 1 ELSE 2]
MCOpenTicks == Ticks \ {2}

Quiet(s) ==
  /\ s \in effective
  /\ RowsOf(s) = {}
  /\ \A w \in WebSessions : call[w].op = "create" => call[w].source # s

InFlight == Cardinality({w \in WebSessions : call[w] # NoCall})
              + Cardinality({e \in Executors : txn[e] # NoTxn})

(* Rows of one source do not touch those of another, so a behaviour is      *)
(* explored while all sources but one are quiet: a signal with one executor *)
(* run at a time and the whole clock; anything else with concurrent runs,   *)
(* two transactions at a time and a shorter clock.                          *)
OneSourceAtATime ==
  \E s \in Sources :
    /\ \A o \in Sources \ {s} : Quiet(o)
    /\ IF s \in BuySignals
       THEN Cardinality({e \in Executors : txn[e] # NoTxn}) <= 1
       ELSE InFlight <= 2 /\ clock <= 2 /\ lastToken <= 2

Symmetry ==
  Permutations(ProposalIds) \cup Permutations(WebSessions)
    \cup Permutations(Executors) \cup Permutations(Nonces)
=============================================================================
