-------------------------- MODULE MCVirtualAccount --------------------------
(* Bounded instances of VirtualAccount. *)
EXTENDS VirtualAccount, TLC

(* The third day of four is a holiday: lots come of age on it and nothing    *)
(* can be traded.                                                            *)
MCOpenDates == Dates \ {2}

Symmetry == Permutations(ProposalIds)
=============================================================================
