--------------------------- MODULE TradeAuthority ---------------------------
(***************************************************************************)
(* What the proposal machinery promises its user, with no clocks, locks or *)
(* transactions: an offer carries a token never used before, the user      *)
(* grants or withdraws the offer on the table, and a trade spends a grant  *)
(* of exactly that offer, once, after which the row makes no more offers.  *)
(***************************************************************************)
EXTENDS Naturals

CONSTANTS ProposalIds

VARIABLES
  used,   \* the last token handed out
  offer,  \* the token a row's current offer carries, 0 before the first
  grant,  \* the offer the user granted and has not lost again, or 0
  spent   \* the offer a trade was made for, or 0

avars == <<used, offer, grant, spent>>

Init ==
  /\ used = 0
  /\ offer = [p \in ProposalIds |-> 0]
  /\ grant = [p \in ProposalIds |-> 0]
  /\ spent = [p \in ProposalIds |-> 0]

Offer(p) ==
  /\ spent[p] = 0
  /\ used' = used + 1
  /\ offer' = [offer EXCEPT ![p] = used + 1]
  /\ grant' = [grant EXCEPT ![p] = 0]
  /\ UNCHANGED spent

Grant(p) ==
  /\ spent[p] = 0 /\ grant[p] = 0 /\ offer[p] # 0
  /\ grant' = [grant EXCEPT ![p] = offer[p]]
  /\ UNCHANGED <<used, offer, spent>>

(* Cancelling names several rows at once. *)
Withdraw(ps) ==
  /\ \A p \in ps : spent[p] = 0
  /\ grant' = [p \in ProposalIds |-> IF p \in ps THEN 0 ELSE grant[p]]
  /\ UNCHANGED <<used, offer, spent>>

Trade(p) ==
  /\ spent[p] = 0 /\ grant[p] # 0 /\ grant[p] = offer[p]
  /\ spent' = [spent EXCEPT ![p] = grant[p]]
  /\ UNCHANGED <<used, offer, grant>>

Next ==
  \/ \E p \in ProposalIds : Offer(p) \/ Grant(p) \/ Trade(p)
  \/ \E ps \in SUBSET ProposalIds : Withdraw(ps)

Spec == Init /\ [][Next]_avars
=============================================================================
