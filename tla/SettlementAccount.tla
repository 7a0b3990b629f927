------------------------- MODULE SettlementAccount -------------------------
(***************************************************************************)
(* What a virtual account promises: money and shares are conserved, shares *)
(* bought today can be sold from the next day on, and a sale sells every   *)
(* share of its stock that can be sold.                                    *)
(***************************************************************************)
EXTENDS Naturals

CONSTANTS Stocks, Prices, InitialCash

VARIABLES
  cash,     \* money not invested
  settled,  \* shares of each stock that can be sold
  fresh     \* shares of each stock bought since the last settlement

vars == <<cash, settled, fresh>>

Init ==
  /\ cash = InitialCash
  /\ settled = [s \in Stocks |-> 0]
  /\ fresh = [s \in Stocks |-> 0]

Buy(s, price) ==
  \E n \in 1 .. cash \div price :
    /\ cash' = cash - n * price
    /\ fresh' = [fresh EXCEPT ![s] = @ + n]
    /\ UNCHANGED settled

SellAll(s, price) ==
  /\ settled[s] > 0
  /\ cash' = cash + settled[s] * price
  /\ settled' = [settled EXCEPT ![s] = 0]
  /\ UNCHANGED fresh

Settle ==
  /\ settled' = [s \in Stocks |-> settled[s] + fresh[s]]
  /\ fresh' = [s \in Stocks |-> 0]
  /\ UNCHANGED cash

Next ==
  \/ \E s \in Stocks, price \in Prices : Buy(s, price) \/ SellAll(s, price)
  \/ Settle

Spec == Init /\ [][Next]_vars
=============================================================================
