------------------------------ MODULE StopOrder ------------------------------
(***************************************************************************)
(* What the stop loss promises the holder of a position: every holding     *)
(* episode gets at most one stop price, which never moves; an order sells  *)
(* only the episode it was placed for, while that is held; and an episode  *)
(* whose stop has sold is never sold by a stop again.                      *)
(***************************************************************************)
EXTENDS Naturals

CONSTANTS
  Episodes,
  Prices

VARIABLES
  episode, \* the present holding episode, or the last one
  held,    \* whether it is held
  stop,    \* its stop price, or 0
  order    \* the stop order of every episode

ovars == <<episode, held, stop, order>>

Init ==
  /\ episode = 1 /\ held = TRUE /\ stop = 0
  /\ order = [e \in Episodes |-> "none"]

Protect(price) ==
  /\ held /\ stop = 0
  /\ stop' = price
  /\ UNCHANGED <<episode, held, order>>

(* The first order may come with the stop. *)
Place(price) ==
  /\ held /\ stop \in {0, price} /\ order[episode] = "none"
  /\ stop' = price
  /\ order' = [order EXCEPT ![episode] = "placed"]
  /\ UNCHANGED <<episode, held>>

Withdraw(e) ==
  /\ order[e] = "placed"
  /\ order' = [order EXCEPT ![e] = "none"]
  /\ UNCHANGED <<episode, held, stop>>

(* What was bought too late to be sold today stays. *)
Sell ==
  /\ held /\ stop # 0 /\ order[episode] = "placed"
  /\ order' = [order EXCEPT ![episode] = "sold"]
  /\ held' \in BOOLEAN
  /\ UNCHANGED <<episode, stop>>

Close ==
  /\ held
  /\ held' = FALSE
  /\ UNCHANGED <<episode, stop, order>>

Reopen ==
  /\ ~held /\ episode + 1 \in Episodes
  /\ episode' = episode + 1 /\ held' = TRUE /\ stop' = 0
  /\ UNCHANGED order

Next ==
  \/ \E price \in Prices : Protect(price) \/ Place(price)
  \/ \E e \in Episodes : Withdraw(e)
  \/ Sell \/ Close \/ Reopen

Spec == Init /\ [][Next]_ovars
=============================================================================
