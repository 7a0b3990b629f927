--------------------------- MODULE VirtualAccount ---------------------------
(***************************************************************************)
(* One virtual account: its active cash snapshot, its positions and their  *)
(* lots, the sale proposals that freeze a holding episode, and the fill    *)
(* n6_executor_apply_claimed_proposal makes once it holds the account row. *)
(* That row is locked from before the first read of the account to the     *)
(* commit, so a fill is one step here; how a proposal becomes one that may *)
(* be filled is module VirtualProposals.                                   *)
(*                                                                         *)
(* Shares are counted in lots of 100 and a price is the money one such lot *)
(* costs, so the rounding of quantity * price to 4 digits is exact.        *)
(***************************************************************************)
EXTENDS Naturals, Sequences, FiniteSetsExt

CONSTANTS
  Stocks,       \* identity keys
  ProposalIds,  \* trade proposals
  Prices,       \* what one lot costs in a fresh quote
  Budget,       \* the most one buy spends (300000)
  InitialCash,  \* the cash the account is provisioned with
  MaxDate,      \* bound on the days that pass
  OpenDates     \* days common_trade_calendar calls open

Dates == 0 .. MaxDate

ASSUME AccountAssumption ==
  /\ MaxDate \in Nat /\ Budget \in Nat /\ InitialCash \in Nat
  /\ Prices \subseteq Nat \ {0}
  /\ OpenDates \subseteq Dates

VARIABLES
  today,     \* Shanghai date of clock_timestamp()
  cash,      \* the active n6_virtual_cash_snapshot
  position,  \* n6_virtual_position, by stock
  lots,      \* n6_virtual_position_lot of each position, by id
  proposal,  \* n6_virtual_trade_proposal: what a fill reads of it
  trades     \* n6_virtual_trade

vars == <<today, cash, position, lots, proposal, trades>>

-----------------------------------------------------------------------------
NoPosition == [status |-> "none", quantity |-> 0, available |-> 0, locked |-> 0,
               episode |-> 0, first_open |-> 0]
NoProposal == [status |-> "none"]

(* A definition whose comment begins with "Broken" is a variant of the one   *)
(* after it with a mistake in it: no action uses it, it is put in the place  *)
(* of the right one to see that the properties notice.                       *)

(* Broken: trusts the status, which nobody updates as the day changes. *)
MatureByStatus(l) == l.available <= today /\ l.status = "available"

(* A lot as the fill sees it: matured lots may be sold today. *)
Mature(l) == l.available <= today /\ l.status \in {"locked_t1", "available"}
Fresh(l)  == l.available > today /\ l.status = "locked_t1"

Remaining(s, ids) ==
  SumFunctionOnSet([i \in DOMAIN lots[s] |-> lots[s][i].remaining], ids)

Matured(s) == Remaining(s, {i \in DOMAIN lots[s] : Mature(lots[s][i])})
Unripe(s)  == Remaining(s, {i \in DOMAIN lots[s] : Fresh(lots[s][i])})

Held(s)   == position[s].status = "open_virtual" /\ position[s].quantity > 0
Agrees(s) == position[s].status = "open_virtual" =>
               position[s].quantity = Matured(s) + Unripe(s)

(* The trade session and the calendar admit a fill today. *)
TradingDay == today \in OpenDates /\ cash.trade_date <= today

-----------------------------------------------------------------------------
Init ==
  /\ today = 0
  /\ cash = [amount |-> InitialCash, trade_date |-> 0]
  /\ position = [s \in Stocks |-> NoPosition]
  /\ lots = [s \in Stocks |-> <<>>]
  /\ proposal = [p \in ProposalIds |-> NoProposal]
  /\ trades = {}

NextDay ==
  /\ today < MaxDate
  /\ today' = today + 1
  /\ UNCHANGED <<cash, position, lots, proposal, trades>>

(* n6_btrack_proposal_create: a buy names a stock, a sale freezes the        *)
(* holding episode of an open position that has something to sell.           *)
ProposeBuy(p, s) ==
  /\ proposal[p] = NoProposal
  /\ proposal' = [proposal EXCEPT
       ![p] = [status |-> "live", side |-> "buy", stock |-> s, episode |-> 0]]
  /\ UNCHANGED <<today, cash, position, lots, trades>>

Sellable(l, s) == l.episode = position[s].episode /\ l.remaining > 0 /\ Mature(l)

ProposeSale(p, s) ==
  /\ proposal[p] = NoProposal
  /\ Held(s)
  /\ \E i \in DOMAIN lots[s] : Sellable(lots[s][i], s)
  /\ proposal' = [proposal EXCEPT
       ![p] = [status |-> "live", side |-> "sell", stock |-> s,
               episode |-> position[s].episode]]
  /\ UNCHANGED <<today, cash, position, lots, trades>>

-----------------------------------------------------------------------------
(* Broken: starts from the provisioned snapshot, not from the current one. *)
SettledFromOpening(p, n, price, episode, amount) ==
  /\ trades' = trades \cup
       {[proposal |-> p, side |-> proposal[p].side, stock |-> proposal[p].stock,
         episode |-> episode, quantity |-> n, price |-> price, date |-> today]}
  /\ cash' = [amount |-> IF proposal[p].side = "buy" THEN InitialCash - n * price
                         ELSE InitialCash + n * price,
              trade_date |-> today]
  /\ proposal' = [proposal EXCEPT ![p] = [@ EXCEPT !.status = "executed"]]

(* The rows every fill writes: the trade, the cash snapshot, the proposal.   *)
Settled(p, n, price, episode, amount) ==
  /\ trades' = trades \cup
       {[proposal |-> p, side |-> proposal[p].side, stock |-> proposal[p].stock,
         episode |-> episode, quantity |-> n, price |-> price, date |-> today]}
  /\ cash' = [amount |-> amount, trade_date |-> today]
  /\ proposal' = [proposal EXCEPT ![p] = [@ EXCEPT !.status = "executed"]]

(* Lots that came of age are marked available whenever their position trades. *)
Ripened(s) ==
  [i \in DOMAIN lots[s] |->
     IF lots[s][i].remaining > 0 /\ Mature(lots[s][i])
     THEN [lots[s][i] EXCEPT !.status = "available"] ELSE lots[s][i]]

AffordableLots(price) == Min({Budget, cash.amount}) \div price

(* Broken: forgets that the first buy has no position row. *)
ReopensClosed(s) == position[s].status = "closed_virtual"

Reopens(s) == position[s].status # "open_virtual" \/ position[s].quantity = 0

(* Broken: what is bought today can be sold today. *)
UnlockSameDay == today

(* The natural day after the trade, open or not. *)
UnlockDate == today + 1

FillBuy(p, price) ==
  LET s == proposal[p].stock
      n == AffordableLots(price)
      episode == IF Reopens(s) THEN position[s].episode + 1 ELSE position[s].episode
  IN /\ proposal[p].status = "live" /\ proposal[p].side = "buy"
     /\ TradingDay
     /\ Agrees(s)
     /\ n >= 1 /\ n * price <= cash.amount
     /\ Settled(p, n, price, episode, cash.amount - n * price)
     /\ position' = [position EXCEPT ![s] =
          [status |-> "open_virtual", quantity |-> @.quantity + n,
           available |-> Matured(s), locked |-> Unripe(s) + n, episode |-> episode,
           first_open |-> IF Reopens(s) THEN today ELSE @.first_open]]
     /\ lots' = [lots EXCEPT ![s] = Append(Ripened(s),
          [episode |-> episode, available |-> UnlockDate,
           remaining |-> n, status |-> "locked_t1"])]
     /\ UNCHANGED today

(* The sale takes n shares from the lots that are of age, oldest first (lots *)
(* are appended in the order of their dates).                                *)
DueBefore(s, i) == Remaining(s, {j \in 1 .. i - 1 : lots[s][j].available <= today})
Taken(s, n, i) ==
  IF lots[s][i].available > today \/ DueBefore(s, i) >= n THEN 0
  ELSE Min({lots[s][i].remaining, n - DueBefore(s, i)})

AfterSale(s, n) ==
  [i \in DOMAIN lots[s] |->
     LET l == Ripened(s)[i]
     IN IF Taken(s, n, i) = 0 THEN l
        ELSE [l EXCEPT !.remaining = @ - Taken(s, n, i),
                       !.status = IF @ = "closed" \/ l.remaining = Taken(s, n, i)
                                  THEN "closed" ELSE "available"]]

(* The shares the loop cannot allocate raise an exception and roll back. *)
Allocated(s, n) == SumFunction([i \in DOMAIN lots[s] |-> Taken(s, n, i)]) = n

(* Broken: a proposal of an earlier episode sells from the current one. *)
EpisodeReached(p, s) == proposal[p].episode <= position[s].episode

SameEpisode(p, s) == proposal[p].episode = position[s].episode

FillSale(p, price) ==
  LET s == proposal[p].stock
      n == Matured(s)
      left == position[s].quantity - n
  IN /\ proposal[p].status = "live" /\ proposal[p].side = "sell"
     /\ TradingDay
     /\ Agrees(s)
     /\ Held(s)
     /\ SameEpisode(p, s)
     /\ n > 0 /\ n <= position[s].quantity /\ left = Unripe(s)
     /\ Allocated(s, n)
     /\ Settled(p, n, price, position[s].episode, cash.amount + n * price)
     /\ position' = [position EXCEPT ![s] =
          [status |-> IF left = 0 THEN "closed_virtual" ELSE "open_virtual",
           quantity |-> left, available |-> 0, locked |-> left,
           episode |-> @.episode, first_open |-> @.first_open]]
     /\ lots' = [lots EXCEPT ![s] = AfterSale(s, n)]
     /\ UNCHANGED today

Propose == \E p \in ProposalIds, s \in Stocks : ProposeBuy(p, s) \/ ProposeSale(p, s)
Fill    == \E p \in ProposalIds, price \in Prices : FillBuy(p, price) \/ FillSale(p, price)

Next == NextDay \/ Propose \/ Fill
Spec == Init /\ [][Next]_vars

-----------------------------------------------------------------------------
(* Correctness. *)

Positions == [status : {"none", "open_virtual", "closed_virtual"},
              quantity : Nat, available : Nat, locked : Nat,
              episode : Nat, first_open : Dates]
Lots      == [episode : Nat \ {0}, available : Nat, remaining : Nat,
              status : {"locked_t1", "available", "closed"}]
Proposals == {NoProposal} \cup [status : {"live", "executed"}, side : {"buy", "sell"},
                                stock : Stocks, episode : Nat]
Fills     == [proposal : ProposalIds, side : {"buy", "sell"}, stock : Stocks,
              episode : Nat \ {0}, quantity : Nat \ {0}, price : Prices, date : Dates]

(* Every row of the account holds values its columns admit: quantities never *)
(* go negative and lots have an episode.                                     *)
TypeOK ==
  /\ today \in Dates
  /\ cash \in [amount : Nat, trade_date : Dates]
  /\ position \in [Stocks -> Positions]
  /\ \A s \in Stocks : \A i \in DOMAIN lots[s] : lots[s][i] \in Lots
  /\ proposal \in [ProposalIds -> Proposals]
  /\ \A t \in trades : t \in Fills

Bought(s)    == {t \in trades : t.stock = s /\ t.side = "buy"}
Sold(s)      == {t \in trades : t.stock = s /\ t.side = "sell"}
Shares(T)    == SumFunction([t \in T |-> t.quantity])
Money(T)     == SumFunction([t \in T |-> t.quantity * t.price])
Of(T, e)     == {t \in T : t.episode = e}

(* No fill creates or loses money: the active snapshot is what the account   *)
(* was provisioned with, less every buy and plus every sale ever recorded,   *)
(* whatever the fills in between did to positions, and it never went below 0 *)
(* (the ledger, snapshot and trade rows apply writes belong together).       *)
CashMatchesTrades ==
  cash.amount + Money(UNION {Bought(s) : s \in Stocks})
    = InitialCash + Money(UNION {Sold(s) : s \in Stocks})

(* A position and its lots never drift apart, on any day and not only on the *)
(* day of the last fill: apply's lot_position_mismatch refusals and its      *)
(* '046 sell lot allocation mismatch' exception cannot happen, and what is   *)
(* left of an earlier holding episode is never mixed into the current one.   *)
PositionMatchesLots ==
  \A s \in Stocks :
    /\ position[s].quantity = Matured(s) + Unripe(s)
    /\ position[s].quantity = position[s].available + position[s].locked
    /\ position[s].status = "open_virtual" <=> position[s].quantity > 0
    /\ Allocated(s, Matured(s))
    /\ \A i \in DOMAIN lots[s] :
         lots[s][i].remaining > 0 => lots[s][i].episode = position[s].episode

(* Holding episodes are closed books: every share bought in an earlier one   *)
(* was sold in it, the current one holds what it has not sold yet, and a     *)
(* sale proposal made for one episode is never filled from a later one.      *)
EpisodesBalance ==
  /\ \A s \in Stocks : \A e \in 1 .. position[s].episode :
       Shares(Of(Bought(s), e)) =
         Shares(Of(Sold(s), e)) + (IF e = position[s].episode THEN position[s].quantity ELSE 0)
  /\ \A t \in trades : t.side = "sell" => t.episode = proposal[t.proposal].episode

(* T+1: by the end of any day no more shares of a stock were sold than were  *)
(* bought on earlier days (the 069 rule that a lot is available from the     *)
(* natural day after its purchase).                                          *)
SoldWereHeldOvernight ==
  \A s \in Stocks : \A d \in Dates :
    Shares({t \in Sold(s) : t.date <= d}) <= Shares({t \in Bought(s) : t.date < d})

(* The account implements the T+1 account it stands for: settled shares are  *)
(* the lots of age and fresh ones the rest, and every fill is one of its     *)
(* purchases or a sale of everything sellable.                               *)
Contract == INSTANCE SettlementAccount WITH
  cash <- cash.amount,
  settled <- [s \in Stocks |-> Matured(s)],
  fresh <- [s \in Stocks |-> Unripe(s)]
ImplementsSettlement == Contract!Spec
=============================================================================
