---------------------- MODULE VirtualProposals_contract ----------------------
(***************************************************************************)
(* Proofs of what VirtualProposals promises over time: final rows, trade   *)
(* dates, and that it implements TradeAuthority.  They rest on the         *)
(* invariant and on the row transitions of VirtualProposals_proof.         *)
(***************************************************************************)
EXTENDS VirtualProposals_proof

(* Every offer and every confirmation in flight names a token handed out.    *)
RowTokensIssued ==
  \A p \in ProposalIds : Exists(p) => 0 < prop[p].token /\ prop[p].token <= lastToken
CallTokensIssued ==
  \A w \in WebSessions : call[w].op = "confirm" => call[w].key.token <= lastToken

LEMMA RowTokensStep ==
  RowTokensIssued /\ Core /\ RowTransition => RowTokensIssued' /\ lastToken <= lastToken'
<1> SUFFICES ASSUME RowTokensIssued, Core, RowTransition
             PROVE  RowTokensIssued' /\ lastToken <= lastToken'
  OBVIOUS
<1>0. /\ prop \in [ProposalIds -> Row]
      /\ lastToken \in Nat /\ \A p \in ProposalIds : prop[p].token \in Nat
  BY DEF Core, Typed, TypeOK, Tokens, Row
<1>1. ASSUME lastToken' = lastToken,
             \A p \in ProposalIds :
               prop'[p] = prop[p] \/ (Exists(p) /\ prop'[p].token = prop[p].token)
      PROVE  RowTokensIssued' /\ lastToken <= lastToken'
  <2>1. \A p \in ProposalIds : Exists(p)' => Exists(p) /\ prop'[p].token = prop[p].token
    BY <1>1 DEF Exists
  <2>2. RowTokensIssued'
    BY <1>1, <2>1 DEF RowTokensIssued
  <2> QED
    BY <1>0, <1>1, <2>2
<1>2. CASE RowsStay
  BY <1>0, <1>1, <1>2 DEF RowsStay
<1>3. ASSUME NEW p \in ProposalIds, Offers(p)
      PROVE  RowTokensIssued' /\ lastToken <= lastToken'
  <2>1. PICK s \in Sources, x \in Nat, d \in Nat :
          /\ Only(p, PendingRow(s, x, d, lastToken + 1))
          /\ lastToken' = lastToken + 1 /\ lastToken' \in Tokens
    BY <1>3 DEF Offers
  <2>2. PendingRow(s, x, d, lastToken + 1).token = lastToken + 1
    BY <2>1, NewRows
  <2>3. \A q \in ProposalIds : q # p => prop'[q] = prop[q]
    BY <1>0, <2>1 DEF Only
  <2>4. prop'[p].token = lastToken + 1
    BY <1>0, <2>1, <2>2 DEF Only
  <2> QED
    BY <1>0, <2>1, <2>3, <2>4 DEF RowTokensIssued, Exists
<1>4. ASSUME NEW p \in ProposalIds, Confirms(p)
      PROVE  RowTokensIssued' /\ lastToken <= lastToken'
  <2>1. PICK k \in Keys, n \in Nat :
          /\ Only(p, WithKey(prop[p], k, n))
          /\ prop[p].status = "pending" /\ lastToken' = lastToken
    BY <1>4 DEF Confirms
  <2>2. WithKey(prop[p], k, n).token = prop[p].token
    BY <1>0, KeyUpdates
  <2>3. Exists(p) /\ prop'[p].token = prop[p].token
    BY <1>0, <2>1, <2>2 DEF Only, Exists
  <2>4. \A q \in ProposalIds : q # p => prop'[q] = prop[q]
    BY <1>0, <2>1 DEF Only
  <2> QED
    BY <1>1, <2>1, <2>3, <2>4
<1>5. ASSUME NEW ps \in SUBSET ProposalIds, Drops(ps)
      PROVE  RowTokensIssued' /\ lastToken <= lastToken'
  <2>1. PICK s \in {"expired", "rejected"} :
          /\ prop' = [p \in ProposalIds |->
                        IF p \in ps THEN WithStatus(prop[p], s, NoRun) ELSE prop[p]]
          /\ \A p \in ps : prop[p].status \in {"pending", "confirmed"}
          /\ lastToken' = lastToken
    BY <1>5 DEF Drops
  <2>2. \A p \in ps : Exists(p) /\ prop'[p].token = prop[p].token
    BY <1>0, <2>1, StatusUpdates, StatusNames DEF Exists
  <2>3. \A p \in ProposalIds \ ps : prop'[p] = prop[p]
    BY <2>1
  <2> QED
    BY <1>1, <2>1, <2>2, <2>3
<1>6. ASSUME NEW p \in ProposalIds, NEW s \in Statuses, NEW e \in Executors \cup {NoRun},
             Only(p, WithStatus(prop[p], s, e)), Exists(p), lastToken' = lastToken
      PROVE  RowTokensIssued' /\ lastToken <= lastToken'
  <2>1. WithStatus(prop[p], s, e).token = prop[p].token
    BY <1>0, StatusUpdates
  <2> QED
    BY <1>0, <1>1, <1>6, <2>1 DEF Only
<1>7. ASSUME NEW p \in ProposalIds, NEW e \in Executors, Claims(p, e) \/ Fills(p, e)
      PROVE  RowTokensIssued' /\ lastToken <= lastToken'
  <2>1. {"processing", "executed"} \subseteq Statuses
    BY DEF Statuses
  <2> QED
    BY <1>6, <1>7, <2>1 DEF Claims, Fills, Exists
<1>8. ASSUME NEW p \in ProposalIds, Releases(p)
      PROVE  RowTokensIssued' /\ lastToken <= lastToken'
  BY <1>6, <1>8, StatusNames DEF Releases, Exists
<1> QED
  BY <1>2, <1>3, <1>4, <1>5, <1>7, <1>8 DEF RowTransition

LEMMA CallTokensStep ==
  CallTokensIssued /\ Core /\ [Next]_vars /\ lastToken <= lastToken' /\ lastToken' \in Nat
    => CallTokensIssued'
<1> SUFFICES ASSUME CallTokensIssued, Core, [Next]_vars,
                    lastToken <= lastToken', lastToken' \in Nat,
                    NEW w \in WebSessions, call'[w].op = "confirm"
             PROVE  call'[w].key.token <= lastToken'
  BY DEF CallTokensIssued
<1>0. /\ call \in [WebSessions -> Calls] /\ lastToken \in Nat
      /\ call[w].op = "confirm" => call[w].key.token \in Nat
  BY InFlight DEF Core, Typed, TypeOK, Tokens, Keys
<1>1. CASE call'[w] = call[w]
  BY <1>0, <1>1 DEF CallTokensIssued
<1>2. ASSUME NEW v \in WebSessions, NEW p \in ProposalIds, NEW k \in Keys,
             ConfirmBegin(v, p, k)
      PROVE  call'[w].key.token <= lastToken'
  <2>1. CASE v = w
    BY <1>0, <1>2, <2>1 DEF ConfirmBegin
  <2>2. CASE v # w
    BY <1>0, <1>1, <1>2, <2>2 DEF ConfirmBegin
  <2> QED
    BY <2>1, <2>2
<1>3. CASE call'[w] = NoCall
  BY <1>3 DEF NoCall
<1>4. ASSUME NEW v \in WebSessions, NEW s \in Sources, CreateBegin(v, s)
      PROVE  call'[w] = call[w]
  BY <1>0, <1>4 DEF CreateBegin
<1>5. ASSUME NEW v \in WebSessions, CreateFinish(v) \/ ConfirmFinish(v)
      PROVE  call'[w] = call[w] \/ call'[w] = NoCall
  BY <1>0, <1>5 DEF CreateFinish, ConfirmFinish
<1>6. CASE UNCHANGED call
  BY <1>1, <1>6
<1> QED
  BY <1>1, <1>2, <1>3, <1>4, <1>5, <1>6
     DEF vars, Next, Web, Execute, Advance, ScopeChange, Cancel, Begin, Claim, Check, Fill, Rollback

Issued == Settled /\ RowTokensIssued /\ CallTokensIssued

LEMMA IssuedStep == Issued /\ [Next]_vars => Issued' /\ RowTransition
<1> SUFFICES ASSUME Issued, [Next]_vars PROVE Issued' /\ RowTransition
  OBVIOUS
<1>1. RowTransition
  BY Transitions DEF Issued, Settled
<1>2. Settled'
  BY SettledStep DEF Issued
<1>3. RowTokensIssued' /\ lastToken <= lastToken'
  BY <1>1, RowTokensStep DEF Issued, Settled
<1>4. lastToken' \in Nat
  BY <1>2 DEF Settled, Core, Typed, TypeOK, Tokens
<1> QED
  BY <1>1, <1>2, <1>3, <1>4, CallTokensStep DEF Issued, Settled

(* Every token a row carries or a request in flight names was handed out.    *)
THEOREM IssuedInvariant == Spec => []Issued
<1>1. Init => RowTokensIssued /\ CallTokensIssued
  BY DEF Init, RowTokensIssued, CallTokensIssued, Exists, NoRow, NoCall
<1>2. Init => Settled
  BY TypedInit, OwnedInit
     DEF Settled, Core, Init, ExecutedIffTraded, GrantsAreCurrent, HasTrade, NoRow, Grants
<1>3. Init => Issued
  BY <1>1, <1>2 DEF Issued
<1> QED
  BY <1>3, IssuedStep, PTL DEF Spec

-----------------------------------------------------------------------------
(* An executed row is nobody's to write any more.                            *)
LEMMA ExecutedRowsStay ==
  Settled /\ RowTransition =>
    \A p \in ProposalIds : prop[p].status = "executed" => prop'[p] = prop[p]
<1> SUFFICES ASSUME Settled, RowTransition,
                    NEW p \in ProposalIds, prop[p].status = "executed"
             PROVE  prop'[p] = prop[p]
  OBVIOUS
<1>0. prop \in [ProposalIds -> Row] /\ HasTrade(p)
  BY DEF Settled, Core, Typed, TypeOK, ExecutedIffTraded
<1>1. ASSUME NEW q \in ProposalIds, Offers(q)
      PROVE  prop'[p] = prop[p]
  BY <1>0, <1>1 DEF Offers, Only, Exists
<1>2. ASSUME NEW q \in ProposalIds, Confirms(q) \/ Releases(q)
      PROVE  prop'[p] = prop[p]
  BY <1>0, <1>2 DEF Confirms, Releases, Only
<1>3. ASSUME NEW ps \in SUBSET ProposalIds, Drops(ps)
      PROVE  prop'[p] = prop[p]
  BY <1>0, <1>3 DEF Drops
<1>4. ASSUME NEW q \in ProposalIds, NEW e \in Executors, Claims(q, e) \/ Fills(q, e)
      PROVE  prop'[p] = prop[p]
  BY <1>0, <1>4 DEF Claims, Fills, Only
<1> QED
  BY <1>1, <1>2, <1>3, <1>4 DEF RowTransition, RowsStay

LEMMA FinalStep == Issued /\ RowTransition => FinalUnlessReoffered
<1> SUFFICES ASSUME Issued, RowTransition, NEW p \in ProposalIds
             PROVE  /\ prop[p].status = "executed" => prop'[p] = prop[p]
                    /\ prop[p].status \in {"expired", "rejected"} /\ prop'[p] # prop[p] =>
                         /\ IsBuy(p) /\ prop'[p].status = "pending"
                         /\ \A w \in WebSessions :
                              call[w].op = "confirm" => call[w].key.token # prop'[p].token
  BY DEF FinalUnlessReoffered
<1>0. /\ prop \in [ProposalIds -> Row] /\ lastToken \in Nat
      /\ \A w \in WebSessions : call[w].op = "confirm" => call[w].key.token \in Nat
  BY InFlight DEF Issued, Settled, Core, Typed, TypeOK, Tokens, Keys
<1>1. prop[p].status = "executed" => prop'[p] = prop[p]
  BY ExecutedRowsStay DEF Issued
<1>2. ASSUME prop[p].status \in {"expired", "rejected"}, prop'[p] # prop[p]
      PROVE  \E q \in ProposalIds : Offers(q)
  <2>1. \A q \in ProposalIds : ~Confirms(q) /\ ~Releases(q)
    BY <1>0, <1>2 DEF Confirms, Releases, Only
  <2>2. \A ps \in SUBSET ProposalIds : ~Drops(ps)
    BY <1>0, <1>2 DEF Drops
  <2>3. \A q \in ProposalIds, e \in Executors : ~Claims(q, e) /\ ~Fills(q, e)
    BY <1>0, <1>2 DEF Claims, Fills, Only
  <2> QED
    BY <1>2, <2>1, <2>2, <2>3 DEF RowTransition, RowsStay
<1>3. ASSUME prop[p].status \in {"expired", "rejected"}, prop'[p] # prop[p]
      PROVE  /\ IsBuy(p) /\ prop'[p].status = "pending"
             /\ \A w \in WebSessions :
                  call[w].op = "confirm" => call[w].key.token # prop'[p].token
  <2>1. PICK q \in ProposalIds, s \in Sources, x \in Nat, d \in Nat :
          /\ Only(q, PendingRow(s, x, d, lastToken + 1))
          /\ ~Exists(q) \/ IsBuy(q)
          /\ lastToken' = lastToken + 1 /\ lastToken' \in Tokens
    BY <1>2, <1>3 DEF Offers
  <2>2. q = p
    BY <1>0, <1>3, <2>1 DEF Only
  <2>3. /\ PendingRow(s, x, d, lastToken + 1).status = "pending"
        /\ PendingRow(s, x, d, lastToken + 1).token = lastToken + 1
    BY <2>1, NewRows
  <2>4. prop'[p].status = "pending" /\ prop'[p].token = lastToken + 1
    BY <1>0, <2>1, <2>2, <2>3 DEF Only
  <2>5. IsBuy(p)
    BY <1>3, <2>1, <2>2 DEF Exists
  <2> QED
    BY <1>0, <2>4, <2>5 DEF Issued, CallTokensIssued
<1> QED
  BY <1>1, <1>3

(* Whatever late request, retry or run comes, an executed row never changes  *)
(* and a dropped one only comes back as a new offer of a buy signal.         *)
THEOREM FinalRowsStayFinal == Spec => FinalStaysFinal
<1>1. Issued /\ [Next]_vars => [FinalUnlessReoffered]_vars
  BY IssuedStep, FinalStep
<1> QED
  BY <1>1, IssuedInvariant, PTL DEF Spec, FinalStaysFinal

-----------------------------------------------------------------------------
(* What apply read before it waited for the account still holds of the row.  *)
InTime(e) ==
  /\ txn[e].at \in OpenTicks /\ txn[e].at <= clock
  /\ prop[txn[e].proposal].source \in BuySignals
       \/ txn[e].at < prop[txn[e].proposal].expires_at

CheckedInTime == \A e \in Executors : txn[e].phase = "checked" => InTime(e)

LEMMA CheckedStep ==
  CheckedInTime /\ Settled /\ Settled' /\ RowTransition /\ [Next]_vars => CheckedInTime'
<1> SUFFICES ASSUME CheckedInTime, Settled, Settled', RowTransition, [Next]_vars,
                    NEW e \in Executors, txn'[e].phase = "checked"
             PROVE  InTime(e)'
  BY DEF CheckedInTime
<1>0. /\ TypeOK /\ TypeOK' /\ ProcessingIsOwned /\ ProcessingIsOwned'
      /\ prop \in [ProposalIds -> Row] /\ txn \in [Executors -> Txns] /\ clock \in Nat
  BY DEF Settled, Core, Typed, TypeOK, Ticks
<1>1. clock <= clock'
  BY <1>0 DEF vars, Next, Web, Execute, Advance, ScopeChange, CreateBegin, CreateFinish,
              ConfirmBegin, ConfirmFinish, Cancel, Begin, Claim, Check, Fill, Rollback
<1>2. CASE txn'[e] = txn[e]
  <2> DEFINE p == txn[e].proposal
  <2>1. p \in ProposalIds /\ txn[e].at \in Nat
    BY <1>0, <1>2, InFlight DEF Ticks
  <2>2. prop[p].status = "processing" /\ prop'[p].status = "processing"
    BY <1>0, <1>2, <2>1 DEF ProcessingIsOwned, HeldBy
  <2>3. prop'[p].source = prop[p].source /\ prop'[p].expires_at = prop[p].expires_at
    <3>1. \A q \in ProposalIds : Offers(q) => prop'[p] = prop[p]
      BY <1>0, <2>1, <2>2 DEF Offers, Only, Exists
    <3>2. \A q \in ProposalIds : Confirms(q) => prop'[p] = prop[p]
      BY <1>0, <2>1, <2>2 DEF Confirms, Only
    <3>3. \A ps \in SUBSET ProposalIds : Drops(ps) => prop'[p] = prop[p]
      BY <1>0, <2>1, <2>2 DEF Drops
    <3>4. \A q \in ProposalIds, f \in Executors : Claims(q, f) => prop'[p] = prop[p]
      BY <1>0, <2>1, <2>2 DEF Claims, Only
    <3>5. ASSUME NEW q \in ProposalIds, NEW s \in Statuses, NEW f \in Executors \cup {NoRun},
                 Only(q, WithStatus(prop[q], s, f))
          PROVE  prop'[p].source = prop[p].source /\ prop'[p].expires_at = prop[p].expires_at
      BY <1>0, <2>1, <3>5, StatusUpdates DEF Only
    <3>6. "executed" \in Statuses /\ "confirmed" \in Statuses
      BY DEF Statuses
    <3>7. ASSUME NEW q \in ProposalIds, NEW f \in Executors, Fills(q, f)
          PROVE  prop'[p].source = prop[p].source /\ prop'[p].expires_at = prop[p].expires_at
      BY <3>5, <3>6, <3>7 DEF Fills
    <3>8. ASSUME NEW q \in ProposalIds, Releases(q)
          PROVE  prop'[p].source = prop[p].source /\ prop'[p].expires_at = prop[p].expires_at
      BY <3>5, <3>6, <3>8 DEF Releases
    <3> QED
      BY <3>1, <3>2, <3>3, <3>4, <3>7, <3>8 DEF RowTransition, RowsStay
  <2>4. clock' \in Nat
    BY <1>0 DEF TypeOK, Ticks
  <2> QED
    BY <1>0, <1>1, <1>2, <2>1, <2>3, <2>4 DEF CheckedInTime, InTime, Ticks
<1>3. CASE Check(e)
  <2> DEFINE p == txn[e].proposal
  <2>1. p \in ProposalIds /\ prop[p].expires_at \in Nat
    BY <1>0, <1>3, InFlight DEF Check, Row
  <2>2. txn'[e] = [phase |-> "checked", at |-> clock, proposal |-> p]
    BY <1>0, <1>3 DEF Check
  <2>3. SessionOpen /\ clock' = clock /\ prop' = prop /\ (~Lapsed(p) \/ IsBuy(p))
    BY <1>3 DEF Check
  <2> QED
    BY <1>0, <2>1, <2>2, <2>3 DEF InTime, SessionOpen, Lapsed, IsBuy
<1>4. ASSUME NEW f \in Executors, f # e,
             \/ Begin(f) \/ Check(f) \/ Rollback(f)
             \/ (\E p \in ProposalIds : Claim(f, p)) \/ (\E q \in Ticks : Fill(f, q))
      PROVE  txn'[e] = txn[e]
  BY <1>0, <1>4 DEF Begin, Claim, Check, Fill, Rollback
<1>5. ~(\/ Begin(e) \/ Rollback(e)
        \/ (\E p \in ProposalIds : Claim(e, p)) \/ (\E q \in Ticks : Fill(e, q)))
  BY <1>0 DEF Begin, Claim, Fill, Rollback, NoTxn
<1> QED
  BY <1>2, <1>3, <1>4, <1>5
     DEF vars, Next, Web, Execute, Advance, ScopeChange, CreateBegin, CreateFinish,
         ConfirmBegin, ConfirmFinish, Cancel

Dated == BuysTradeOnTheirDate /\ SalesCheckedBeforeExpiry

LEMMA DatedStep == Dated /\ CheckedInTime /\ Settled /\ RowTransition => Dated'
<1> SUFFICES ASSUME Dated, CheckedInTime, Settled, RowTransition, NEW t \in trades'
             PROVE  /\ IsBuy(t.proposal)' =>
                         /\ prop'[t.proposal].for_trade_date = TradeDate[t.at]
                         /\ t.quote \in OpenTicks /\ TradeDate[t.quote] = TradeDate[t.at]
                         /\ t.quote <= t.at /\ t.at <= t.quote + QuoteAge
                    /\ ~IsBuy(t.proposal)' =>
                         /\ t.checked \in OpenTicks
                         /\ t.checked < prop'[t.proposal].expires_at
                         /\ t.checked <= t.at /\ t.at \in OpenTicks
                         /\ t.quote \in OpenTicks /\ TradeDate[t.quote] = TradeDate[t.at]
  BY DEF Dated, BuysTradeOnTheirDate, SalesCheckedBeforeExpiry
<1>0. /\ prop \in [ProposalIds -> Row] /\ clock \in Nat
      /\ \A u \in trades : u.proposal \in ProposalIds
  BY DEF Settled, Core, Typed, TypeOK, Trades, Ticks
<1>1. CASE t \in trades
  <2>1. prop'[t.proposal] = prop[t.proposal]
    BY <1>0, <1>1, ExecutedRowsStay DEF Settled, ExecutedIffTraded, HasTrade
  <2> QED
    BY <1>1, <2>1 DEF Dated, BuysTradeOnTheirDate, SalesCheckedBeforeExpiry, IsBuy
<1>2. CASE t \notin trades
  <2>1. PICK p \in ProposalIds, e \in Executors : Fills(p, e)
    BY <1>2 DEF RowTransition, RowsStay, Offers, Confirms, Releases, Drops, Claims
  <2>2. PICK q \in Ticks :
          /\ FreshQuote(q)
          /\ trades' = trades \cup
               {[proposal |-> p, key |-> prop[p].key, run |-> e,
                 checked |-> txn[e].at, quote |-> q, at |-> clock]}
    BY <2>1 DEF Fills
  <2>3. t.proposal = p /\ t.checked = txn[e].at /\ t.quote = q /\ t.at = clock
    BY <1>2, <2>2
  <2>4. prop[p] \in Row /\ "executed" \in Statuses
    BY <1>0 DEF Statuses
  <2>5. prop'[p] = WithStatus(prop[p], "executed", e)
    BY <1>0, <2>1 DEF Fills, Only
  <2>6. /\ prop'[p].source = prop[p].source
        /\ prop'[p].for_trade_date = prop[p].for_trade_date
        /\ prop'[p].expires_at = prop[p].expires_at
    BY <2>4, <2>5, StatusUpdates
  <2>7. /\ txn[e].at \in OpenTicks /\ txn[e].at <= clock
        /\ ~IsBuy(p) => txn[e].at < prop[p].expires_at
    BY <2>1 DEF CheckedInTime, InTime, IsBuy, Fills
  <2>8. IF IsBuy(p) THEN prop[p].for_trade_date = Today ELSE SessionOpen
    BY <2>1 DEF Fills
  <2> QED
    BY <1>0, <2>2, <2>3, <2>6, <2>7, <2>8 DEF IsBuy, SessionOpen, Today, FreshQuote
<1> QED
  BY <1>1, <1>2

LEMMA DatedAlways == Spec => []Dated
<1>1. Init => Dated /\ CheckedInTime
  BY DEF Init, Dated, BuysTradeOnTheirDate, SalesCheckedBeforeExpiry, CheckedInTime, NoTxn
<1>2. Dated /\ CheckedInTime /\ Issued /\ [Next]_vars => Dated' /\ CheckedInTime'
  BY IssuedStep, DatedStep, CheckedStep DEF Issued
<1> QED
  BY <1>1, <1>2, IssuedInvariant, PTL DEF Spec

(* A buy fills on the date it was proposed for, at a price of that session.  *)
THEOREM TradesAreDated == Spec => []BuysTradeOnTheirDate
<1>1. Dated => BuysTradeOnTheirDate BY DEF Dated
<1>2. QED BY <1>1, DatedAlways, PTL

(* Every other proposal fills after a check that found it not expired,       *)
(* however long the executor then waits for the account.                     *)
THEOREM SalesAreChecked == Spec => []SalesCheckedBeforeExpiry
<1>1. Dated => SalesCheckedBeforeExpiry BY DEF Dated
<1>2. QED BY <1>1, DatedAlways, PTL

-----------------------------------------------------------------------------
(* A row keeps its source and its key, and comes alive only as an offer.     *)
Tame(p) ==
  /\ Exists(p) /\ prop'[p].source = prop[p].source
  /\ prop'[p].status \in Live => prop[p].status \in Live

LEMMA OneLiveStep == OneLiveRowPerSource /\ Core /\ RowTransition => OneLiveRowPerSource'
<1> SUFFICES ASSUME OneLiveRowPerSource, Core, RowTransition
             PROVE  OneLiveRowPerSource'
  OBVIOUS
<1>0. prop \in [ProposalIds -> Row]
  BY DEF Core, Typed, TypeOK
<1>1. ASSUME \A p \in ProposalIds :
               prop'[p] = prop[p] \/ (Tame(p) /\ prop'[p].key = prop[p].key)
      PROVE  OneLiveRowPerSource'
  <2>1. \A p \in ProposalIds : Exists(p)' =>
          /\ Exists(p) /\ prop'[p].source = prop[p].source /\ prop'[p].key = prop[p].key
          /\ prop'[p].status \in Live => prop[p].status \in Live
    BY <1>1 DEF Tame, Exists
  <2> QED
    BY <2>1 DEF OneLiveRowPerSource
<1>2. CASE RowsStay
  BY <1>1, <1>2 DEF RowsStay
<1>3. ASSUME NEW p \in ProposalIds, Offers(p)
      PROVE  OneLiveRowPerSource'
  <2>1. PICK s \in Sources, x \in Nat, d \in Nat :
          /\ Only(p, PendingRow(s, x, d, lastToken + 1))
          /\ (~Exists(p) /\ InsertAllowed(s)) \/ (Exists(p) /\ IsBuy(p) /\ prop[p].source = s)
          /\ lastToken' = lastToken + 1 /\ lastToken' \in Tokens
    BY <1>3 DEF Offers, Exists
  <2>2. /\ PendingRow(s, x, d, lastToken + 1).source = s
        /\ PendingRow(s, x, d, lastToken + 1).key = NoKey
    BY <2>1, NewRows
  <2>3. prop'[p].source = s /\ prop'[p].key = NoKey
    BY <1>0, <2>1, <2>2 DEF Only
  <2>4. \A q \in ProposalIds : q # p => prop'[q] = prop[q]
    BY <1>0, <2>1 DEF Only
  <2>5. \A q \in ProposalIds : q # p /\ Exists(q) /\ prop[q].source = s =>
          s \in Positions /\ prop[q].status \notin Live
    <3>1. CASE InsertAllowed(s)
      BY <3>1 DEF InsertAllowed, RowsOf
    <3>2. CASE Exists(p) /\ IsBuy(p) /\ prop[p].source = s
      BY <3>2, SourcesAreDistinct DEF OneLiveRowPerSource, IsBuy, Signals
    <3> QED
      BY <2>1, <3>1, <3>2
  <2> QED
    BY <2>3, <2>4, <2>5 DEF OneLiveRowPerSource, Exists
<1>4. ASSUME NEW p \in ProposalIds, Confirms(p)
      PROVE  OneLiveRowPerSource'
  <2>1. PICK k \in Keys, n \in Nat :
          /\ Only(p, WithKey(prop[p], k, n)) /\ prop[p].status = "pending"
          /\ \A q \in ProposalIds : q # p => prop[q].key # k
    BY <1>4 DEF Confirms
  <2>2. /\ Exists(p) /\ prop'[p].source = prop[p].source /\ prop'[p].key = k
        /\ prop[p].status \in Live
    BY <1>0, <2>1, KeyUpdates DEF Only, Exists, Live
  <2>3. \A q \in ProposalIds : q # p => prop'[q] = prop[q]
    BY <1>0, <2>1 DEF Only
  <2> QED
    BY <2>1, <2>2, <2>3 DEF OneLiveRowPerSource, Exists
<1>5. ASSUME NEW ps \in SUBSET ProposalIds, Drops(ps)
      PROVE  OneLiveRowPerSource'
  <2>1. PICK s \in {"expired", "rejected"} :
          /\ prop' = [p \in ProposalIds |->
                        IF p \in ps THEN WithStatus(prop[p], s, NoRun) ELSE prop[p]]
          /\ \A p \in ps : prop[p].status \in {"pending", "confirmed"}
    BY <1>5 DEF Drops
  <2>2. \A p \in ps : Tame(p) /\ prop'[p].key = prop[p].key
    BY <1>0, <2>1, StatusUpdates, StatusNames DEF Tame, Exists, Live
  <2>3. \A p \in ProposalIds \ ps : prop'[p] = prop[p]
    BY <2>1
  <2> QED
    BY <1>1, <2>2, <2>3
<1>6. ASSUME NEW p \in ProposalIds, NEW s \in Statuses, NEW e \in Executors \cup {NoRun},
             Only(p, WithStatus(prop[p], s, e)), prop[p].status \in Live
      PROVE  OneLiveRowPerSource'
  <2>1. Tame(p) /\ prop'[p].key = prop[p].key
    BY <1>0, <1>6, StatusUpdates DEF Only, Tame, Exists, Live
  <2>2. \A q \in ProposalIds : q # p => prop'[q] = prop[q]
    BY <1>0, <1>6 DEF Only
  <2> QED
    BY <1>1, <2>1, <2>2
<1>7. {"processing", "executed", "confirmed"} \subseteq Statuses
  BY DEF Statuses
<1>8. ASSUME NEW p \in ProposalIds, NEW e \in Executors, Claims(p, e) \/ Fills(p, e)
      PROVE  OneLiveRowPerSource'
  BY <1>6, <1>7, <1>8 DEF Claims, Fills, Live
<1>9. ASSUME NEW p \in ProposalIds, Releases(p)
      PROVE  OneLiveRowPerSource'
  BY <1>6, <1>7, <1>9 DEF Releases, Live
<1> QED
  BY <1>2, <1>3, <1>4, <1>5, <1>8, <1>9 DEF RowTransition

(* However creates, re-arms and confirmations interleave: one row per signal,*)
(* one live row per position, one row per confirmation key.                  *)
THEOREM SourcesAreNotDoubled == Spec => []OneLiveRowPerSource
<1>1. Init => OneLiveRowPerSource
  BY DEF Init, OneLiveRowPerSource, Exists, NoRow
<1>2. OneLiveRowPerSource /\ Issued /\ [Next]_vars => OneLiveRowPerSource'
  BY IssuedStep, OneLiveStep DEF Issued, Settled
<1> QED
  BY <1>1, <1>2, IssuedInvariant, PTL DEF Spec

-----------------------------------------------------------------------------
(* The refinement, row by row: what a transition does to a row's offer, its  *)
(* grant and its trade.                                                      *)

SpentOf(p) == IF HasTrade(p) THEN GrantOf(p) ELSE 0

SameAuthority(p) ==
  /\ prop'[p].token = prop[p].token
  /\ GrantOf(p)' = GrantOf(p)
  /\ SpentOf(p)' = SpentOf(p)

LEMMA SameRowSameAuthority ==
  ASSUME NEW p \in ProposalIds, prop'[p] = prop[p], HasTrade(p)' = HasTrade(p)
  PROVE  SameAuthority(p)
  BY DEF SameAuthority, GrantOf, SpentOf, HasTrade, IsBuy

(* Everything a granted row's authority is computed from but its run.        *)
LEMMA GrantedRowsKeepAuthority ==
  ASSUME Issued, NEW p \in ProposalIds, NEW s \in Grants \cap Statuses,
         NEW e \in Executors \cup {NoRun},
         prop[p].status \in Grants, prop'[p] = WithStatus(prop[p], s, e)
  PROVE  prop'[p].token = prop[p].token /\ GrantOf(p)' = GrantOf(p)
<1>1. prop[p] \in Row
  BY DEF Issued, Settled, Core, Typed, TypeOK
<1>2. /\ prop'[p].status \in Grants /\ prop'[p].token = prop[p].token
      /\ prop'[p].key = prop[p].key /\ prop'[p].source = prop[p].source
  BY <1>1, StatusUpdates
<1> QED
  BY <1>2 DEF GrantOf, IsBuy

LEMMA AuthorityStep == Issued /\ RowTransition => [Authority!Next]_(Authority!avars)
<1> SUFFICES ASSUME Issued, RowTransition PROVE [Authority!Next]_(Authority!avars)
  OBVIOUS
<1>0. /\ prop \in [ProposalIds -> Row] /\ lastToken \in Nat
      /\ \A p \in ProposalIds : prop[p].status = "executed" <=> HasTrade(p)
      /\ \A p \in ProposalIds : Exists(p) => prop[p].token # 0
  BY DEF Issued, Settled, Core, Typed, TypeOK, Tokens, ExecutedIffTraded, RowTokensIssued
<1>1. ASSUME lastToken' = lastToken, \A p \in ProposalIds : SameAuthority(p)
      PROVE  UNCHANGED Authority!avars
  BY <1>1 DEF Authority!avars, SameAuthority, SpentOf
<1>2. CASE RowsStay
  <2>1. \A p \in ProposalIds : SameAuthority(p)
    BY <1>2, SameRowSameAuthority DEF RowsStay, HasTrade
  <2> QED
    BY <1>1, <1>2, <2>1 DEF RowsStay
<1>3. ASSUME NEW p \in ProposalIds, Offers(p)
      PROVE  Authority!Next
  <2>1. PICK s \in Sources, x \in Nat, d \in Nat :
          /\ Only(p, PendingRow(s, x, d, lastToken + 1))
          /\ ~Exists(p) \/ ~HasTrade(p)
          /\ lastToken' = lastToken + 1 /\ lastToken' \in Tokens /\ trades' = trades
    BY <1>3 DEF Offers
  <2>2. /\ PendingRow(s, x, d, lastToken + 1).status = "pending"
        /\ PendingRow(s, x, d, lastToken + 1).token = lastToken + 1
    BY <2>1, NewRows
  <2>3. prop'[p].status = "pending" /\ prop'[p].token = lastToken + 1
    BY <1>0, <2>1, <2>2 DEF Only
  <2>4. ~HasTrade(p) /\ ~HasTrade(p)'
    BY <1>0, <2>1 DEF Exists, HasTrade
  <2>5. \A q \in ProposalIds : q # p => SameAuthority(q)
    BY <1>0, <2>1, SameRowSameAuthority DEF Only, HasTrade
  <2>6. GrantOf(p)' = 0 /\ SpentOf(p) = 0 /\ SpentOf(p)' = 0
    BY <2>3, <2>4 DEF GrantOf, Grants, SpentOf
  <2>7. Authority!Offer(p)
    BY <2>1, <2>3, <2>5, <2>6 DEF Authority!Offer, SameAuthority, SpentOf
  <2> QED
    BY <2>7 DEF Authority!Next
<1>4. ASSUME NEW p \in ProposalIds, Confirms(p)
      PROVE  Authority!Next
  <2>1. PICK k \in Keys, n \in Nat :
          /\ Only(p, WithKey(prop[p], k, n)) /\ prop[p].status = "pending"
          /\ IsBuy(p) => k.token = prop[p].token
          /\ lastToken' = lastToken /\ trades' = trades
    BY <1>4 DEF Confirms
  <2>2. /\ prop'[p].status = "confirmed" /\ prop'[p].key = k
        /\ prop'[p].token = prop[p].token /\ prop'[p].source = prop[p].source
    BY <1>0, <2>1, KeyUpdates DEF Only
  <2>3. ~HasTrade(p) /\ ~HasTrade(p)'
    BY <1>0, <2>1 DEF HasTrade
  <2>4. \A q \in ProposalIds : q # p => SameAuthority(q)
    BY <1>0, <2>1, SameRowSameAuthority DEF Only, HasTrade
  <2>5. GrantOf(p) = 0 /\ SpentOf(p) = 0 /\ SpentOf(p)' = 0
    BY <2>1, <2>3 DEF GrantOf, Grants, SpentOf
  <2>6. GrantOf(p)' = prop[p].token
    BY <2>1, <2>2 DEF GrantOf, Grants, IsBuy
  <2>7. prop[p].token # 0
    BY <1>0, <2>1 DEF Exists
  <2>8. Authority!Grant(p)
    BY <2>1, <2>2, <2>4, <2>5, <2>6, <2>7 DEF Authority!Grant, SameAuthority, SpentOf
  <2> QED
    BY <2>8 DEF Authority!Next
<1>5. ASSUME NEW ps \in SUBSET ProposalIds, Drops(ps)
      PROVE  Authority!Next
  <2>1. PICK s \in {"expired", "rejected"} :
          /\ prop' = [p \in ProposalIds |->
                        IF p \in ps THEN WithStatus(prop[p], s, NoRun) ELSE prop[p]]
          /\ \A p \in ps : prop[p].status \in {"pending", "confirmed"}
          /\ lastToken' = lastToken /\ trades' = trades
    BY <1>5 DEF Drops
  <2>2. \A p \in ps : prop'[p].status = s /\ prop'[p].token = prop[p].token
    BY <1>0, <2>1, StatusUpdates, StatusNames
  <2>3. \A p \in ps : ~HasTrade(p) /\ ~HasTrade(p)'
    BY <1>0, <2>1 DEF HasTrade
  <2>4. \A p \in ps : GrantOf(p)' = 0 /\ SpentOf(p) = 0 /\ SpentOf(p)' = 0
    BY <2>2, <2>3 DEF GrantOf, Grants, SpentOf
  <2>5. \A q \in ProposalIds : q \notin ps => SameAuthority(q)
    BY <2>1, SameRowSameAuthority DEF HasTrade
  <2>6. Authority!Withdraw(ps)
    BY <2>1, <2>2, <2>4, <2>5 DEF Authority!Withdraw, SameAuthority, SpentOf
  <2> QED
    BY <2>6 DEF Authority!Next
<1>6. ASSUME NEW p \in ProposalIds, NEW s \in Grants \cap Statuses,
             NEW e \in Executors \cup {NoRun}, prop[p].status \in Grants,
             Only(p, WithStatus(prop[p], s, e)), trades' = trades, lastToken' = lastToken
      PROVE  UNCHANGED Authority!avars
  <2>1. prop'[p].token = prop[p].token /\ GrantOf(p)' = GrantOf(p)
    BY <1>0, <1>6, GrantedRowsKeepAuthority DEF Only
  <2>2. SameAuthority(p)
    BY <1>6, <2>1 DEF SameAuthority, SpentOf, HasTrade
  <2>3. \A q \in ProposalIds : q # p => SameAuthority(q)
    BY <1>0, <1>6, SameRowSameAuthority DEF Only, HasTrade
  <2> QED
    BY <1>1, <1>6, <2>2, <2>3
<1>7. {"processing", "confirmed", "executed"} \subseteq Grants \cap Statuses
  BY DEF Grants, Statuses
<1>8. ASSUME NEW p \in ProposalIds, NEW e \in Executors, Claims(p, e)
      PROVE  UNCHANGED Authority!avars
  BY <1>6, <1>7, <1>8 DEF Claims
<1>9. ASSUME NEW p \in ProposalIds, Releases(p)
      PROVE  UNCHANGED Authority!avars
  BY <1>6, <1>7, <1>9 DEF Releases
<1>10. ASSUME NEW p \in ProposalIds, NEW e \in Executors, Fills(p, e)
       PROVE  Authority!Next
  <2>1. prop'[p] = WithStatus(prop[p], "executed", e)
    BY <1>0, <1>10 DEF Fills, Only
  <2>2. prop[p].status \in Grants
    BY <1>7, <1>10 DEF Fills
  <2>3. prop'[p].token = prop[p].token /\ GrantOf(p)' = GrantOf(p)
    BY <1>7, <2>1, <2>2, GrantedRowsKeepAuthority
  <2>4. ~HasTrade(p) /\ HasTrade(p)' /\ \A q \in ProposalIds : q # p => HasTrade(q)' = HasTrade(q)
    <3>1. PICK t : t.proposal = p /\ trades' = trades \cup {t}
      BY <1>10 DEF Fills
    <3>2. ~HasTrade(p)
      BY <1>10 DEF Fills
    <3>3. HasTrade(p)' /\ \A q \in ProposalIds : q # p => (HasTrade(q)' <=> HasTrade(q))
      BY <3>1 DEF HasTrade
    <3> QED
      BY <3>2, <3>3 DEF HasTrade
  <2>5. \A q \in ProposalIds : q # p => SameAuthority(q)
    BY <1>0, <1>10, <2>4, SameRowSameAuthority DEF Fills, Only
  <2>6. SpentOf(p) = 0 /\ SpentOf(p)' = GrantOf(p)
    BY <2>3, <2>4 DEF SpentOf
  <2>7. GrantOf(p) = prop[p].token
    BY <2>2 DEF GrantOf, Issued, Settled, GrantsAreCurrent
  <2>8. prop[p].token # 0
    BY <1>0, <1>10 DEF Fills, Exists
  <2>9. lastToken' = lastToken
    BY <1>10 DEF Fills
  <2>10. Authority!Trade(p)
    BY <2>3, <2>5, <2>6, <2>7, <2>8, <2>9 DEF Authority!Trade, SameAuthority, SpentOf
  <2> QED
    BY <2>10 DEF Authority!Next
<1> QED
  BY <1>2, <1>3, <1>4, <1>5, <1>8, <1>9, <1>10 DEF RowTransition

(* Every history of the proposal functions is one of offers, grants,         *)
(* withdrawals and trades that each spend the grant of the current offer.    *)
THEOREM Refinement == Spec => ImplementsAuthority
<1>1. Init => Authority!Init
  BY DEF Init, Authority!Init, GrantOf, Grants, HasTrade, NoRow
<1>2. Issued /\ [Next]_vars => [Authority!Next]_(Authority!avars)
  BY IssuedStep, AuthorityStep
<1> QED
  BY <1>1, <1>2, IssuedInvariant, PTL DEF Spec, ImplementsAuthority, Authority!Spec
=============================================================================
