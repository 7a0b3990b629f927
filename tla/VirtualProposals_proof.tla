----------------------- MODULE VirtualProposals_proof -----------------------
(***************************************************************************)
(* Proofs about VirtualProposals, for every number of rows, sessions and   *)
(* runs and every calendar.                                                *)
(***************************************************************************)
EXTENDS VirtualProposals, TLAPS

USE ClockAssumption

(* A granted row carries the key it was confirmed with.                      *)
GrantsAreKeyed ==
  \A p \in ProposalIds : prop[p].status \in Grants => prop[p].key \in Keys

(* A row stays a row under the updates the functions make of it.            *)
LEMMA StatusUpdates ==
  ASSUME NEW r \in Row, NEW s \in Statuses, NEW e \in Executors \cup {NoRun}
  PROVE  /\ WithStatus(r, s, e) \in Row
         /\ WithStatus(r, s, e).status = s
         /\ WithStatus(r, s, e).run = e
         /\ WithStatus(r, s, e).key = r.key
         /\ WithStatus(r, s, e).token = r.token
         /\ WithStatus(r, s, e).source = r.source
         /\ WithStatus(r, s, e).expires_at = r.expires_at
         /\ WithStatus(r, s, e).for_trade_date = r.for_trade_date
  BY DEF WithStatus, Row

LEMMA KeyUpdates ==
  ASSUME NEW r \in Row, NEW k \in Keys, NEW n \in Nat
  PROVE  /\ WithKey(r, k, n) \in Row
         /\ WithKey(r, k, n).status = "confirmed"
         /\ WithKey(r, k, n).key = k
         /\ WithKey(r, k, n).run = r.run
         /\ WithKey(r, k, n).token = r.token
         /\ WithKey(r, k, n).source = r.source
         /\ WithKey(r, k, n).expires_at = r.expires_at
         /\ WithKey(r, k, n).for_trade_date = r.for_trade_date
<1>1. "confirmed" \in Statuses
  BY DEF Statuses
<1> QED
  BY <1>1 DEF WithKey, Row

LEMMA RowUpdates ==
  /\ \A r \in Row, s \in Statuses, e \in Executors \cup {NoRun} :
       /\ WithStatus(r, s, e) \in Row
       /\ WithStatus(r, s, e).status = s
       /\ WithStatus(r, s, e).run = e
       /\ WithStatus(r, s, e).key = r.key
       /\ WithStatus(r, s, e).token = r.token
       /\ WithStatus(r, s, e).source = r.source
       /\ WithStatus(r, s, e).expires_at = r.expires_at
       /\ WithStatus(r, s, e).for_trade_date = r.for_trade_date
  /\ \A r \in Row, k \in Keys, n \in Nat :
       /\ WithKey(r, k, n) \in Row
       /\ WithKey(r, k, n).status = "confirmed"
       /\ WithKey(r, k, n).key = k
       /\ WithKey(r, k, n).run = r.run
       /\ WithKey(r, k, n).token = r.token
       /\ WithKey(r, k, n).source = r.source
       /\ WithKey(r, k, n).expires_at = r.expires_at
       /\ WithKey(r, k, n).for_trade_date = r.for_trade_date
  BY StatusUpdates, KeyUpdates

LEMMA NewRows ==
  ASSUME NEW s \in Sources, NEW x \in Nat, NEW d \in Nat, NEW t \in Tokens
  PROVE  /\ PendingRow(s, x, d, t) \in Row
         /\ PendingRow(s, x, d, t).status = "pending"
         /\ PendingRow(s, x, d, t).source = s
         /\ PendingRow(s, x, d, t).key = NoKey
         /\ PendingRow(s, x, d, t).run = NoRun
         /\ PendingRow(s, x, d, t).token = t
  BY DEF PendingRow, NoRow, Row, Statuses, Tokens

LEMMA StatusNames ==
  {"pending", "confirmed", "processing", "executed", "expired", "rejected"} \subseteq Statuses
  BY DEF Statuses

Typed == TypeOK /\ GrantsAreKeyed

LEMMA TypedInit == Init => Typed
  BY DEF Init, Typed, TypeOK, GrantsAreKeyed, Grants, Ticks, Tokens, NoRow, Row,
         NoCall, Calls, NoTxn, Txns, Statuses

(* What a request or a transaction in flight names is of the right kind.     *)
LEMMA InFlight ==
  ASSUME TypeOK
  PROVE  /\ \A w \in WebSessions : call[w].op = "create" =>
              call[w].source \in Sources /\ call[w].at \in Ticks
         /\ \A w \in WebSessions : call[w].op = "confirm" =>
              call[w].proposal \in ProposalIds /\ call[w].key \in Keys /\ call[w].at \in Ticks
         /\ \A e \in Executors : txn[e].phase = "begun" => txn[e].at \in Ticks
         /\ \A e \in Executors : txn[e].phase = "claimed" =>
              txn[e].proposal \in ProposalIds
         /\ \A e \in Executors : txn[e].phase = "checked" =>
              txn[e].proposal \in ProposalIds /\ txn[e].at \in Ticks
  BY DEF TypeOK, Calls, NoCall, Txns, NoTxn

LEMMA TypedStep == Typed /\ ProcessingIsOwned /\ [Next]_vars => Typed'
<1> SUFFICES ASSUME Typed, ProcessingIsOwned, [Next]_vars PROVE Typed'
  OBVIOUS
<1> USE InFlight DEF Typed, TypeOK, GrantsAreKeyed
<1>1. CASE UNCHANGED vars
  BY <1>1 DEF vars
<1>2. CASE Advance
  BY <1>2 DEF Advance, Ticks
<1>3. CASE ScopeChange
  BY <1>3 DEF ScopeChange
<1>4. ASSUME NEW w \in WebSessions, NEW s \in Sources, CreateBegin(w, s)
      PROVE  Typed'
  BY <1>4 DEF CreateBegin, Calls
<1>5. ASSUME NEW w \in WebSessions, CreateFinish(w)
      PROVE  Typed'
  <2> DEFINE c == call[w]
  <2>1. c.source \in Sources /\ c.at \in Ticks
    BY <1>5 DEF CreateFinish
  <2>2. call' \in [WebSessions -> Calls]
    BY <1>5 DEF CreateFinish, Calls
  <2>3. ASSUME NEW p \in ProposalIds, CreateInsert(w, p) \/ CreateRearm(w, p)
        PROVE  prop' \in [ProposalIds -> Row] /\ lastToken' \in Tokens /\ GrantsAreKeyed'
    <3>1. lastToken + 1 \in Tokens
      BY <2>3 DEF CreateInsert, CreateRearm, Tokens
    <3>2. \A x \in Nat :
            /\ PendingRow(c.source, x, TradeDate[c.at], lastToken + 1) \in Row
            /\ PendingRow(c.source, x, TradeDate[c.at], lastToken + 1).status \notin Grants
      BY <2>1, <3>1 DEF PendingRow, NoRow, Row, Statuses, Tokens, Grants
    <3>3. c.at + Ttl \in Nat /\ clock + Ttl \in Nat
      BY <2>1 DEF Ticks
    <3> QED
      BY <2>3, <3>1, <3>2, <3>3 DEF CreateInsert, CreateRearm
  <2> QED
    BY <1>5, <2>2, <2>3 DEF CreateFinish, CreateRefused
<1>6. ASSUME NEW w \in WebSessions, NEW p \in ProposalIds, NEW k \in Keys,
             ConfirmBegin(w, p, k)
      PROVE  Typed'
  BY <1>6 DEF ConfirmBegin, Calls
<1>7. ASSUME NEW w \in WebSessions, ConfirmFinish(w)
      PROVE  Typed'
  <2> DEFINE c == call[w]
  <2>1. c.proposal \in ProposalIds /\ c.key \in Keys /\ c.at \in Nat
    BY <1>7 DEF ConfirmFinish, Ticks
  <2>2. CASE ConfirmAccepted(c)
    <3> DEFINE r == WithKey(prop[c.proposal], c.key, c.at)
    <3>1. r \in Row /\ r.key = c.key
      BY <2>1, RowUpdates
    <3>2. prop' = [prop EXCEPT ![c.proposal] = r]
      BY <2>2 DEF ConfirmAccepted
    <3> HIDE DEF r
    <3> QED
      BY <1>7, <2>1, <3>1, <3>2 DEF ConfirmFinish, Calls
  <2>3. CASE ConfirmExpires(c)
    <3> DEFINE r == WithStatus(prop[c.proposal], "expired", NoRun)
    <3>1. r \in Row /\ r.status \notin Grants
      BY <2>1, RowUpdates, StatusNames DEF Grants
    <3>2. prop' = [prop EXCEPT ![c.proposal] = r]
      BY <2>3 DEF ConfirmExpires
    <3> HIDE DEF r
    <3> QED
      BY <1>7, <2>1, <3>1, <3>2 DEF ConfirmFinish, Calls
  <2>4. CASE ConfirmUnchanged(c)
    BY <1>7, <2>4 DEF ConfirmFinish, ConfirmUnchanged, Calls
  <2> QED
    BY <1>7, <2>2, <2>3, <2>4 DEF ConfirmFinish
<1>8. ASSUME NEW ps \in SUBSET ProposalIds, Cancel(ps)
      PROVE  Typed'
  <2>1. \A p \in ProposalIds :
          /\ WithStatus(prop[p], "rejected", NoRun) \in Row
          /\ WithStatus(prop[p], "rejected", NoRun).status \notin Grants
    BY RowUpdates, StatusNames DEF Grants
  <2> QED
    BY <1>8, <2>1 DEF Cancel
<1>9. ASSUME NEW e \in Executors, Begin(e)
      PROVE  Typed'
  <2>1. [phase |-> "begun", at |-> clock] \in Txns
    BY DEF Txns
  <2> QED
    BY <1>9, <2>1 DEF Begin
<1>10. ASSUME NEW e \in Executors, NEW p \in ProposalIds, Claim(e, p)
       PROVE  Typed'
  <2>1. [phase |-> "claimed", proposal |-> p] \in Txns
    BY DEF Txns
  <2> DEFINE r == WithStatus(prop[p], "processing", e)
  <2>2. r \in Row /\ r.key = prop[p].key
    BY RowUpdates, StatusNames
  <2>3. prop[p].key \in Keys
    BY <1>10 DEF Claim, Grants
  <2>4. prop' = [prop EXCEPT ![p] = r]
    BY <1>10 DEF Claim
  <2> HIDE DEF r
  <2>5. GrantsAreKeyed'
    BY <2>2, <2>3, <2>4
  <2> QED
    BY <1>10, <2>1, <2>2, <2>4, <2>5 DEF Claim
<1>13. ASSUME NEW e \in Executors, Check(e)
       PROVE  Typed'
  <2>1. [phase |-> "checked", at |-> clock, proposal |-> txn[e].proposal] \in Txns
    BY <1>13 DEF Check, Txns
  <2> QED
    BY <1>13, <2>1 DEF Check
<1>11. ASSUME NEW e \in Executors, NEW q \in Ticks, Fill(e, q)
       PROVE  Typed'
  <2> DEFINE p == txn[e].proposal
  <2>1. p \in ProposalIds /\ prop[p].key \in Keys /\ txn[e].at \in Ticks
    BY <1>11 DEF Fill, ProcessingIsOwned, HeldBy, Grants
  <2> DEFINE r == WithStatus(prop[p], "executed", e)
  <2>2. prop' = [prop EXCEPT ![p] = r]
    BY <1>11 DEF Fill
  <2>3. r \in Row /\ r.key = prop[p].key
    <3>1. prop[p] \in Row /\ "executed" \in Statuses
      BY <2>1 DEF Statuses
    <3> QED
      BY <3>1, StatusUpdates
  <2> HIDE DEF r
  <2>4. prop' \in [ProposalIds -> Row] /\ GrantsAreKeyed'
    BY <2>1, <2>2, <2>3
  <2>5. [proposal |-> p, key |-> prop[p].key, run |-> e,
         checked |-> txn[e].at, quote |-> q, at |-> clock] \in Trades
    BY <2>1 DEF Trades
  <2>6. txn' \in [Executors -> Txns]
    BY <1>11 DEF Fill, Txns
  <2> HIDE DEF p
  <2> QED
    BY <1>11, <2>4, <2>5, <2>6 DEF Fill, p
<1>12. ASSUME NEW e \in Executors, Rollback(e)
       PROVE  Typed'
  <2>1. \A p \in ProposalIds : HeldBy(e, p) => prop[p].key \in Keys
    BY DEF ProcessingIsOwned, Grants
  <2>2. \A p \in ProposalIds :
          /\ WithStatus(prop[p], "confirmed", NoRun) \in Row
          /\ WithStatus(prop[p], "confirmed", NoRun).key = prop[p].key
    BY RowUpdates, StatusNames
  <2>3. prop' \in [ProposalIds -> Row] /\ GrantsAreKeyed'
    BY <1>12, <2>1, <2>2 DEF Rollback
  <2>4. txn' \in [Executors -> Txns]
    BY <1>12 DEF Rollback, Txns
  <2> QED
    BY <1>12, <2>3, <2>4 DEF Rollback
<1> QED
  BY <1>1, <1>2, <1>3, <1>4, <1>5, <1>6, <1>7, <1>8, <1>9, <1>10, <1>11, <1>12, <1>13
     DEF Next, Web, Execute

(* Only Claim, Fill and Rollback touch a row some transaction holds.         *)
LEMMA OwnedStep == TypeOK /\ ProcessingIsOwned /\ [Next]_vars => ProcessingIsOwned'
<1> SUFFICES ASSUME TypeOK, ProcessingIsOwned, [Next]_vars PROVE ProcessingIsOwned'
  OBVIOUS
<1> USE InFlight DEF TypeOK, ProcessingIsOwned, HeldBy
<1>1. CASE UNCHANGED <<prop, txn>>
  BY <1>1
<1>2. ASSUME NEW w \in WebSessions, CreateFinish(w)
      PROVE  ProcessingIsOwned'
  <2>1. CASE UNCHANGED prop
    BY <1>2, <2>1 DEF CreateFinish
  <2>2. ASSUME NEW p \in ProposalIds, CreateInsert(w, p) \/ CreateRearm(w, p)
        PROVE  ProcessingIsOwned'
    <3>1. \A e \in Executors : ~HeldBy(e, p)
      BY <2>2 DEF CreateInsert, CreateRearm, Exists, RearmAllowed
    <3>2. \A x, d, k : PendingRow(call[w].source, x, d, k).status # "processing"
      BY DEF PendingRow, NoRow
    <3>3. \A q \in ProposalIds : prop'[q] = prop[q] \/ q = p
      BY <2>2 DEF CreateInsert, CreateRearm
    <3>4. prop'[p].status # "processing"
      BY <2>2, <3>2 DEF CreateInsert, CreateRearm
    <3> QED
      BY <1>2, <3>1, <3>3, <3>4 DEF CreateFinish
  <2> QED
    BY <1>2, <2>1, <2>2 DEF CreateFinish, CreateRefused
<1>3. ASSUME NEW w \in WebSessions, ConfirmFinish(w)
      PROVE  ProcessingIsOwned'
  <2> DEFINE p == call[w].proposal
  <2>1. prop'[p] = prop[p] \/ prop'[p].status # "processing"
    <3>1. p \in ProposalIds /\ call[w].key \in Keys /\ call[w].at \in Nat
      BY <1>3 DEF ConfirmFinish, Ticks
    <3>2. /\ WithKey(prop[p], call[w].key, call[w].at).status # "processing"
          /\ WithStatus(prop[p], "expired", NoRun).status # "processing"
      <4>1. prop[p] \in Row /\ "expired" \in Statuses /\ "expired" # "processing"
        BY <3>1 DEF Statuses
      <4> QED
        BY <3>1, <4>1, StatusUpdates, KeyUpdates
    <3> QED
      BY <1>3, <3>1, <3>2 DEF ConfirmFinish, ConfirmAccepted, ConfirmExpires, ConfirmUnchanged
  <2>2. \A q \in ProposalIds : prop'[q] = prop[q] \/ q = p
    BY <1>3 DEF ConfirmFinish, ConfirmAccepted, ConfirmExpires, ConfirmUnchanged
  <2>3. \A e \in Executors : ~HeldBy(e, p)
    BY <1>3 DEF ConfirmFinish, Locked
  <2> QED
    BY <1>3, <2>1, <2>2, <2>3 DEF ConfirmFinish
<1>4. ASSUME NEW ps \in SUBSET ProposalIds, Cancel(ps)
      PROVE  ProcessingIsOwned'
  <2>1. ASSUME NEW p \in ProposalIds
        PROVE  WithStatus(prop[p], "rejected", NoRun).status # "processing"
    <3>1. prop[p] \in Row /\ "rejected" \in Statuses
      BY DEF Statuses
    <3> QED
      BY <3>1, StatusUpdates
  <2> QED
    BY <1>4, <2>1 DEF Cancel, Locked
<1>5. ASSUME NEW e \in Executors, Begin(e)
      PROVE  ProcessingIsOwned'
  BY <1>5 DEF Begin, NoTxn
<1>6. ASSUME NEW e \in Executors, NEW p \in ProposalIds, Claim(e, p)
      PROVE  ProcessingIsOwned'
  <2>1. prop'[p].status = "processing" /\ prop'[p].run = e
    <3>1. /\ WithStatus(prop[p], "processing", e).status = "processing"
          /\ WithStatus(prop[p], "processing", e).run = e
      BY RowUpdates, StatusNames
    <3> QED
      BY <1>6, <3>1 DEF Claim
  <2>2. \A q \in ProposalIds : q # p => prop'[q] = prop[q]
    BY <1>6 DEF Claim
  <2>3. txn'[e].phase = "claimed" /\ txn'[e].proposal = p
    BY <1>6 DEF Claim
  <2>4. \A f \in Executors : f # e => txn'[f] = txn[f]
    BY <1>6 DEF Claim
  <2>5. txn[e].phase = "begun" /\ \A f \in Executors : ~HeldBy(f, p)
    BY <1>6 DEF Claim, Locked
  <2> QED
    BY <2>1, <2>2, <2>3, <2>4, <2>5
<1>8. ASSUME NEW e \in Executors, Check(e)
      PROVE  ProcessingIsOwned'
  <2>1. prop' = prop /\ \A f \in Executors, p \in ProposalIds : HeldBy(f, p)' <=> HeldBy(f, p)
    BY <1>8 DEF Check
  <2> QED
    BY <2>1
<1>7. ASSUME NEW e \in Executors, (\E q \in Ticks : Fill(e, q)) \/ Rollback(e)
      PROVE  ProcessingIsOwned'
  <2>1. txn' = [txn EXCEPT ![e] = NoTxn]
    BY <1>7 DEF Fill, Rollback
  <2>2. \A q \in ProposalIds :
          IF HeldBy(e, q) THEN prop'[q].status # "processing" ELSE prop'[q] = prop[q]
    <3>1. ASSUME NEW q \in ProposalIds
          PROVE  /\ WithStatus(prop[q], "executed", e).status # "processing"
                 /\ WithStatus(prop[q], "confirmed", NoRun).status # "processing"
      <4>1. prop[q] \in Row
        OBVIOUS
      <4>2. "executed" \in Statuses /\ "confirmed" \in Statuses
        BY DEF Statuses
      <4>3. WithStatus(prop[q], "executed", e).status = "executed"
        BY <4>1, <4>2, StatusUpdates
      <4>4. WithStatus(prop[q], "confirmed", NoRun).status = "confirmed"
        BY <4>1, <4>2, StatusUpdates
      <4> QED
        BY <4>3, <4>4
    <3>2. CASE \E q \in Ticks : Fill(e, q)
      BY <3>1, <3>2 DEF Fill
    <3>3. CASE Rollback(e)
      BY <3>1, <3>3 DEF Rollback
    <3> QED
      BY <1>7, <3>2, <3>3
  <2>3. \A f \in Executors, q \in ProposalIds : HeldBy(f, q) /\ HeldBy(e, q) => f = e
    OBVIOUS
  <2> QED
    BY <2>1, <2>2, <2>3 DEF NoTxn
<1> QED
  BY <1>1, <1>2, <1>3, <1>4, <1>5, <1>6, <1>7, <1>8
     DEF vars, Next, Web, Execute, Advance, ScopeChange, CreateBegin, ConfirmBegin

LEMMA OwnedInit == Init => ProcessingIsOwned
  BY DEF Init, ProcessingIsOwned, NoRow, NoTxn, HeldBy

Core == Typed /\ ProcessingIsOwned

(* The inductive invariant the others rest on: types, keyed grants, and rows *)
(* in processing held by the transaction written on them.                    *)
THEOREM CoreInvariant == Spec => []Core
<1>1. Init => Core
  BY TypedInit, OwnedInit DEF Core
<1>2. Core /\ [Next]_vars => Core'
  BY TypedStep, OwnedStep DEF Core, Typed
<1> QED
  BY <1>1, <1>2, PTL DEF Spec

(* Every variable keeps to its columns' types, in every reachable state.     *)
THEOREM TypeCorrect == Spec => []TypeOK
  BY CoreInvariant, PTL DEF Core, Typed

(* No claim outlives its transaction, and no two runs hold one row.          *)
THEOREM ClaimsAreOwned == Spec => []ProcessingIsOwned
  BY CoreInvariant, PTL DEF Core

-----------------------------------------------------------------------------
(* What a step can do to the rows, whichever request or run takes it: the    *)
(* transition table of the guard trigger, with the fields that move.         *)

RowsStay == prop' = prop /\ trades' = trades /\ lastToken' = lastToken

Only(p, r) ==
  /\ p \in ProposalIds /\ r \in Row
  /\ prop' = [prop EXCEPT ![p] = r]

Offers(p) ==
  \E s \in Sources, x \in Nat, d \in Nat :
    /\ Only(p, PendingRow(s, x, d, lastToken + 1))
    /\ \/ ~Exists(p) /\ InsertAllowed(s)
       \/ /\ IsBuy(p) /\ prop[p].source = s /\ ~HasTrade(p)
          /\ prop[p].status \in {"pending", "confirmed", "expired", "rejected"}
    /\ lastToken' = lastToken + 1 /\ lastToken' \in Tokens
    /\ trades' = trades

Confirms(p) ==
  \E k \in Keys, n \in Nat :
    /\ Only(p, WithKey(prop[p], k, n))
    /\ prop[p].status = "pending"
    /\ IsBuy(p) => k.token = prop[p].token
    /\ \A q \in ProposalIds : q # p => prop[q].key # k
    /\ lastToken' = lastToken /\ trades' = trades

Drops(ps) ==
  \E s \in {"expired", "rejected"} :
    /\ prop' = [p \in ProposalIds |->
                  IF p \in ps THEN WithStatus(prop[p], s, NoRun) ELSE prop[p]]
    /\ \A p \in ps : p \in ProposalIds /\ prop[p].status \in {"pending", "confirmed"}
    /\ lastToken' = lastToken /\ trades' = trades

Claims(p, e) ==
  /\ Only(p, WithStatus(prop[p], "processing", e))
  /\ prop[p].status = "confirmed"
  /\ lastToken' = lastToken /\ trades' = trades

Fills(p, e) ==
  /\ Only(p, WithStatus(prop[p], "executed", e))
  /\ prop[p].status = "processing" /\ prop[p].run = e /\ ~HasTrade(p)
  /\ txn[e].phase = "checked" /\ txn[e].proposal = p
  /\ IF IsBuy(p) THEN prop[p].for_trade_date = Today ELSE SessionOpen
  /\ \E q \in Ticks :
       /\ FreshQuote(q)
       /\ trades' = trades \cup
            {[proposal |-> p, key |-> prop[p].key, run |-> e,
              checked |-> txn[e].at, quote |-> q, at |-> clock]}
  /\ lastToken' = lastToken

Releases(p) ==
  /\ Only(p, WithStatus(prop[p], "confirmed", NoRun))
  /\ prop[p].status = "processing"
  /\ lastToken' = lastToken /\ trades' = trades

RowTransition ==
  \/ RowsStay
  \/ \E p \in ProposalIds : Offers(p) \/ Confirms(p) \/ Releases(p)
  \/ \E ps \in SUBSET ProposalIds : Drops(ps)
  \/ \E p \in ProposalIds, e \in Executors : Claims(p, e) \/ Fills(p, e)

LEMMA Transitions == Core /\ [Next]_vars => RowTransition
<1> SUFFICES ASSUME Core, [Next]_vars PROVE RowTransition
  OBVIOUS
<1> USE DEF Core, Typed
<1>0. TypeOK /\ \A p \in ProposalIds : prop[p] \in Row
  BY DEF TypeOK
<1>1. CASE UNCHANGED <<prop, trades, lastToken>>
  BY <1>1 DEF RowTransition, RowsStay
<1>2. ASSUME NEW w \in WebSessions, CreateFinish(w)
      PROVE  RowTransition
  <2> DEFINE c == call[w]
  <2>1. c.source \in Sources /\ c.at \in Ticks
    BY <1>0, <1>2, InFlight DEF CreateFinish
  <2>2. ASSUME NEW p \in ProposalIds, CreateInsert(w, p) \/ CreateRearm(w, p)
        PROVE  Offers(p)
    <3>1. TradeDate[c.at] \in Nat /\ c.at + Ttl \in Nat /\ clock + Ttl \in Nat
      BY <1>0, <2>1 DEF TypeOK, Ticks
    <3>2. lastToken + 1 \in Tokens /\ lastToken' = lastToken + 1 /\ trades' = trades
      BY <1>0, <1>2, <2>2 DEF CreateInsert, CreateRearm, CreateFinish, TypeOK, Tokens
    <3>3. \A x \in Nat : PendingRow(c.source, x, TradeDate[c.at], lastToken + 1) \in Row
      BY <2>1, <3>1, <3>2, NewRows
    <3>4. CASE CreateInsert(w, p)
      <4>1. prop' = [prop EXCEPT ![p] =
                       PendingRow(c.source, c.at + Ttl, TradeDate[c.at], lastToken + 1)]
        BY <3>4 DEF CreateInsert
      <4>2. ~Exists(p) /\ InsertAllowed(c.source)
        BY <3>4 DEF CreateInsert
      <4> QED
        BY <2>1, <3>1, <3>2, <3>3, <4>1, <4>2 DEF Offers, Only
    <3>5. CASE CreateRearm(w, p)
      <4>1. prop' = [prop EXCEPT ![p] =
                       PendingRow(c.source, clock + Ttl, TradeDate[c.at], lastToken + 1)]
        BY <3>5 DEF CreateRearm
      <4>2. /\ IsBuy(p) /\ prop[p].source = c.source /\ ~HasTrade(p)
            /\ prop[p].status \in {"pending", "confirmed", "expired", "rejected"}
        BY <3>5 DEF CreateRearm, RearmAllowed, RowsOf
      <4> QED
        BY <2>1, <3>1, <3>2, <3>3, <4>1, <4>2 DEF Offers, Only
    <3> QED
      BY <2>2, <3>4, <3>5
  <2>3. CASE CreateRefused(w)
    BY <1>2, <2>3 DEF CreateFinish, CreateRefused, RowTransition, RowsStay
  <2> QED
    BY <1>2, <2>2, <2>3 DEF CreateFinish, RowTransition
<1>3. ASSUME NEW w \in WebSessions, ConfirmFinish(w)
      PROVE  RowTransition
  <2> DEFINE c == call[w]
             p == c.proposal
  <2>1. p \in ProposalIds /\ c.key \in Keys /\ c.at \in Nat /\ prop[p] \in Row
    BY <1>0, <1>3, InFlight DEF ConfirmFinish, Ticks
  <2>2. lastToken' = lastToken /\ trades' = trades
    BY <1>3 DEF ConfirmFinish
  <2>3. CASE ConfirmAccepted(c)
    <3>1. prop' = [prop EXCEPT ![p] = WithKey(prop[p], c.key, c.at)]
      BY <2>3 DEF ConfirmAccepted
    <3>2. WithKey(prop[p], c.key, c.at) \in Row
      BY <2>1, KeyUpdates
    <3>3. /\ prop[p].status = "pending"
          /\ IsBuy(p) => c.key.token = prop[p].token
          /\ \A q \in ProposalIds : q # p => prop[q].key # c.key
      BY <2>3 DEF ConfirmAccepted, Confirmable, GenerationCurrent, KeyTaken
    <3>4. Confirms(p)
      BY <2>1, <2>2, <3>1, <3>2, <3>3 DEF Confirms, Only
    <3> QED
      BY <2>1, <3>4 DEF RowTransition
  <2>4. CASE ConfirmExpires(c)
    <3>1. prop' = [q \in ProposalIds |->
                     IF q \in {p} THEN WithStatus(prop[q], "expired", NoRun) ELSE prop[q]]
      BY <1>0, <2>1, <2>4 DEF ConfirmExpires, TypeOK
    <3>2. prop[p].status = "pending"
      BY <2>4 DEF ConfirmExpires, Confirmable
    <3>3. Drops({p})
      BY <2>1, <2>2, <3>1, <3>2 DEF Drops
    <3> QED
      BY <2>1, <3>3 DEF RowTransition
  <2>5. CASE ConfirmUnchanged(c)
    BY <2>2, <2>5 DEF ConfirmUnchanged, RowTransition, RowsStay
  <2> QED
    BY <1>3, <2>3, <2>4, <2>5 DEF ConfirmFinish
<1>4. ASSUME NEW ps \in SUBSET ProposalIds, Cancel(ps)
      PROVE  RowTransition
  <2>1. Drops(ps)
    BY <1>4 DEF Cancel, Cancelable, Drops
  <2> QED
    BY <2>1 DEF RowTransition
<1>5. ASSUME NEW e \in Executors, NEW p \in ProposalIds, Claim(e, p)
      PROVE  RowTransition
  <2>1. prop' = [prop EXCEPT ![p] = WithStatus(prop[p], "processing", e)]
    BY <1>5 DEF Claim
  <2>2. WithStatus(prop[p], "processing", e) \in Row
    BY <1>0, StatusUpdates, StatusNames
  <2>3. Claims(p, e)
    BY <1>5, <2>1, <2>2 DEF Claims, Only, Claim
  <2> QED
    BY <2>3 DEF RowTransition
<1>6. ASSUME NEW e \in Executors, NEW q \in Ticks, Fill(e, q)
      PROVE  RowTransition
  <2> DEFINE p == txn[e].proposal
  <2>1. p \in ProposalIds /\ HeldBy(e, p)
    BY <1>0, <1>6, InFlight DEF Fill, HeldBy
  <2>2. prop' = [prop EXCEPT ![p] = WithStatus(prop[p], "executed", e)]
    BY <1>6 DEF Fill
  <2>3. WithStatus(prop[p], "executed", e) \in Row
    <3>1. prop[p] \in Row /\ "executed" \in Statuses
      BY <1>0, <2>1 DEF Statuses
    <3> QED
      BY <3>1, StatusUpdates
  <2>4. prop[p].status = "processing" /\ prop[p].run = e
    BY <2>1 DEF ProcessingIsOwned
  <2>5. /\ txn[e].phase = "checked" /\ ~HasTrade(p)
        /\ IF IsBuy(p) THEN prop[p].for_trade_date = Today ELSE SessionOpen
        /\ FreshQuote(q)
        /\ trades' = trades \cup
             {[proposal |-> p, key |-> prop[p].key, run |-> e,
               checked |-> txn[e].at, quote |-> q, at |-> clock]}
        /\ lastToken' = lastToken
    BY <1>6 DEF Fill, CurrentScope
  <2>6. txn[e].proposal = p
    OBVIOUS
  <2> HIDE DEF p
  <2>7. Fills(p, e)
    BY <2>1, <2>2, <2>3, <2>4, <2>5, <2>6 DEF Fills, Only
  <2> QED
    BY <2>1, <2>7 DEF RowTransition
<1>7. ASSUME NEW e \in Executors, Rollback(e)
      PROVE  RowTransition
  <2>0. lastToken' = lastToken /\ trades' = trades
    BY <1>7 DEF Rollback
  <2>1. CASE \A p \in ProposalIds : ~HeldBy(e, p)
    <3>1. prop' = prop
      BY <1>0, <1>7, <2>1 DEF Rollback, TypeOK
    <3> QED
      BY <2>0, <3>1 DEF RowTransition, RowsStay
  <2>2. ASSUME NEW p \in ProposalIds, HeldBy(e, p)
        PROVE  RowTransition
    <3>1. \A q \in ProposalIds : HeldBy(e, q) <=> q = p
      BY <2>2 DEF HeldBy
    <3>2. prop' = [prop EXCEPT ![p] = WithStatus(prop[p], "confirmed", NoRun)]
      BY <1>0, <1>7, <3>1 DEF Rollback, TypeOK
    <3>3. WithStatus(prop[p], "confirmed", NoRun) \in Row
      BY <1>0, StatusUpdates, StatusNames
    <3>4. prop[p].status = "processing"
      BY <2>2 DEF ProcessingIsOwned
    <3>5. Releases(p)
      BY <2>0, <3>2, <3>3, <3>4 DEF Releases, Only
    <3> QED
      BY <3>5 DEF RowTransition
  <2> QED
    BY <2>1, <2>2
<1> QED
  BY <1>1, <1>2, <1>3, <1>4, <1>5, <1>6, <1>7
     DEF vars, Next, Web, Execute, Advance, ScopeChange, CreateBegin, ConfirmBegin, Begin, Check

-----------------------------------------------------------------------------
LEMMA ExecutedStep ==
  ExecutedIffTraded /\ Core /\ RowTransition => ExecutedIffTraded'
<1> SUFFICES ASSUME ExecutedIffTraded, Core, RowTransition PROVE ExecutedIffTraded'
  OBVIOUS
<1>0. /\ prop \in [ProposalIds -> Row] /\ trades \subseteq Trades
      /\ \A t \in trades : t.proposal \in ProposalIds
  BY DEF Core, Typed, TypeOK, Trades
<1>1. CASE RowsStay
  BY <1>1 DEF RowsStay, ExecutedIffTraded, HasTrade
<1>2. ASSUME NEW p \in ProposalIds, NEW r \in Row, Only(p, r), trades' = trades,
             prop[p].status # "executed", r.status # "executed"
      PROVE  ExecutedIffTraded'
  <2>1. \A q \in ProposalIds : prop'[q] = IF q = p THEN r ELSE prop[q]
    BY <1>0, <1>2 DEF Only
  <2>2. ~HasTrade(p)
    BY <1>2 DEF ExecutedIffTraded
  <2> QED
    BY <1>0, <1>2, <2>1, <2>2 DEF ExecutedIffTraded, HasTrade
<1>3. ASSUME NEW p \in ProposalIds, Offers(p)
      PROVE  ExecutedIffTraded'
  <2>1. PICK s \in Sources, x \in Nat, d \in Nat :
          /\ Only(p, PendingRow(s, x, d, lastToken + 1))
          /\ \/ ~Exists(p) /\ InsertAllowed(s)
             \/ /\ IsBuy(p) /\ prop[p].source = s /\ ~HasTrade(p)
                /\ prop[p].status \in {"pending", "confirmed", "expired", "rejected"}
          /\ lastToken' = lastToken + 1 /\ lastToken' \in Tokens
          /\ trades' = trades
    BY <1>3 DEF Offers
  <2>2. PendingRow(s, x, d, lastToken + 1).status = "pending"
    BY <2>1, NewRows
  <2>3. PendingRow(s, x, d, lastToken + 1) \in Row /\ prop[p].status # "executed"
    BY <2>1 DEF Only, Exists
  <2> QED
    BY <1>2, <2>1, <2>2, <2>3
<1>4. ASSUME NEW p \in ProposalIds, Confirms(p)
      PROVE  ExecutedIffTraded'
  <2>1. PICK k \in Keys, n \in Nat :
          Only(p, WithKey(prop[p], k, n)) /\ prop[p].status = "pending" /\ trades' = trades
    BY <1>4 DEF Confirms
  <2>2. WithKey(prop[p], k, n) \in Row /\ WithKey(prop[p], k, n).status = "confirmed"
    BY <1>0, KeyUpdates
  <2> QED
    BY <1>2, <2>1, <2>2
<1>5. ASSUME NEW ps \in SUBSET ProposalIds, Drops(ps)
      PROVE  ExecutedIffTraded'
  <2>1. PICK s \in {"expired", "rejected"} :
          /\ prop' = [p \in ProposalIds |->
                        IF p \in ps THEN WithStatus(prop[p], s, NoRun) ELSE prop[p]]
          /\ \A p \in ps : prop[p].status \in {"pending", "confirmed"}
          /\ trades' = trades
    BY <1>5 DEF Drops
  <2>2. \A p \in ps : prop'[p].status # "executed" /\ ~HasTrade(p)
    BY <1>0, <2>1, StatusUpdates, StatusNames DEF ExecutedIffTraded
  <2> QED
    BY <1>0, <2>1, <2>2 DEF ExecutedIffTraded, HasTrade
<1>6. ASSUME NEW p \in ProposalIds, NEW e \in Executors, Claims(p, e)
      PROVE  ExecutedIffTraded'
  <2>1. WithStatus(prop[p], "processing", e).status = "processing"
    BY <1>0, StatusUpdates, StatusNames
  <2> QED
    BY <1>2, <1>6, <2>1 DEF Claims, Only
<1>7. ASSUME NEW p \in ProposalIds, Releases(p)
      PROVE  ExecutedIffTraded'
  <2>1. WithStatus(prop[p], "confirmed", NoRun).status = "confirmed"
    BY <1>0, StatusUpdates, StatusNames
  <2> QED
    BY <1>2, <1>7, <2>1 DEF Releases, Only
<1>8. ASSUME NEW p \in ProposalIds, NEW e \in Executors, Fills(p, e)
      PROVE  ExecutedIffTraded'
  <2> DEFINE r == WithStatus(prop[p], "executed", e)
  <2>1. r.status = "executed" /\ r.key = prop[p].key /\ r.run = e
    <3>1. prop[p] \in Row /\ "executed" \in Statuses
      BY <1>0 DEF Statuses
    <3> QED
      BY <3>1, StatusUpdates
  <2>2. prop'[p] = r /\ \A q \in ProposalIds : q # p => prop'[q] = prop[q]
    BY <1>0, <1>8 DEF Fills, Only
  <2>3. PICK q \in Ticks :
          trades' = trades \cup
            {[proposal |-> p, key |-> prop[p].key, run |-> e,
              checked |-> txn[e].at, quote |-> q, at |-> clock]}
    BY <1>8 DEF Fills
  <2> DEFINE t == [proposal |-> p, key |-> prop[p].key, run |-> e,
                   checked |-> txn[e].at, quote |-> q, at |-> clock]
  <2>4. /\ t.proposal = p /\ t.key = prop[p].key /\ t.run = e
        /\ trades' = trades \cup {t} /\ \A u \in trades : u.proposal # p
    BY <1>8, <2>3 DEF Fills, HasTrade
  <2> HIDE DEF t, r
  <2> QED
    BY <1>0, <2>1, <2>2, <2>4 DEF ExecutedIffTraded, HasTrade
<1> QED
  BY <1>1, <1>3, <1>4, <1>5, <1>6, <1>7, <1>8 DEF RowTransition

(* The key on a granted buy names the offer the row still carries.           *)
GrantsAreCurrent ==
  \A p \in ProposalIds :
    IsBuy(p) /\ prop[p].status \in Grants => prop[p].key.token = prop[p].token

LEMMA CurrentStep ==
  GrantsAreCurrent /\ Core /\ RowTransition => GrantsAreCurrent'
<1> SUFFICES ASSUME GrantsAreCurrent, Core, RowTransition,
                    NEW q \in ProposalIds, IsBuy(q)', prop'[q].status \in Grants
             PROVE  prop'[q].key.token = prop'[q].token
  BY DEF GrantsAreCurrent
<1>0. prop \in [ProposalIds -> Row]
  BY DEF Core, Typed, TypeOK
<1>1. CASE prop'[q] = prop[q]
  BY <1>1 DEF GrantsAreCurrent, IsBuy
<1>2. ASSUME NEW p \in ProposalIds, NEW s \in Statuses, NEW e \in Executors \cup {NoRun},
             prop'[q] = WithStatus(prop[q], s, e), prop[q].status \in Grants
      PROVE  prop'[q].key.token = prop'[q].token
  <2>1. /\ prop'[q].key = prop[q].key /\ prop'[q].token = prop[q].token
        /\ prop'[q].source = prop[q].source
    BY <1>0, <1>2, StatusUpdates
  <2> QED
    BY <1>2, <2>1 DEF GrantsAreCurrent, IsBuy
<1>3. ASSUME NEW p \in ProposalIds, Offers(p)
      PROVE  prop'[q] = prop[q]
  <2>1. PICK s \in Sources, x \in Nat, d \in Nat :
          /\ Only(p, PendingRow(s, x, d, lastToken + 1))
          /\ lastToken' = lastToken + 1 /\ lastToken' \in Tokens
    BY <1>3 DEF Offers
  <2>2. PendingRow(s, x, d, lastToken + 1).status = "pending"
    BY <2>1, NewRows
  <2> QED
    BY <1>0, <2>1, <2>2 DEF Only, Grants
<1>4. ASSUME NEW p \in ProposalIds, Confirms(p), q = p
      PROVE  prop'[q].key.token = prop'[q].token
  <2>1. PICK k \in Keys, n \in Nat :
          Only(p, WithKey(prop[p], k, n)) /\ (IsBuy(p) => k.token = prop[p].token)
    BY <1>4 DEF Confirms
  <2>2. /\ prop'[p] = WithKey(prop[p], k, n)
        /\ prop'[p].key = k /\ prop'[p].token = prop[p].token
        /\ prop'[p].source = prop[p].source
    BY <1>0, <2>1, KeyUpdates DEF Only
  <2> QED
    BY <1>4, <2>1, <2>2 DEF IsBuy
<1>5. ASSUME NEW ps \in SUBSET ProposalIds, Drops(ps)
      PROVE  prop'[q] = prop[q]
  <2>1. PICK s \in {"expired", "rejected"} :
          prop' = [p \in ProposalIds |->
                     IF p \in ps THEN WithStatus(prop[p], s, NoRun) ELSE prop[p]]
    BY <1>5 DEF Drops
  <2>2. WithStatus(prop[q], s, NoRun).status \notin Grants
    BY <1>0, StatusUpdates, StatusNames DEF Grants
  <2> QED
    BY <2>1, <2>2
<1>6. ASSUME NEW p \in ProposalIds, NEW e \in Executors,
             Claims(p, e) \/ Fills(p, e)
      PROVE  prop'[q].key.token = prop'[q].token
  <2>1. CASE q # p
    BY <1>0, <1>1, <1>6, <2>1 DEF Claims, Fills, Only
  <2>2. CASE q = p
    <3>1. {"processing", "executed"} \subseteq Statuses
      BY DEF Statuses
    <3>2. prop[q].status \in Grants
      BY <1>6, <2>2 DEF Claims, Fills, Grants
    <3>3. \E s \in Statuses, f \in Executors \cup {NoRun} :
            prop'[q] = WithStatus(prop[q], s, f)
      BY <1>0, <1>6, <2>2, <3>1 DEF Claims, Fills, Only
    <3> QED
      BY <1>2, <3>2, <3>3
  <2> QED
    BY <2>1, <2>2
<1>7. ASSUME NEW p \in ProposalIds, Releases(p)
      PROVE  prop'[q].key.token = prop'[q].token
  <2>1. CASE q # p
    BY <1>0, <1>1, <1>7, <2>1 DEF Releases, Only
  <2>2. CASE q = p
    <3>1. "confirmed" \in Statuses /\ prop[q].status \in Grants
      BY <1>7, <2>2 DEF Statuses, Releases, Grants
    <3>2. prop'[q] = WithStatus(prop[q], "confirmed", NoRun)
      BY <1>0, <1>7, <2>2 DEF Releases, Only
    <3> QED
      BY <1>2, <3>1, <3>2
  <2> QED
    BY <2>1, <2>2
<1>8. ASSUME NEW p \in ProposalIds, Confirms(p), q # p
      PROVE  prop'[q] = prop[q]
  BY <1>0, <1>8 DEF Confirms, Only
<1> QED
  BY <1>1, <1>3, <1>4, <1>5, <1>6, <1>7, <1>8 DEF RowTransition, RowsStay

(* What is executed and what was granted rests on the row transitions alone. *)
Settled == Core /\ ExecutedIffTraded /\ GrantsAreCurrent

LEMMA SettledStep == Settled /\ [Next]_vars => Settled'
<1> SUFFICES ASSUME Settled, [Next]_vars PROVE Settled'
  OBVIOUS
<1>1. Core'
  BY TypedStep, OwnedStep DEF Settled, Core, Typed
<1>2. RowTransition
  BY Transitions DEF Settled
<1> QED
  BY <1>1, <1>2, ExecutedStep, CurrentStep DEF Settled

(* The strengthened invariant is inductive: trades, keys and offers agree.   *)
THEOREM SettledInvariant == Spec => []Settled
<1>1. Init => Settled
  BY TypedInit, OwnedInit
     DEF Settled, Core, Init, ExecutedIffTraded, GrantsAreCurrent, HasTrade, NoRow, Grants
<1> QED
  BY <1>1, SettledStep, PTL DEF Spec

(* One trade per executed proposal and none elsewhere, for ever.             *)
THEOREM TradesAreExecuted == Spec => []ExecutedIffTraded
  BY SettledInvariant, PTL DEF Settled

(* No late or repeated confirmation gets a re-armed buy filled.              *)
THEOREM ConfirmationsAreCurrent == Spec => []ConfirmedForCurrentOffer
<1>1. Settled => ConfirmedForCurrentOffer
  BY DEF Settled, Core, Typed, GrantsAreKeyed, GrantsAreCurrent, Grants,
         ConfirmedForCurrentOffer
<1> QED
  BY <1>1, SettledInvariant, PTL
=============================================================================
