-------------------------- MODULE VirtualProposals --------------------------
(***************************************************************************)
(* The life of a virtual trade proposal of a human principal: the web      *)
(* functions n6_btrack_proposal_create / _confirm / n6_btrack_proposals_   *)
(* cancel, the executor's claim and apply inside one transaction, and the  *)
(* transition guard trigger.  What the fill does to the account is module  *)
(* VirtualAccount; here apply either commits a trade or is rolled back.    *)
(*                                                                         *)
(* prop is what the row holds, an open transaction's uncommitted update    *)
(* included.  A row an executor transaction has updated is locked until    *)
(* that transaction ends, so every other writer of the row waits for it.   *)
(***************************************************************************)
EXTENDS Naturals

CONSTANTS
  BuySignals,    \* shared buy signals (source_type = 'signal', side 'buy')
  SellSignals,   \* the user's sell signals (source_type = 'signal', side 'sell')
  Positions,     \* open positions sold by hand (source_type = 'manual_position')
  ProposalIds,   \* primary keys the proposal table can hand out
  WebSessions,   \* concurrent web requests
  Executors,     \* concurrent one-shot runs, by executor_run_id
  Nonces,        \* the client part of a confirmation key
  NoSource, NoKey, NoRun,  \* the columns of a row nobody inserted, or NULL
  Ttl,           \* ticks of the 60 seconds a proposal stays open
  QuoteAge,      \* ticks of the 2 minutes a quote counts as fresh
  MaxClock,      \* bound on the wall clock
  MaxToken,      \* bound on the generation tokens handed out
  TradeDate,     \* the local date of every tick
  OpenTicks      \* ticks of an open date within 09:30-11:30 or 13:00-15:00

Ticks   == 0 .. MaxClock
Tokens  == 0 .. MaxToken
Signals == BuySignals \cup SellSignals
Sources == Signals \cup Positions

ASSUME SourcesAreDistinct ==
  /\ BuySignals \cap SellSignals = {}
  /\ Signals \cap Positions = {}
ASSUME ClockAssumption ==
  /\ MaxClock \in Nat /\ MaxToken \in Nat /\ Ttl \in Nat \ {0} /\ QuoteAge \in Nat
  /\ TradeDate \in [Ticks -> Nat]
  /\ OpenTicks \subseteq Ticks
ASSUME NullsAreDistinct ==
  /\ NoRun \notin Executors
  /\ NoSource \notin Sources
  /\ NoKey \notin [token : Tokens, nonce : Nonces]

VARIABLES
  clock,      \* clock_timestamp()
  effective,  \* sources whose scope check passes now (signal scope, sellable lots)
  lastToken,  \* generation tokens handed out so far; gen_random_uuid never repeats
  prop,       \* n6_virtual_trade_proposal, by proposal_id
  trades,     \* n6_virtual_order / n6_virtual_trade rows
  call,       \* the web request each session has in flight
  txn         \* the transaction each executor run has open

vars == <<clock, effective, lastToken, prop, trades, call, txn>>

-----------------------------------------------------------------------------
(* Rows, requests and transactions. *)

Statuses  == {"absent", "pending", "confirmed", "processing",
              "executed", "expired", "rejected"}
Live      == {"pending", "confirmed", "processing"}
Keys      == [token : Tokens, nonce : Nonces]

Row == [status : Statuses, source : Sources \cup {NoSource}, expires_at : Nat,
        confirmed_at : Nat, for_trade_date : Nat, token : Tokens,
        key : Keys \cup {NoKey}, run : Executors \cup {NoRun}]

NoRow == [status |-> "absent", source |-> NoSource, expires_at |-> 0,
          confirmed_at |-> 0, for_trade_date |-> 0, token |-> 0,
          key |-> NoKey, run |-> NoRun]

(* A definition whose comment begins with "Broken" is a variant of the one   *)
(* after it with a mistake in it: no action uses it, it is put in the place  *)
(* of the right one to see that the properties notice.                       *)

(* Broken: the two columns swapped. *)
StatusSwapped(r, s, run) == [r EXCEPT !.status = run, !.run = s]

WithStatus(r, s, run) == [r EXCEPT !.status = s, !.run = run]
WithKey(r, k, at) ==
  [r EXCEPT !.status = "confirmed", !.confirmed_at = at, !.key = k]

NoCall == [op |-> "none"]
Calls  == {NoCall}
     \cup [op : {"create"}, source : Sources, at : Ticks]
     \cup [op : {"confirm"}, proposal : ProposalIds, key : Keys, at : Ticks]

NoTxn == [phase |-> "idle"]
Txns  == {NoTxn}
    \cup [phase : {"begun"}, at : Ticks]
    \cup [phase : {"claimed"}, proposal : ProposalIds]
    \cup [phase : {"checked"}, at : Ticks, proposal : ProposalIds]

(* When apply checked the expiry, the minute of the quote it filled at, and  *)
(* when it filled.                                                           *)
Trades == [proposal : ProposalIds, key : Keys, run : Executors,
           checked : Ticks, quote : Ticks, at : Ticks]

(* Broken: open at expires_at itself. *)
LapsedOneLate(p) == prop[p].expires_at < clock

IsBuy(p)       == prop[p].source \in BuySignals
Exists(p)      == prop[p].status # "absent"
Lapsed(p)      == prop[p].expires_at <= clock
HasTrade(p)    == \E t \in trades : t.proposal = p
HeldBy(e, p)   == txn[e].phase \in {"claimed", "checked"} /\ txn[e].proposal = p
Locked(p)      == \E e \in Executors : HeldBy(e, p)
RowsOf(s)      == {p \in ProposalIds : Exists(p) /\ prop[p].source = s}
SessionOpen    == clock \in OpenTicks
Today          == TradeDate[clock]

(* Broken: a scope check that does not look at the trade date. *)
ScopeOfAnyDate(p) == prop[p].source \in effective

(* n6_btrack_manual_signal_buy_current_scope of the row as it stands. *)
CurrentScope(p) == prop[p].source \in effective /\ prop[p].for_trade_date = Today

-----------------------------------------------------------------------------
Init ==
  /\ clock = 0
  /\ effective = Sources
  /\ lastToken = 0
  /\ prop = [p \in ProposalIds |-> NoRow]
  /\ trades = {}
  /\ call = [w \in WebSessions |-> NoCall]
  /\ txn = [e \in Executors |-> NoTxn]

(* Environment: time passes; batches, monitors and lots change what a scope *)
(* check answers.                                                           *)
Advance ==
  /\ clock < MaxClock
  /\ clock' = clock + 1
  /\ UNCHANGED <<effective, lastToken, prop, trades, call, txn>>

ScopeChange ==
  \E s \in Sources :
    /\ effective' = IF s \in effective THEN effective \ {s} ELSE effective \cup {s}
    /\ UNCHANGED <<clock, lastToken, prop, trades, call, txn>>

-----------------------------------------------------------------------------
(* n6_btrack_proposal_create: the scope and session checks read first, the  *)
(* existing row is locked afterwards.                                       *)

CreateBegin(w, s) ==
  /\ call[w] = NoCall
  /\ s \in effective
  /\ SessionOpen
  /\ call' = [call EXCEPT ![w] = [op |-> "create", source |-> s, at |-> clock]]
  /\ UNCHANGED <<clock, effective, lastToken, prop, trades, txn>>

(* A pending row of source s; now() is the start of the transaction. *)
PendingRow(s, expires, date, token) ==
  [NoRow EXCEPT !.status = "pending", !.source = s, !.expires_at = expires,
                !.for_trade_date = date, !.token = token]

(* Broken: without the index that keeps one row per signal. *)
InsertIfNoneLive(s) == \A p \in RowsOf(s) : prop[p].status \notin Live

(* The unique indexes: a signal has one row for ever, any source one live row. *)
InsertAllowed(s) ==
  \A p \in RowsOf(s) : s \in Positions /\ prop[p].status \notin Live

(* Broken: any terminal row may be offered again, an executed one too. *)
RearmAnyTerminal(p, c) ==
  /\ IsBuy(p)
  /\ prop[p].status \in {"expired", "rejected", "executed"} \/ Lapsed(p)
  /\ c.source \in effective /\ TradeDate[c.at] = Today

(* A buy signal's row may go back to pending under a new token: it never     *)
(* traded, and it is terminal or its 60 seconds are over.  The guard trigger *)
(* asks for date and scope again as the row is written.                      *)
RearmAllowed(p, c) ==
  /\ IsBuy(p)
  /\ ~HasTrade(p)
  /\ \/ prop[p].status \in {"expired", "rejected"}
     \/ prop[p].status \in {"pending", "confirmed"} /\ Lapsed(p)
  /\ c.source \in effective /\ TradeDate[c.at] = Today

CreateInsert(w, p) ==
  LET c == call[w] IN
  /\ ~Exists(p) /\ InsertAllowed(c.source)
  /\ lastToken < MaxToken
  /\ lastToken' = lastToken + 1
  /\ prop' = [prop EXCEPT ![p] =
                PendingRow(c.source, c.at + Ttl, TradeDate[c.at], lastToken + 1)]

CreateRearm(w, p) ==
  LET c == call[w] IN
  /\ p \in RowsOf(c.source) /\ RearmAllowed(p, c)
  /\ lastToken < MaxToken
  /\ lastToken' = lastToken + 1
  /\ prop' = [prop EXCEPT ![p] =
                PendingRow(c.source, clock + Ttl, TradeDate[c.at], lastToken + 1)]

(* Conflict, or the trigger raised; also where a bound of the model is met. *)
CreateRefused(w) ==
  LET c == call[w] IN
  /\ \/ ~InsertAllowed(c.source)
     \/ lastToken = MaxToken
     \/ \A p \in ProposalIds : Exists(p)
  /\ lastToken = MaxToken \/ \A p \in RowsOf(c.source) : ~RearmAllowed(p, c)
  /\ UNCHANGED <<lastToken, prop>>

CreateFinish(w) ==
  /\ call[w].op = "create"
  /\ \A p \in RowsOf(call[w].source) : ~Locked(p)
  /\ \/ \E p \in ProposalIds : CreateInsert(w, p) \/ CreateRearm(w, p)
     \/ CreateRefused(w)
  /\ call' = [call EXCEPT ![w] = NoCall]
  /\ UNCHANGED <<clock, effective, trades, txn>>

-----------------------------------------------------------------------------
(* n6_btrack_proposal_confirm.  A request may carry any token ever handed    *)
(* out: a page left open, a retry, a duplicate.                              *)

ConfirmBegin(w, p, k) ==
  /\ call[w] = NoCall
  /\ Exists(p)
  /\ k.token <= lastToken
  /\ call' = [call EXCEPT ![w] =
                [op |-> "confirm", proposal |-> p, key |-> k, at |-> clock]]
  /\ UNCHANGED <<clock, effective, lastToken, prop, trades, txn>>

(* Broken: the token in the key is not compared. *)
GenerationIgnored(p, k) == CurrentScope(p)

(* The checks a buy passes before its status is looked at; the guard trigger *)
(* repeats the one on the token.                                             *)
GenerationCurrent(p, k) == k.token = prop[p].token /\ CurrentScope(p)

Confirmable(c) ==
  /\ SessionOpen
  /\ prop[c.proposal].status = "pending"
  /\ IsBuy(c.proposal) => GenerationCurrent(c.proposal, c.key)

(* now() is read when the transaction starts, before the row lock is got. *)
LapsedAtStart(c) == prop[c.proposal].expires_at <= c.at

KeyTaken(c) == \E q \in ProposalIds : q # c.proposal /\ prop[q].key = c.key

ConfirmAccepted(c) ==
  /\ Confirmable(c) /\ ~LapsedAtStart(c) /\ ~KeyTaken(c)
  /\ prop' = [prop EXCEPT ![c.proposal] = WithKey(@, c.key, c.at)]

ConfirmExpires(c) ==
  /\ Confirmable(c) /\ LapsedAtStart(c)
  /\ prop' = [prop EXCEPT ![c.proposal] = WithStatus(@, "expired", NoRun)]

(* Not ready, conflict, the idempotent answer to the key it was confirmed    *)
(* with, or the unique index raised: the row stays as it is.                 *)
ConfirmUnchanged(c) ==
  /\ ~Confirmable(c) \/ (~LapsedAtStart(c) /\ KeyTaken(c))
  /\ UNCHANGED prop

ConfirmFinish(w) ==
  /\ call[w].op = "confirm"
  /\ ~Locked(call[w].proposal)
  /\ LET c == call[w] IN
       ConfirmAccepted(c) \/ ConfirmExpires(c) \/ ConfirmUnchanged(c)
  /\ call' = [call EXCEPT ![w] = NoCall]
  /\ UNCHANGED <<clock, effective, lastToken, trades, txn>>

-----------------------------------------------------------------------------
(* n6_btrack_proposals_cancel: every named row is locked and cancelable, or  *)
(* none is touched.  Rows cancelled before answer "idempotent" unchanged.    *)

(* Broken: cancels whatever was not cancelled before. *)
CancelableAnyTime(p) == prop[p].status \in Live \cup {"executed"}

Cancelable(p) ==
  /\ prop[p].status \in {"pending", "confirmed"}
  /\ prop[p].run = NoRun /\ ~HasTrade(p)

Cancel(ps) ==
  /\ ps # {}
  /\ \A p \in ps : ~Locked(p) /\ Cancelable(p)
  /\ prop' = [p \in ProposalIds |->
                IF p \in ps THEN WithStatus(prop[p], "rejected", NoRun) ELSE prop[p]]
  /\ UNCHANGED <<clock, effective, lastToken, trades, call, txn>>

-----------------------------------------------------------------------------
(* execute_proposal: claim and apply in one transaction, committed when      *)
(* apply answers ok and rolled back otherwise.                               *)

Begin(e) ==
  /\ txn[e] = NoTxn
  /\ txn' = [txn EXCEPT ![e] = [phase |-> "begun", at |-> clock]]
  /\ UNCHANGED <<clock, effective, lastToken, prop, trades, call>>

(* n6_executor_claim_proposal waits for the row's lock; claim_next skips     *)
(* locked rows and takes the first one that has a fresh quote, so which of   *)
(* the claimable rows it takes depends on the quotes.  A buy needs its scope *)
(* and any other row a later expiry: 076 put that in the place of 065a's OR, *)
(* which also claimed a buy out of scope that had not expired.               *)
Claim(e, p) ==
  /\ txn[e].phase = "begun"
  /\ ~Locked(p)
  /\ prop[p].status = "confirmed"
  /\ SessionOpen
  /\ IF IsBuy(p) THEN CurrentScope(p) ELSE prop[p].expires_at > txn[e].at
  /\ prop' = [prop EXCEPT ![p] = WithStatus(@, "processing", e)]
  /\ txn' = [txn EXCEPT ![e] = [phase |-> "claimed", proposal |-> p]]
  /\ UNCHANGED <<clock, effective, lastToken, trades, call>>

(* n6_executor_apply_claimed_proposal first looks at the session and at the  *)
(* expiry, then waits for the lock of the account.                           *)
Check(e) ==
  LET p == txn[e].proposal IN
  /\ txn[e].phase = "claimed"
  /\ prop[p].status = "processing" /\ prop[p].run = e
  /\ SessionOpen
  /\ ~Lapsed(p) \/ (IsBuy(p) /\ CurrentScope(p))
  /\ txn' = [txn EXCEPT ![e] = [phase |-> "checked", at |-> clock, proposal |-> p]]
  /\ UNCHANGED <<clock, effective, lastToken, prop, trades, call>>

(* A quote of today's session, fetched within the last two minutes. *)
FreshQuote(q) ==
  q \in OpenTicks /\ q <= clock /\ clock <= q + QuoteAge /\ TradeDate[q] = Today

(* With the account locked a buy repeats the date and scope checks, a sale   *)
(* the session check, and the expiry is not looked at again.  The unique     *)
(* order index would raise on a second order; commit follows.                *)
Fill(e, q) ==
  LET p == txn[e].proposal IN
  /\ txn[e].phase = "checked"
  /\ IF IsBuy(p)
     THEN prop[p].for_trade_date = TradeDate[txn[e].at] /\ CurrentScope(p)
     ELSE SessionOpen
  /\ FreshQuote(q)
  /\ ~HasTrade(p)
  /\ trades' = trades \cup
       {[proposal |-> p, key |-> prop[p].key, run |-> e,
         checked |-> txn[e].at, quote |-> q, at |-> clock]}
  /\ prop' = [prop EXCEPT ![p] = WithStatus(@, "executed", e)]
  /\ txn' = [txn EXCEPT ![e] = NoTxn]
  /\ UNCHANGED <<clock, effective, lastToken, call>>

(* Broken: the claim was committed on its own. *)
RollbackKeepsClaim(e) ==
  /\ txn[e] # NoTxn
  /\ txn' = [txn EXCEPT ![e] = NoTxn]
  /\ UNCHANGED <<clock, effective, lastToken, prop, trades, call>>

(* Broken: apply's refusal leaves the transaction open. *)
RollbackUnclaimed(e) ==
  /\ txn[e].phase = "begun"
  /\ txn' = [txn EXCEPT ![e] = NoTxn]
  /\ UNCHANGED <<clock, effective, lastToken, prop, trades, call>>

(* Nothing claimable, apply answered not ok, an exception, or the one-shot   *)
(* died: the claim is undone.                                                *)
Rollback(e) ==
  /\ txn[e] # NoTxn
  /\ prop' = [p \in ProposalIds |->
                IF HeldBy(e, p) THEN WithStatus(prop[p], "confirmed", NoRun) ELSE prop[p]]
  /\ txn' = [txn EXCEPT ![e] = NoTxn]
  /\ UNCHANGED <<clock, effective, lastToken, trades, call>>

-----------------------------------------------------------------------------
Web ==
  \/ \E w \in WebSessions :
       \/ \E s \in Sources : CreateBegin(w, s)
       \/ CreateFinish(w)
       \/ \E p \in ProposalIds, k \in Keys : ConfirmBegin(w, p, k)
       \/ ConfirmFinish(w)
  \/ \E ps \in SUBSET ProposalIds : Cancel(ps)

Execute ==
  \E e \in Executors :
    \/ Begin(e)
    \/ \E p \in ProposalIds : Claim(e, p)
    \/ Check(e)
    \/ \E q \in Ticks : Fill(e, q)
    \/ Rollback(e)

Next == Advance \/ ScopeChange \/ Web \/ Execute

Spec == Init /\ [][Next]_vars

(* A one-shot run that began always ends: execute_proposal commits or rolls  *)
(* back, and a run that dies loses its connection.  PostgreSQL queues the    *)
(* waiters of a row lock, so a request that can go ahead again and again     *)
(* does go ahead.                                                            *)
Ends(e) == (\E q \in Ticks : Fill(e, q)) \/ Rollback(e)

Fairness ==
  /\ \A e \in Executors : WF_vars(Ends(e))
  /\ \A w \in WebSessions : SF_vars(CreateFinish(w)) /\ SF_vars(ConfirmFinish(w))

FairSpec == Spec /\ Fairness

-----------------------------------------------------------------------------
(* Properties. *)

TypeOK ==
  /\ clock \in Ticks
  /\ effective \subseteq Sources
  /\ lastToken \in Tokens
  /\ prop \in [ProposalIds -> Row]
  /\ trades \subseteq Trades
  /\ call \in [WebSessions -> Calls]
  /\ txn \in [Executors -> Txns]

(* execute_proposal leaves no processing residue, and FOR UPDATE lets one    *)
(* run claim a row: a row is processing exactly while the transaction of the *)
(* run written on it is open.                                                *)
ProcessingIsOwned ==
  \A p \in ProposalIds :
    /\ prop[p].status = "processing" =>
         \E e \in Executors : HeldBy(e, p) /\ prop[p].run = e
    /\ \A e \in Executors : HeldBy(e, p) =>
         prop[p].status = "processing" /\ prop[p].run = e

(* A proposal trades once and for ever: the executed rows are the traded     *)
(* ones, through re-arm, cancel, claim retries and rollbacks, with the key   *)
(* and the run still on the row.                                             *)
ExecutedIffTraded ==
  /\ \A p \in ProposalIds : prop[p].status = "executed" <=> HasTrade(p)
  /\ \A t \in trades : prop[t.proposal].key = t.key /\ prop[t.proposal].run = t.run
  /\ \A t, u \in trades : t.proposal = u.proposal => t = u

(* A confirmation is for the offer the user saw: a buy past confirmation     *)
(* carries the token it was last re-armed with, so a late or repeated        *)
(* request for an earlier offer never gets the re-armed one filled.          *)
ConfirmedForCurrentOffer ==
  \A p \in ProposalIds :
    IsBuy(p) /\ prop[p].status \in {"confirmed", "processing", "executed"}
      => prop[p].key \in Keys /\ prop[p].key.token = prop[p].token

(* Concurrent creates leave one row per signal and one live row per          *)
(* position, and a confirmation key is on one row.                           *)
OneLiveRowPerSource ==
  \A p, q \in ProposalIds :
    p # q /\ Exists(p) /\ Exists(q) =>
      /\ prop[p].source = prop[q].source =>
           /\ prop[p].source \in Positions
           /\ ~(prop[p].status \in Live /\ prop[q].status \in Live)
      /\ prop[p].key = prop[q].key => prop[p].key = NoKey

(* A buy that waits past its 60 seconds, for the claim or for the lock of    *)
(* the account, still fills on the trade date it was proposed for and at a   *)
(* price of that session, never on a later date.                             *)
BuysTradeOnTheirDate ==
  \A t \in trades : IsBuy(t.proposal) =>
    /\ prop[t.proposal].for_trade_date = TradeDate[t.at]
    /\ t.quote \in OpenTicks /\ TradeDate[t.quote] = TradeDate[t.at]
    /\ t.quote <= t.at /\ t.at <= t.quote + QuoteAge

(* Any other proposal passes apply's expiry check in time, however long the  *)
(* claim waited for the row, and fills in a session at a price of that date. *)
(* What it waits for the account after the check is not bounded by expires_at*)
SalesCheckedBeforeExpiry ==
  \A t \in trades : ~IsBuy(t.proposal) =>
    /\ t.checked \in OpenTicks /\ t.checked < prop[t.proposal].expires_at
    /\ t.checked <= t.at /\ t.at \in OpenTicks
    /\ t.quote \in OpenTicks /\ TradeDate[t.quote] = TradeDate[t.at]

(* An executed row never changes again; a cancelled or expired row comes     *)
(* back only as a buy signal's new offer, under a token nobody confirmed.    *)
FinalUnlessReoffered ==
  \A p \in ProposalIds :
    /\ prop[p].status = "executed" => prop'[p] = prop[p]
    /\ prop[p].status \in {"expired", "rejected"} /\ prop'[p] # prop[p] =>
         /\ IsBuy(p) /\ prop'[p].status = "pending"
         /\ \A w \in WebSessions :
              call[w].op = "confirm" => call[w].key.token # prop'[p].token

FinalStaysFinal == [][FinalUnlessReoffered]_vars

(* A web request is answered although executor transactions hold its row:    *)
(* every transaction ends and the request gets its turn.                     *)
RequestsAnswered ==
  \A w \in WebSessions : call[w] # NoCall ~> call[w] = NoCall

-----------------------------------------------------------------------------
(* The refinement: a row's grant is the token its confirmation names.  Only  *)
(* a buy's key names one; any other confirmation is for the row's one offer. *)

Grants == {"confirmed", "processing", "executed"}

GrantOf(p) ==
  IF prop[p].status \notin Grants THEN 0
  ELSE IF IsBuy(p) THEN prop[p].key.token ELSE prop[p].token

Authority == INSTANCE TradeAuthority WITH
  used  <- lastToken,
  offer <- [p \in ProposalIds |-> prop[p].token],
  grant <- [p \in ProposalIds |-> GrantOf(p)],
  spent <- [p \in ProposalIds |-> IF HasTrade(p) THEN GrantOf(p) ELSE 0]

(* Every trade spends one live confirmation of the offer on the row.         *)
ImplementsAuthority == Authority!Spec
=============================================================================
