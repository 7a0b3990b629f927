--------------------------- MODULE VirtualStopLoss ---------------------------
(***************************************************************************)
(* The stop loss of one virtual position: the one-shot run that freezes    *)
(* the first day's low and evaluates breaches in one transaction           *)
(* (n6_executor_freeze_next_stop_loss, n6_executor_evaluate_next_stop_loss),*)
(* and what it races with: other such runs, the executor that claims and   *)
(* applies stop-loss proposals, ordinary fills and cancellation.           *)
(*                                                                         *)
(* One tick is one minute.  A stock has at most one quote per minute, and  *)
(* a quote becomes visible in its minute or in the next.  What the code    *)
(* compares to the second (60 and 120 seconds) may hold for the whole of   *)
(* the last minute it can reach.                                           *)
(***************************************************************************)
EXTENDS Naturals, FiniteSetsExt

CONSTANTS
  Runs,          \* concurrent stop-loss runs
  Prices,        \* prices a quote can hold
  NoQuote,       \* a minute without a quote
  NotReady,      \* a quote that did not pass its quality checks
  MaxMinute,     \* bound on the wall clock
  MaxProposals,  \* bound on the stop-loss proposals
  MaxEpisode,    \* bound on the holding episodes
  DateOf,        \* local date of every minute; every date here is open
  Session,       \* minutes within 09:30-11:30 or 13:00-15:00
  Window,        \* minutes within 14:55-15:05, the last included
  Closed,        \* minutes from 15:05 on
  Programs       \* the values insertWorks may have

Minutes == 0 .. MaxMinute
Ids     == 1 .. MaxProposals
Ttl     == 1   \* 60 seconds
Age     == 2   \* 120 seconds

ASSUME StopLossAssumption ==
  /\ MaxMinute \in Nat /\ MaxProposals \in Nat /\ MaxEpisode \in Nat \ {0}
  /\ Prices \subseteq Nat \ {0}
  /\ NoQuote \notin Prices /\ NotReady \notin Prices /\ NoQuote # NotReady
  /\ DateOf \in [Minutes -> Nat]
  /\ Session \subseteq Minutes /\ Window \subseteq Minutes /\ Closed \subseteq Minutes
  /\ Programs \subseteq BOOLEAN

VARIABLES
  minute,    \* clock_timestamp()
  quote,     \* current_price of the n6_virtual_quote_snapshot row of each minute
  low,       \* day_low of those rows, kept where it is read, in the final window
  position,  \* n6_virtual_position: episode, first_open, and its stop_loss columns
  lots,      \* dates of the purchases not yet sold (lots mature the next day)
  proposal,  \* the stop-loss rows of n6_virtual_trade_proposal
  run,       \* the transaction of each stop-loss run
  exec,      \* the executor's transaction
  insertWorks \* never changes.  FALSE in the migrations: the evaluation raises an
             \* exception where it would insert, for its call of pg_catalog.coalesce
             \* and for the guard trigger's rule on executor sessions.
             \* TRUE is the program with both corrected.

vars == <<minute, quote, low, position, lots, proposal, run, exec, insertWorks>>
feed == <<quote, low>>

-----------------------------------------------------------------------------
Today    == DateOf[minute]
Open     == lots # {}
Matured  == {d \in lots : d < Today}
Recorded == {m \in Minutes : quote[m] # NoQuote}
Passed   == {m \in Minutes : quote[m] \in Prices}
Latest   == Max(Recorded)

AtOrBelow(m, price) == m \in Passed /\ quote[m] <= price
Above(m, price)     == m \in Passed /\ quote[m] > price

NoStop  == [status |-> "provisional_first_day", price |-> 0, effective |-> 0]
NoRun   == [phase |-> "idle", froze |-> FALSE, stop |-> NoStop]
LostRun == [NoRun EXCEPT !.phase = "lost"]
NoExec  == [phase |-> "idle"]
Absent  == [status |-> "absent"]

Terminal == {"rejected", "failed"}
Active   == {"confirmed", "processing", "executed"}
StopsOf(e, statuses) ==
  {p \in Ids : proposal[p].status \in statuses /\ proposal[p].episode = e}

(* Broken: no row lock. *)
NoLock(r) == TRUE

(* FOR UPDATE on the position: a run that froze it or took it to evaluate. *)
PositionFree(r) == \A o \in Runs \ {r} : ~run[o].froze

Init ==
  /\ minute = 0
  /\ quote = [m \in Minutes |-> NoQuote]
  /\ low = [m \in Window |-> 0]
  /\ position = [episode |-> 1, first_open |-> DateOf[0], stop |-> NoStop]
  /\ lots = {DateOf[0]}
  /\ proposal = [p \in Ids |-> Absent]
  /\ run = [r \in Runs |-> NoRun]
  /\ exec = NoExec
  /\ insertWorks \in Programs

Advance ==
  /\ minute < MaxMinute
  /\ minute' = minute + 1
  /\ UNCHANGED <<feed, position, lots, proposal, run, exec, insertWorks>>

(* The provider's low of the day, as far as the rows tell. *)
DayLow(price) == Min({price} \cup {quote[k] : k \in {k \in Passed : DateOf[k] = Today}})

(* The quote writer saves the row of this minute or, late, of the last,    *)
(* and never again.                                                        *)
Record ==
  /\ \E m \in {minute, minute - 1} \cap (Session \cup Window), price \in Prices \cup {NotReady} :
       /\ quote[m] = NoQuote
       /\ DateOf[m] = Today
       /\ quote' = [quote EXCEPT ![m] = price]
       /\ low' = IF m \in Window /\ price \in Prices
                 THEN [low EXCEPT ![m] = DayLow(price)] ELSE low
  /\ UNCHANGED <<minute, position, lots, proposal, run, exec, insertWorks>>

-----------------------------------------------------------------------------
(* n6_executor_freeze_next_stop_loss, the first half of a run.               *)

FinalQuotes == {m \in Passed \cap Window : DateOf[m] = position.first_open}

LaterDates == {DateOf[m] : m \in {m \in Minutes : DateOf[m] > position.first_open}}

FirstDayOver ==
  Today > position.first_open \/ (Today = position.first_open /\ minute \in Closed)

Freezable(r) ==
  /\ Open
  /\ position.stop.status = "provisional_first_day"
  /\ FirstDayOver
  /\ LaterDates # {} /\ FinalQuotes # {}
  /\ PositionFree(r)

Frozen == [status |-> "frozen", price |-> low[Max(FinalQuotes)],
           effective |-> Min(LaterDates)]

(* The update is uncommitted: the run holds the row and keeps the new value. *)
Freeze(r) ==
  /\ run[r].phase \in {"idle", "lost"}
  /\ run' = [run EXCEPT ![r] = IF Freezable(r)
       THEN [phase |-> "freeze", froze |-> TRUE, stop |-> Frozen]
       ELSE [phase |-> "freeze", froze |-> FALSE, stop |-> NoStop]]
  /\ UNCHANGED <<minute, feed, position, lots, proposal, exec, insertWorks>>

-----------------------------------------------------------------------------
(* n6_executor_evaluate_next_stop_loss, the second half.                     *)

StopSeen(r) == IF run[r].froze THEN run[r].stop ELSE position.stop

FreshMinute(m) == m <= minute /\ minute <= m + Age /\ DateOf[m] = Today

(* The newest quote and that of the minute before it are at or below the stop. *)
Breached(price) ==
  /\ Recorded # {}
  /\ Latest >= 1
  /\ FreshMinute(Latest) /\ FreshMinute(Latest - 1)
  /\ AtOrBelow(Latest, price) /\ AtOrBelow(Latest - 1, price)

LastTerminal(e) ==
  CHOOSE p \in StopsOf(e, Terminal) : \A o \in StopsOf(e, Terminal) :
    \/ proposal[o].updated < proposal[p].updated
    \/ proposal[o].updated = proposal[p].updated /\ o <= p

(* Two adjacent minutes above the stop, after the proposal that came to      *)
(* nothing and before the breach.                                            *)
RecoveredSince(at, price) ==
  \E m \in Passed :
    /\ m > at /\ m + 1 < Latest - 1
    /\ DateOf[m] = Today /\ DateOf[m + 1] = Today
    /\ Above(m, price) /\ Above(m + 1, price)

(* Broken: the recovery may come before the proposal that came to nothing. *)
ArmedOnce(e, price) == StopsOf(e, Terminal) # {} => RecoveredSince(0, price)

Armed(e, price) ==
  StopsOf(e, Terminal) # {} =>
    RecoveredSince(proposal[LastTerminal(e)].updated, price)

RowQualifies(stop) ==
  /\ Open
  /\ stop.status = "frozen" /\ stop.effective <= Today

Due(stop) ==
  /\ Matured # {}
  /\ StopsOf(position.episode, Active) = {}
  /\ Breached(stop.price)
  /\ Armed(position.episode, stop.price)

(* The candidate query reads one snapshot ... *)
Look(r) ==
  /\ run[r].phase = "freeze"
  /\ minute \in Session /\ RowQualifies(StopSeen(r)) /\ Due(StopSeen(r))
  /\ run' = [run EXCEPT ![r].phase = "candidate"]
  /\ UNCHANGED <<minute, feed, position, lots, proposal, exec, insertWorks>>

(* ... a run without a candidate commits what it froze ... *)
Commit(r) ==
  /\ position' = [position EXCEPT !.stop = StopSeen(r)]
  /\ run' = [run EXCEPT ![r] = NoRun]

NoCandidate(r) ==
  /\ run[r].phase = "freeze"
  /\ ~(minute \in Session /\ RowQualifies(StopSeen(r)) /\ Due(StopSeen(r)))
  /\ Commit(r)
  /\ UNCHANGED <<minute, feed, lots, proposal, exec, insertWorks>>

(* Broken: trusts what the candidate query saw. *)
NotChecked(r) == RowQualifies(StopSeen(r))

(* ... and a candidate is locked (or skipped when another transaction holds  *)
(* it), its row is tested again, and every condition is read again.          *)
Rechecked(r) == RowQualifies(StopSeen(r)) /\ Due(StopSeen(r))

StopProposal(r) ==
  [status |-> "confirmed", episode |-> position.episode, expires |-> minute + Ttl,
   confirm |-> Latest, stop |-> StopSeen(r).price, updated |-> minute,
   quoted |-> 0]

NextId == Min({p \in Ids : proposal[p] = Absent})
HasId  == \E p \in Ids : proposal[p] = Absent

Insert(r) ==
  /\ run[r].phase = "candidate"
  /\ insertWorks /\ HasId
  /\ PositionFree(r) /\ Rechecked(r)
  /\ proposal' = [proposal EXCEPT ![NextId] = StopProposal(r)]
  /\ Commit(r)
  /\ UNCHANGED <<minute, feed, lots, exec, insertWorks>>

GivesUp(r) ==
  /\ run[r].phase = "candidate"
  /\ \/ ~PositionFree(r) \/ ~RowQualifies(StopSeen(r))
     \/ insertWorks /\ (~Due(StopSeen(r)) \/ ~HasId)
  /\ Commit(r)
  /\ UNCHANGED <<minute, feed, lots, proposal, exec, insertWorks>>

(* As written the sum of the matured lots already raises an exception, which *)
(* takes the freeze of the same transaction with it.                         *)
Raises(r) ==
  /\ run[r].phase = "candidate"
  /\ ~insertWorks
  /\ PositionFree(r) /\ RowQualifies(StopSeen(r))
  /\ run' = [run EXCEPT ![r] = NoRun]
  /\ UNCHANGED <<minute, feed, position, lots, proposal, exec, insertWorks>>

(* A lost connection rolls a run back at any point. *)
Dies(r) ==
  /\ run[r].phase \in {"freeze", "candidate"}
  /\ run' = [run EXCEPT ![r] = LostRun]
  /\ UNCHANGED <<minute, feed, position, lots, proposal, exec, insertWorks>>

-----------------------------------------------------------------------------
(* Ordinary fills of the position, under its row lock, and cancellation.     *)

Unlocked == \A r \in Runs : ~run[r].froze

(* Broken: a reopened position keeps the stop of the episode before. *)
StopKept == position.stop

(* Broken: it keeps the price and the date under a new status. *)
StatusReset == [position.stop EXCEPT !.status = "provisional_first_day"]

StopReset == NoStop

BuyFill ==
  /\ minute \in Session /\ Unlocked
  /\ Open \/ position.episode < MaxEpisode
  /\ lots' = lots \cup {Today}
  /\ position' = IF Open THEN position
                 ELSE [episode |-> position.episode + 1, first_open |-> Today,
                       stop |-> StopReset]
  /\ UNCHANGED <<minute, feed, proposal, run, exec, insertWorks>>

SellFill ==
  /\ minute \in Session /\ Unlocked
  /\ Matured # {}
  /\ lots' = lots \ Matured
  /\ UNCHANGED <<minute, feed, position, proposal, run, exec, insertWorks>>

Cancel(p) ==
  /\ proposal[p].status = "confirmed"
  /\ proposal' = [proposal EXCEPT ![p] = [@ EXCEPT !.status = "rejected", !.updated = minute]]
  /\ UNCHANGED <<minute, feed, position, lots, run, exec, insertWorks>>

-----------------------------------------------------------------------------
(* The executor's claim and n6_executor_apply_claimed_proposal on a          *)
(* stop-loss proposal.                                                       *)

Live(p) == proposal[p].expires >= minute

Claim(p) ==
  /\ exec = NoExec
  /\ minute \in Session
  /\ proposal[p].status = "confirmed" /\ Live(p)
  /\ proposal' = [proposal EXCEPT ![p].status = "processing"]
  /\ exec' = [phase |-> "claimed", proposal |-> p, at |-> minute]
  /\ UNCHANGED <<minute, feed, position, lots, run, insertWorks>>

LatestFresh == Recorded # {} /\ Latest \in Passed /\ FreshMinute(Latest)

(* Broken: the price is not compared with the stop again. *)
StillHeld(p) ==
  /\ Open /\ proposal[p].episode = position.episode
  /\ position.stop.status = "frozen" /\ position.stop.effective <= Today
  /\ Matured # {}

StillDue(p) ==
  /\ Open /\ proposal[p].episode = position.episode
  /\ position.stop.status = "frozen" /\ position.stop.effective <= Today
  /\ Matured # {}
  /\ quote[Latest] <= position.stop.price

(* The session and the expiry are looked at first.                           *)
Check(p) ==
  /\ exec.phase = "claimed" /\ exec.proposal = p
  /\ minute \in Session /\ Live(p)
  /\ exec' = [phase |-> "checked", proposal |-> p, at |-> exec.at]
  /\ UNCHANGED <<minute, feed, position, lots, proposal, run, insertWorks>>

(* With the account and the position locked, some time later, the session is *)
(* looked at again and the expiry is not: at a fresh quote the stop sells    *)
(* every matured lot or fails for good; both are committed.                  *)
Applies(p) ==
  /\ exec.phase = "checked" /\ exec.proposal = p
  /\ minute \in Session
  /\ Unlocked /\ LatestFresh
  /\ exec' = NoExec

Sell(p) ==
  /\ Applies(p) /\ StillDue(p)
  /\ lots' = lots \ Matured
  /\ proposal' = [proposal EXCEPT ![p] =
       [@ EXCEPT !.status = "executed", !.updated = exec.at, !.quoted = Latest]]
  /\ UNCHANGED <<minute, feed, position, run, insertWorks>>

Fail(p) ==
  /\ Applies(p) /\ ~StillDue(p)
  /\ proposal' = [proposal EXCEPT ![p] = [@ EXCEPT !.status = "failed", !.updated = exec.at]]
  /\ UNCHANGED <<minute, feed, position, lots, run, insertWorks>>

(* Any refusal.  That of a lapsed stop writes 'expired' first, which the     *)
(* guard trigger rejects for an executor session: the claim is undone.       *)
Undo ==
  /\ exec # NoExec
  /\ proposal' = [proposal EXCEPT ![exec.proposal].status = "confirmed"]
  /\ exec' = NoExec
  /\ UNCHANGED <<minute, feed, position, lots, run, insertWorks>>

StopLossRun(r) ==
  Freeze(r) \/ Look(r) \/ NoCandidate(r) \/ Insert(r) \/ GivesUp(r) \/ Raises(r) \/ Dies(r)

Next ==
  \/ Advance \/ Record
  \/ \E r \in Runs : StopLossRun(r)
  \/ BuyFill \/ SellFill
  \/ \E p \in Ids : Cancel(p) \/ Claim(p) \/ Check(p) \/ Sell(p) \/ Fail(p)
  \/ Undo

Spec == Init /\ [][Next]_vars

-----------------------------------------------------------------------------
(* Correctness. *)

Stops == [status : {"provisional_first_day", "frozen"},
          price : Prices \cup {0}, effective : Nat]

(* The columns hold what their CHECK constraints admit: a frozen stop has a  *)
(* positive price and a date, a provisional one neither.                     *)
TypeOK ==
  /\ minute \in Minutes /\ insertWorks \in Programs
  /\ quote \in [Minutes -> Prices \cup {NoQuote, NotReady}]
  /\ position \in [episode : 1 .. MaxEpisode, first_open : Nat, stop : Stops]
  /\ position.stop.status = "frozen" => position.stop.price > 0
  /\ position.stop.status # "frozen" => position.stop = NoStop
  /\ \A p \in Ids : proposal[p].status \in {"absent"} \cup Active \cup Terminal
  /\ exec = NoExec \/ proposal[exec.proposal].status = "processing"

(* A frozen stop is the low of the first day of the episode it protects,     *)
(* from a final-window quote of that day, and takes effect later: buying     *)
(* more keeps it and reopening the position never inherits it, whichever     *)
(* runs and fills race.                                                      *)
FrozenForItsEpisode ==
  position.stop.status = "frozen" =>
    /\ position.stop.effective > position.first_open
    /\ position.stop.price \in {low[m] : m \in FinalQuotes}

(* Concurrent and repeated runs leave at most one stop proposal of an        *)
(* episode that is live or executed.                                         *)
OneStopPerEpisode ==
  \A p, q \in Ids :
    /\ proposal[p].status \in Active /\ proposal[q].status \in Active
    /\ proposal[p].episode = proposal[q].episode
    => p = q

(* A stop proposal stands on two adjacent breaches, and sells at a price     *)
(* that is still at or below the stop, whatever came between its             *)
(* confirmation and its fill.                                                *)
StopsFollowBreaches ==
  \A p \in Ids : proposal[p] # Absent =>
    /\ AtOrBelow(proposal[p].confirm - 1, proposal[p].stop)
    /\ AtOrBelow(proposal[p].confirm, proposal[p].stop)
    /\ proposal[p].status = "executed" => AtOrBelow(proposal[p].quoted, proposal[p].stop)

(* After a stop proposal failed or was cancelled the next one of its episode *)
(* needs two adjacent minutes above the stop between the two.                *)
RearmNeedsRecovery ==
  \A p, q \in Ids :
    /\ p < q /\ proposal[q] # Absent /\ proposal[p].episode = proposal[q].episode
    => \E m \in Passed :
         /\ m > proposal[p].updated /\ m + 1 < proposal[q].confirm - 1
         /\ Above(m, proposal[q].stop) /\ Above(m + 1, proposal[q].stop)

(* What StopOrder speaks of.                                                 *)
OrderOf(e) ==
  CASE StopsOf(e, {"executed"}) # {} -> "sold"
    [] StopsOf(e, {"executed"}) = {} /\ StopsOf(e, {"confirmed", "processing"}) # {} -> "placed"
    [] OTHER -> "none"

Orders == INSTANCE StopOrder WITH
  Episodes <- 1 .. MaxEpisode, episode <- position.episode, held <- Open,
  stop <- position.stop.price, order <- [e \in 1 .. MaxEpisode |-> OrderOf(e)]

(* However runs, fills, cancellations and the executor interleave, a stop    *)
(* price is set once in an episode and only while it is held, an order left  *)
(* over from an earlier episode never sells the present one, and an episode  *)
(* has no second order while one is live and none after one was executed.    *)
ImplementsOrders == Orders!Spec

(* The contract 049: a run that ends on a breach it may act on leaves a      *)
(* confirmed proposal.                                                       *)
BreachIsConfirmed ==
  \A r \in Runs :
    /\ run[r].phase = "candidate" /\ run'[r].phase = "idle"
    /\ PositionFree(r) /\ Rechecked(r) /\ HasId
    => \E p \in Ids : proposal[p] = Absent /\ proposal'[p].status = "confirmed"

BreachesAreConfirmed == [][BreachIsConfirmed]_vars
=============================================================================
