# ashare_v3: TLA+ models, model checks and proofs

A verification project for the stateful parts of `ashare_v3`, the A-share
monitor in this repository. The system is layered: N1 ingests and archives
market data, N2 evaluates conditions, N3 writes real-time facts, N4 turns them
into trigger events, N5 tracks actions, and N6 is the user's side: signals,
strategy center, delivery, and a *virtual* trading account (B-track: proposals,
a one-shot executor, stop loss, quotes). Around it stands a runtime-control
plane of pipelines, gates, bounded workers and a resumable activation log.

The program's own concurrency is mostly in PostgreSQL: SECURITY DEFINER
functions that take row locks, unique indexes, a transition-guard trigger, and
short Python one-shots that call them inside one transaction. That is where the
models start, because a mistake there costs (virtual) money and no unit test
runs two transactions against each other.

A SQL function of this repository is the sum of several migrations: a later
file replaces text of an earlier one. The models are of the function as it
stands after the last migration (078 for trading, 086 for the strategy center);
"map" names the file and lines where the part in question was last written. (So the
claim is 076's: it replaced the condition of 065a, under which a buy that had not
expired was claimed out of scope, by one that asks a human buy for its scope.)

## 1. Inventory

| Part | State it keeps | Operations | Meets | Hard behaviour |
|---|---|---|---|---|
| Trade proposals (`041`, `042`, `063`, `064`, `066`, `078`) | `n6_virtual_trade_proposal`: status, expiry, generation token, confirmation key, run | create / re-arm, confirm, batch cancel, guard trigger | web requests, executor, scopes and calendar | checks made before a lock is got, two clocks (`now()`, `clock_timestamp()`), retries with old tokens, unique indexes as the last defence |
| Executor (`user/virtual_executor.py`, `065a`, `065b`, `075`, `076`) | the claim on a row, one transaction per run | claim, apply, commit or roll back | proposals, account, quotes | two runs, death between claim and apply, waiting on the account lock after the expiry check, starvation |
| Account (`038B/C/D`, `063`, `069`, `074`) | active cash snapshot, positions, T+1 lots, trades, holding episodes | provision, fill a buy, fill a sale | executor | statuses that are not updated when the day changes, reopened positions, holidays |
| Stop loss (`049`, `057`, `run_n6_virtual_stop_loss_once.py`) | the stop columns of a position, stop-loss proposals | freeze, evaluate, (claim, apply) | quotes, fills, executor, cancel | two runs on one snapshot, re-arming, episodes changing underneath |
| Quote writer (`user/virtual_quote_persistence.py`, `040`, `051`, `068`, `077`) | run rows, one quote row per stock and minute | save a run | stop loss, apply | late and rejected quotes |
| AI users (`user/ai_agent.py`, `057`) | AI proposals, lineage | propose, freeze | proposal table | shares the table, not the web functions |
| Strategy center (`user/strategy_center_worker.py`, `run_n6_strategy_center_auto_once.py`, `073`, `081`, `082`, `085`, `086`) | selection revisions, match and observation rows, change feed, the evaluator's state file | provision, put, migrate, compensate, abandon; load, plan, commit, save | events of N4, web clients | plan computed outside the transaction, a file saved after the commit, backoff, round robin over changing queues |
| Projection, delivery (`user/*_execute.py`) | projected signals, notification rows | preflight, materialise | N5, web | preflight and insert on different connections |
| Resumable activation (`runtime_control/resumable_activation.py`) | append-only JSONL event log, leases, checkpoints | create, attest, import evidence, lease, checkpoint, rebind, close out | operator processes | validate then append without a lock |
| Pipelines and fast gates (`runtime_control/pipeline.py`, `fast_gate.py`) | stage results, evidence files | run stages | activation | partial failure |
| N4 worker (`trigger/worker_consumer.py`, `run_n4_worker_bounded_poll_once.py`, `run_n4_worker_bounded_smoke_once.py`, `008`) | run, inbox, checkpoint and output rows of one consumer | probe, baseline, select, plan, insert row by row, commit | N3 events, N5 | two children at once, late outbox numbers, deadlock, death in the transaction |
| Bounded workers and event envelope (`runtime/bounded_worker_control.py`, `events/`) | control states, envelopes | gate, wrap | all layers | partial failure |
| N1 archive and hot cleanup (`ingestion/runtime_*`) | archived partitions, hot rows | archive, verify, delete unit by unit | retention dates | a failure between units, dates that move |
| N2, N3, N5, N3N6Q, web, observability, launchd, scripts | facts, pages, reports | batch reads and writes | the rest | mostly I/O around numeric rules |

What makes the modelled parts correct:

- *Proposals*: a trade spends exactly one live confirmation of the offer the
  user saw; executed is final; one row per signal, one live row per position;
  buys fill on their own trade date, everything else passed its expiry check.
- *Executor*: a claim belongs to one open transaction and never outlives it.
- *Account*: cash equals what the trades say; a position equals its lots on
  every day; episodes are closed books; nothing bought today is sold today.
- *Stop loss*: a frozen stop is the first-day low of the episode it protects;
  one live or executed stop per episode; two adjacent breaches before it and a
  price at or below it when it fills; two recovered minutes before the next.
- *Strategy center*: a user has one active revision and at most one pending one
  that follows it; a client that applies its changes shows the rows; the source
  cursor claims no more than was evaluated; what was found stale stays stale;
  pending revisions are activated and, once nothing else moves, rows come to rest.
- *N4 worker*: an event is consumed once, what it triggers is emitted once, all of
  a run or nothing of it; the checkpoint of a partition is its newest event.
- *Activation*: stages are worked on in order, a passed stage stays passed, the
  evaluator target waits for the web target and a canary, a grant is closed once
  and only when all stages have passed.

## 2. Modules

| Module | What it is |
|---|---|
| `VirtualProposals` | The life of the proposals of a human principal: web functions, guard, executor transaction. |
| `TradeAuthority` | The abstract promise: offers with fresh tokens, granted, withdrawn, spent once. |
| `VirtualProposals_proof` | Types, ownership of claims, one trade per proposal, current confirmations, proved. |
| `VirtualProposals_contract` | Finality, trade dates, uniqueness, and the refinement of `TradeAuthority`, proved. |
| `VirtualAccount` | What a fill does to cash, positions, lots and episodes. |
| `VirtualAccount_proof` | Sums over finite sets; the books of the account and the refinement of `SettlementAccount`, proved. |
| `SettlementAccount` | The abstract T+1 account it implements. |
| `VirtualStopLoss` | One position's stop loss and everything it races with. |
| `StopOrder` | The abstract promise: a stop price per holding episode that never moves, an order that sells that episode only, once. |
| `VirtualStopLoss_proof` | Its types, frozen stops, one stop per episode, breaches and re-arming, and the refinement of `StopOrder`, proved. |
| `ResumableActivation` | The event file of an activation grant and the commands that append to it. |
| `StageLine` | The abstract promise: stages in order, passed for good, closed once. |
| `ResumableActivation_proof` | Types, the order of the targets, work only after earlier passes, closing after all passed, for any number of processes. |
| `ResumableActivation_serial` | The order of stages, the transition table and the refinement of `StageLine`, for one process at a time. |
| `StrategyCenter` | Selection revisions, the evaluator run with its state file, an evaluation by hand. |
| `SelectionLine` | The abstract promise: one current selection, replaced only by the one that follows it; what is past stays past. |
| `StrategyCenter_proof` | One active revision, the feed, the cursor, stale rows that stay stale, the refinement of `SelectionLine`, for any number of users and revisions. |
| `TriggerWorker` | Polls and semantic runs of the N4 worker and their transactions. |
| `EventLedger` | The abstract promise: a run consumes its batch in one step, nobody's event twice. |
| `TriggerWorker_proof` | Types, one emission, newest checkpoint, one batch to a partition, where deadlocks come from, and the refinement of `EventLedger`, proved. |
| `MC...` | Small instances for TLC: calendars and symmetry sets. |

A definition whose comment starts with *Broken* is a plausible mistake in the
definition after it. No action uses it; putting it in the right one's place
(PROJECT.json, "mutants") shows that a property notices.

### VirtualProposals

State: `clock` is `clock_timestamp()` in ticks; `effective` holds the sources
whose scope check passes (the view behind `n6_btrack_manual_signal_buy_current_scope`,
or sellable lots of a position), changed at will by the environment;
`lastToken` counts the generation tokens (`gen_random_uuid`, never repeated);
`prop` are the rows, `trades` the order and trade rows, `call` the request each
web session has in flight, `txn` the transaction of each executor run.

Each function that reads before it waits for a lock has two steps: *Begin*
(reads `now()`, scope and session) and *Finish* (everything after the row lock,
up to the commit). `CreateFinish` inserts, re-arms or is refused; the unique
indexes 041 and the guard trigger of 064 are conjuncts of it. `ConfirmFinish`
accepts, expires, or leaves the row alone (conflict, not ready, idempotent
answer, unique violation). A confirmation may carry any token ever handed out:
a page left open, a retry, a duplicate. `Cancel` takes a set of rows, all or
none. The executor's transaction is `Begin`, `Claim`, `Check` (session and
expiry), `Fill` (after the account lock, with the commit), or `Rollback`, which
stands for every refusal, exception and death and undoes the claim. A row that
an open transaction wrote is `Locked`: all other writers wait.

Left out: stop-loss rows (VirtualStopLoss), AI rows, idempotent replays of a
create by key (they return what is there), wording of answers.

### VirtualAccount

A fill holds the account row from its first read to its commit, so it is one
step. Shares are counted in board lots of 100, prices are the cost of a lot;
that makes the code's rounding to four digits exact, and fees are zero in the
code. `FillBuy` spends the smaller of the budget (300000) and the cash, opens or
adds to an episode and appends a lot that unlocks the next *natural* day (069).
`FillSale` sells everything of age, oldest first, exactly as the allocation loop
walks the lots. `NextDay` changes nothing else: lot statuses stay as they were.
Not modelled: average cost, order and ledger lineage rows, principal checks.

### VirtualStopLoss

One tick is a minute. `Record` writes the quote of this or the last minute,
once, passed or not. A run is one transaction: `Freeze`, then `Look` (the
candidate query on its snapshot), then `Insert` / `GivesUp` / `Raises` (lock the
row, read all conditions again); `Dies` loses it. `Claim`, `Check`, `Sell`, `Fail`,
`Undo` are the executor on a stop-loss row: `Check` looks at the session and the
expiry, and the fill, which may have waited for the account lock since, at the session
again but not at the expiry. `BuyFill`, `SellFill`, `Cancel` the others.
Comparisons to the second (60 s, 120 s) are allowed for the whole of the last
minute they reach, so the model has more interleavings than the code, never fewer.
`low` is `day_low` of the rows of the final window, fixed when a row is saved;
15:05 belongs to the window (`Window`) and to the time after it (`Closed`), so a
row of that minute may come before or after a freeze.

`insertWorks`, chosen from `Programs` at the start, is `FALSE` for the migrations
as they are: the evaluation raises where it would insert (section 5). `TRUE` is the
same program with that corrected; the run that has both checks the design that the
rest of the function, claim and apply implement, which cannot be reached today.

### ResumableActivation

The file is represented by what its readers compute from it: `stage` and
`target` are `_statuses` and `_internal_statuses`, `attested`, `canary`,
`resumed`, `closed`, `plans` and the two sets of leases are the searches for a
line of that kind. `version` counts the lines that enter `checkpoint_sha256`:
hashes do not collide, so two files with one fingerprint have one count. A lease
is what it is bound to, and disappears when its time is over (`Expire`).

A command is three steps of its process: *decide* (read, validate, choose the
line), `Count` (the second read, in `_append_event`, that gives the sequence
number and the hash of the line before) and `Write`. If another line came in
after the count, the line that is written repeats a sequence number and
`read_state` refuses the file from then on (`WriteStale`). A process may die in
between (`Crash`), or in the middle of its line (`Tear`). A file that is not
readable stays so: no command removes a line. Lines that only lack their newline
are still readable until the next one is written; the model breaks the file at
once, which ends the same way.

Left out: the digests and fields a command only checks for form, repeated
commands that return the line that is there, `approval_revoked` and
`input_drift` (read by `_approval_status`, written by no command of `src/`), and
the contents of the grant and of the supersession document, taken as valid.
That the document names the failed checkpoint it resumes from is `l2`, the version
the newest document was issued for. A document may be issued again for a later
failure; an older one resumes nothing.

### StrategyCenter

`rev` is the selection table by `selection_revision_id`: a revision has its user,
its number within the user's line, status, replay status, predecessor and catalog
version. Every database function that inserts one is an action (`Provision`, `Put`,
`Migrate`, `OwnerCreate`, `Compensate`) and all go through `Insertable`, the unique
constraints as 073 and 082 leave them. `Abandon` and the activation in `Apply` are
the only ways out. `v1` is the catalog of the default revision and of a
compensation, `v2` the one that can be put; only a pending `v2` waits for natural
events.

`source` stands for everything in the source fingerprint. The rows of a revision are
those of one coherence episode: `shown` says in which of its two tables, match or
observation, it has a row, and for which source the row was last written (any other
source counts as new content). `Evidence` is what the events of a source up to a time
say of the stock, `StaleAt` when its confirmation is too old; `RowsOf` is what an
evaluation makes of them. For `v1` it looks at the whole day and nothing else: no
time, no observations, none of its own rows. For `v2` the revision's own rows
are an input (`Frozen`): an episode once found is kept while the stock has signals in
scope, and one with an observation stays an observation (`Stale`). Those rows are
among the inputs that the commit compares (`Stands`).

A run of the evaluator holds the singleton lock from `Begin` (load the state,
choose the kind and the first revision of its queue, check the backoff) through
`MakePlan` and `CommitPlan` (the transaction that compares inputs and selection with
the plan's) to `SaveState`. `EndsQuietly` is a skip, a drift or the death of the
process, also between the commit and the file; `Fails` writes the file with the
attempt and, for a pending revision, its mark; `LoadFails` and `Recovers` are the
attempt on the source state. `ManualPlan` and `ManualCommit` are the same evaluation
started by hand, without lock or file.

Simplified: one coherence episode of one stock, one trade date, one release of the
evaluator; the evaluation time of a plan is fixed when the run begins and, as in the
code, not compared at the commit. Left out: `commit_frozen_replay`, which no script
calls; the web's read queries; repeated puts that return the pending revision that is
there; and the key of a change row, which names run, row and content: an evaluation by
hand that reuses its run identifier, when the sources have returned to content it
already reported, would have that change dropped. In the model sources do not return.

### TriggerWorker

`outbox` are the pending N3 events that are visible, `rows` the committed rows of
the worker's four tables, a row being its table, unique key, event and run. A
wrapper (`Poll`) probes and starts a child with a run identifier made from the
second; `Replay` is a semantic run by hand over the events of an oracle. The child
checks that its run left nothing (`Baseline`), selects (`Fetch`), drops what has a
consume key (`Plan`, a statement of its own), inserts its rows in the order of
`persist_worker_smoke_write_plan` (`Insert`), and commits. An insert whose key
another open transaction inserted waits; one whose key is committed ends the child
and its transaction. Of transactions that wait for one another in a `Circle` the
database ends one (`Deadlocked`). `Die` is a lost process or connection. What each action does
to `child` alone is uncommitted and is gone with it.

Simplified: one consumer; a semantic run has one output for an accepted event and a
poll none, which is what the planner makes of one and of no evaluation; a poll
selects within one market data run, as its `source_run` argument does. Left out:
quality rows and reports, the matchers and the transitions of trigger states, and
the action-confirmation workers.

## 3. Runs

| Run | Instance | Shows |
|---|---|---|
| `rows` | 1 buy signal and 1 position, 2 rows, 2 requests, 2 executor runs, 5 ticks over 2 dates, 3 tokens | types; one live row per source; confirmations are for the current offer; buys fill on their date and sales are checked before their expiry; claims are owned; executed if and only if traded; final rows stay final; `TradeAuthority` is implemented |
| `live` | a buy and a sell signal, 1 row, 2 requests, 1 run, fairness | every request is answered |
| `account` | 2 stocks, 5 proposals, 5 days with a holiday, 2 prices, cash for about two buys | cash, lots, episodes, T+1, refinement of `SettlementAccount` |
| `stop_races` | 2 runs, 2 proposals, 2 episodes, 8 minutes, as written and with the insert corrected | a stop belongs to its episode; one stop per episode; stops follow breaches; a second stop needs a recovery; `StopOrder` is implemented |
| `stop_contract` | 1 run, as written | **violated**: a breach never becomes a proposal |
| `activation_serial` | 2 processes, 3 stages, rebind second, 11 status lines, 1 lease of each kind at a time | types; stages in order; the evaluator waits; a closed grant had every stage pass; `StageLine` is implemented |
| `activation_race` | 2 processes, 1 stage | **violated**: a stage moves outside its transition table |
| `activation_canary` | 1 process, 1 stage | **violated**: the canary evidence is older than the web target's pass |
| `strategy` | 2 users, 3 revisions, 3 sources, 2 times, fairness | types; one active revision; `SelectionLine` is implemented; the feed shows the rows; the cursor covers; an observation never turns back into a match; pending revisions are activated; rows come to rest |
| `strategy_lockout` | as before | **violated**: a user without a pending revision can be given one |
| `trigger` | 4 events of 2 stocks, 2 runs, a scheduled and a manual poller, fairness | types; one emission; newest checkpoint; `EventLedger` is implemented; every child ends |
| `trigger_watermark` | 2 events of 1 stock, 1 poller, fairness | **violated**: a pending event is consumed |

The bounds are the smallest at which the interesting cases happen. Proposals: a
row must be offered, lapse, be re-armed under a second token and receive a
confirmation of the first; the clock must cross a date with a closed tick in
between; two writers must meet on one row and two rows on one source. Account:
a buy, a second buy of age and not of age, a partial sale, a close and a reopen
need five proposals; the holiday is between. Stop loss: freeze, two breaches,
failure, two recovered minutes and two more breaches fit in eight minutes.
Activation: a stage fails, is resumed into its targets, both are planned, leased,
run and pass, and the stage passes: eleven status lines; six bring the three stages
to a closeout. Strategy center: three revisions are a user's first,
its successor and the one after (or another user's); two times and two sources let a
plan grow old in both and a match grow stale, and the third source takes the
stock's support away, so that an episode is kept only because of its own rows. Worker: two batches of two events can have two partitions
in opposite orders, which a deadlock needs. The proofs remove the bounds of the safety
properties altogether.

Some runs explore a part of their instance (`CONSTRAINT`), chosen so that the
cases that differ are in it:

- `OneSourceAtATime` (`rows`): rows of two sources do not touch each other, so all
  sources but one are quiet. A signal has the whole clock and one executor run at a
  time; a position has concurrent runs, two transactions and a shorter clock.
- `LateMinutesAlone` (`stop_races`): the minutes re-arming needs are explored for
  the corrected program, the first episode and one run at a time, and a row of the
  last minute of the window comes before the second day has begun.
- `ShortFile`, `NoOldDecisions` (`activation_serial`): two commands are in flight
  while the file is short, and none is written while another is between its
  decision and its count. The order of stages and `StageLine` need this (a decision
  on an old file is the finding of `activation_race`); closing after all passed does
  not, and is proved without it.
- `Bounded` (`strategy`): evaluations by hand meet one revision, or at rest an
  active and a pending one, or the `v2` revision that took the first one's place; the
  third revision comes at rest (the last time, at least the second source), without
  them and without a failure on file, and the third source comes to that `v2`
  revision, without them.
- `LateFirst`, `InOrder` (`trigger`, `trigger_watermark`): events are published in
  one order, the first of these with an event that becomes visible after the one
  that follows it.

`CHECK_DEADLOCK FALSE` is given where the model ends with its clock or calendar
(account, stop loss, strategy center, worker): the last day with no live proposal,
the last revision evaluated, the last event consumed are real stops of the bounded
instance. The activation file really stops: one that cannot be read any
more accepts no command. The proposal model never stops.

Fairness. Proposals (`live`): a run that began ends, because `execute_proposal` commits
or rolls back on every path and a dead process loses its connection (weak
fairness of `Ends`); PostgreSQL queues the waiters of a row lock, so a request
that is enabled again and again is served (strong fairness of the two Finish
steps). Nothing in the repository schedules the executor, so no fairness is
assumed for `Begin` or `Claim`, and nothing is claimed about a confirmed
proposal being executed.

Strategy center: launchd starts the evaluator again and again (strong fairness of
`Begin` and `Recovers`, because a run that waits for its backoff starts later), a
process that runs does not stop by itself (weak fairness of its steps together), and
what can succeed again and again does at some time (strong fairness of `MakePlan`,
`CommitPlan`, `SaveState`): a transaction that always met a changed input or a
connection that always died would never end, and nothing in the code could
help it. No selection, failure or evaluation by hand is assumed.

Worker: launchd starts the wrapper at its interval and a child goes on until it
ends (weak fairness of `Start` and `Work`); the database serves waiting inserts in
turn (strong fairness of `Insert`). Publication, death and runs by hand are not
assumed.

## 4. Proofs

The theorems about `VirtualProposals` hold for any sets of signals, positions,
rows, sessions and runs, any calendar, any bounds, under `SourcesAreDistinct`,
`ClockAssumption` and `NullsAreDistinct`; those about `ResumableActivation` for any
number of processes, stages, lines and leases, under `GrantAssumption`; those about
`StrategyCenter` and `TriggerWorker` for any users, revisions, sources and rules, and
any events, partitions, runs and pollers; those about `VirtualStopLoss` for any
number of runs, minutes, proposals and episodes, any prices and any calendar; those
about `VirtualAccount` for any stocks, prices, proposals, days and calendar.

*Proposals.* `TypeOK` alone is not inductive (the rollback writes `confirmed` on a row whose
key must be there) and neither is any of the others. The argument goes in layers:

1. `Core` = `TypeOK`, granted rows carry a key, `ProcessingIsOwned`: inductive on
   `Next`, one step per action. Gives `TypeCorrect` and `ClaimsAreOwned`.
2. `Transitions`: from `Core`, every step is one of seven ways a row changes
   (offered, confirmed, dropped, claimed, filled, released, or nothing). All later
   proofs are about these and not about actions.
3. `Settled` adds `ExecutedIffTraded` and that a granted buy's key names the
   token on the row. Gives `TradesAreExecuted` and `ConfirmationsAreCurrent`.
4. `Issued` adds that all tokens in rows and in flight were handed out. From it
   follow `FinalRowsStayFinal`, `TradesAreDated` (with the invariant that a
   transaction past its check was in time), `SourcesAreNotDoubled`, and the
   refinement `Refinement`: each row transition is an `Offer`, `Grant`,
   `Withdraw`, `Trade` or a stutter of `TradeAuthority`.

*Account.* Under `AccountAssumption`, one invariant, `AccountInv`:

1. `Types`, with the set of trades finite, so that sums over it are numbers.
2. `TradesKnown`: a trade executed its proposal (so a fill records a trade that was
   not there), in an episode not above the present one.
3. `Rows(s)`: a lot is of age or of today and closed exactly when nothing is left of
   it (`GoodLots`), and the position is the sum of both kinds. From it follows that
   the allocation loop takes exactly what is left of every lot of age (`TakenIs`).
4. `Records(s)`: the trades of a stock and its position, per episode and in all, and
   that the shares bought today are the shares not of age. The last makes
   `SoldWereHeldOvernight` inductive: what a sale takes is what was bought earlier.
5. `CashKept`: `CashMatchesTrades` with the two sums over all stocks.

The quantities are sums with `SumFunctionOnSet`; that a sum over a finite set is a
number, that any element or part can be split off and that nothing depends on the
order is proved first, by minimal counterexamples under set inclusion. The refinement
follows from what a fill does to the two sums of a stock (`BuyOf`, `SaleOf`).

*Stop loss.* Under `StopLossAssumption`, one invariant, `StopInv`, of named parts,
each of which another needs:

1. `Types`, without which a least identifier or a latest minute need not exist.
2. `Locks`: at most one run holds an uncommitted freeze, and then the position is still
   provisional, as that run found it. A frozen stop, committed or not, is the low of a
   row of the present episode's first day.
3. `Episodes`: a proposal of the present episode was made at the position's stop. A
   fill that reopens the position starts an episode that has no proposal yet.
4. `StopsFollowBreaches` and `OneStopPerEpisode` themselves: what the second look
   (`Rechecked`) reads is what they say, because an insert needs the lock.
5. `Order`: identifiers are used in order, and a later proposal of an episode comes
   only after all earlier ones came to nothing. Then the last of these, to which the
   code compares the recovery, is after every other, and `RearmNeedsRecovery` follows
   for all pairs.

That a nonempty set of minutes or identifiers has a least and a greatest element, and
a finite set of proposals a last one, is proved from the well-foundedness of the
natural numbers.

`OrdersImplemented` maps a position to `StopOrder`: the order of an episode is placed
while one of its proposals is live, and sold once one is executed. Committing a frozen
price is `Protect`, a stop with or without its freeze is `Place`, and everything else
the executor, the user or a run does is one of the other steps or a stutter. Besides
`StopInv` it needs that a position stays held while a run that froze it has its row
locked (`HeldInv`), or the stop would be committed to a closed episode.

Two theorems frame the finding of `stop_contract`. `NoStopAsWritten`: with the
migrations as they are no proposal ever exists, for any prices and any number of runs.
`ContractWhenCorrected`: with the insert made to work, `BreachesAreConfirmed` holds, so
the insert is the only thing between the code and its contract.

*Strategy center.* Under `StrategyAssumption`, three layers:

1. `RevInv`: `TypeOK`, `OneActive`, and what makes them inductive: identifiers are
   used without gaps and the number of a revision is not above its identifier (or a
   new one could leave its type); plans name revisions in use; a queue holds
   identifiers. An activation keeps `OneActive` because a pending revision's
   predecessor is the active one, which no function changes while one is pending.
   Gives `OneActiveAlways`.
2. `FeedInv`: besides `FeedShowsRows`, that revisions not in use have no rows and
   users that have not joined show none, so the first feed starts right. Gives
   `FeedAlways`.
3. `CoverInv`: `CursorCovers` is about the file alone and not inductive. Whoever was
   taken off the queue of a source, in the file or in the run under way, has been
   evaluated at it; what became active since the run began has been evaluated when
   it did, because only an activation after an evaluation makes a revision active;
   and a source only grows. Gives `CursorAlways`, though a run dies after its commit
   and works an old queue a second time.

`StaleStaysStale` rests on what a plan carries. `OneTable`: no evaluation puts the episode
in both tables. `ApplySticky`: a commit that stands was made from the rows the revision
has now, so if these hold an observation the plan found it stale, whatever its time.

`SelectionsImplemented` follows from the first layer: an insert is `Join` or `Follow`
(its identifier was in no use, so it is no past selection), an abandonment is `GiveUp`,
and a commit is `Replace`, rows and all, or `Refresh`. `AbandonedForGood` is the finding
of `strategy_lockout` without bounds: while the abandoned number is the next one
(`LockedOut`) nothing can be inserted for the user, and nothing but an insert would end
that.

*N4 worker.* Under `WorkerAssumption` (among it: every batch has a last event, as
every table has finitely many rows):

1. `WorkerInv`: what a child has planned, per step (`ChildOK`: its rows are of its
   run, complete for the events it accepted, and what is inserted clashes with
   nothing committed); every output has its inbox row and keys are unique
   (`RowsOK`); and the uncommitted rows of two transactions do not clash (`Apart`).
   The unique keys do the work: two runs may both plan an event, and the one that
   inserts its inbox row second never commits. Gives `TypeAlways` and
   `EmittedOnceAlways`.
2. `Newest`: the checkpoint of a partition is its newest event. A commit that
   consumes an event of a partition brings its checkpoint, which the key admits only
   when there was none. Gives `CheckpointAlways`.
3. `Commit` maps to `Consume` of the accepted events, every other step to a stutter.
   Gives `LedgerImplemented`.
4. `Watermarked`: the run that consumed an event holds its partition's checkpoint.
   With the key of the checkpoints, a partition has events of one run only, and once it
   has one no further event of it is ever consumed: `PartitionTakesOneBatch`, the
   finding of `trigger_watermark` without bounds.
5. `Ordered`: what a transaction inserted precedes what it has still to insert, table
   by table and inbox rows by event. In a circle of waiting transactions nobody waits
   for a run row, since a transaction that waits for one holds nothing, nor for an
   output, since its key names the run; and if all waited for inbox rows, the one
   that waits for the last event would wait for one that waits for a later event.
   Gives `DeadlocksNeedCheckpoints`: a circle includes a wait for a checkpoint, the one
   table whose insertion order depends on the batch.

*Activation.* A process appends a line it decided on arbitrarily long ago, so an
invariant has to speak about lines in flight.

1. `Core` (`ResumableActivation_proof`): `TypeOK`; what a line in flight was
   pledged to (`AllPledged`: the resume, the canary, the web target's pass, the
   earlier stages or all stages passed once); and that the history remembers what the
   file says now. A pledge is about things that only grow, so no other process can
   break it. Gives `EvaluatorWaits`, `WorkFollowsPasses` and `ClosedAfterAllPassed` for
   any number of processes. `WorkFollowsPasses` is proved and not run: it says something
   where lines are decided on an older file, which `activation_serial` leaves out.
2. `Serial` (`ResumableActivation_serial`), under `OneWriter`: what a line was
   decided on still stands when it is appended, and a lease bound to the current
   version names the stage that is next (`LeasesFit`). The last part is why the
   table's way from passed to rolled_back is never taken. Gives `StagesInOrder`, the
   refinement of `StageLine`, and `TableKept`: every status moves along the transition
   table. With two processes none of them is claimed, and `activation_race` shows a
   stage going back to `planned`; `WorkFollowsPasses` is what is left of the order.

Only model-checked: the liveness properties (`RequestsAnswered`, `PendingActivated`,
`Converges`, `ChildrenEnd`), because fairness is out of the prover's reach, and
`CanaryIsLater`, whose violation one run of the commands shows. Every safety property of
the passing runs is proved, the order of the activation's stages for one process at a
time.

## 5. Findings

`stop_contract`: `n6_executor_evaluate_next_stop_loss` can never create a
proposal. With `search_path = pg_catalog` it calls `pg_catalog.coalesce(...)`
(057:940), which is grammar and not a function, so the call raises; and the guard
trigger refuses any insert by the session user the run connects as (042:623). The
contract 049 says the proposal is immediately confirmed. The exception also rolls
back the freeze made in the same transaction.

`activation_race`: `record_checkpoint` checks its transition table on one reading
of the file and `_append_event` appends after another, with no lock. When two
commands run at the same time, a stage can move from running back to planned, or
from passed to failed.

`activation_canary`: the runtime gate wants the canary PASS imported *after* the
web target passed; the code is content with one imported at any time.

`strategy_lockout`: a new revision takes the number of the active one plus one, and
abandoned revisions keep theirs under `UNIQUE (principal_id, principal_type, user_id,
revision_no)`. After a pending revision was abandoned the active one is where it was,
so the next number is taken: that user can never be given a selection again.

`trigger_watermark`: the checkpoint of a partition is inserted plainly and its
primary key is the partition, so the first batch with a second event of a partition
fails whole, and so does every poll after it, because the poll takes the first
unprocessed events. The contract describes a watermark that moves.

Seen and kept as hazards: apply writes `expired` on a lapsed stop-loss claim,
which the guard refuses to an executor session, so the claim is undone and the
lapsed row blocks its episode until the user cancels it; `claim_next` is
first-in-first-out over rows with a fresh quote, so a row apply keeps refusing
stands in front of the rest (the 075 contract chose this scope of its FIFO); a
successful closeout terminates the approval by the grant's policy, but the
commands on internal targets never look at it.

## 6. Plan

1. Done: `VirtualProposals` with `TradeAuthority` and proofs, `VirtualAccount`
   with `SettlementAccount`, `VirtualStopLoss`, and proofs of both.
2. Done: `ResumableActivation` with `StageLine` and proofs.
3. Done: `StrategyCenter` and proofs; `TriggerWorker` with `EventLedger` and proofs.
4. `ClaimQueue`: the order of `claim_next`, what starves behind what, lapsed stops.
5. `VirtualTrading`: proposals, account and provisioning composed.
6. `Delivery`, `HotCleanup`, and the trigger states of N4 with its
   action-confirmation workers.

## 7. Not modelled

The hazards without a property belong to parts that are not modelled (delivery, hot
cleanup) or that need the executor's queue; a torn event file is modelled and has no
property, since the code has no repair. Human provisioning and AI users write the
same tables as the functions modelled, through functions of their own. The pipelines
and gates run their stages one after another and write evidence files; the worker
control and the post-close fastlane decide whether to start the workers; N5 and N3
derive rows from rows.

Not planned: numeric rules of N2/N3 (one pass, no state machine), the quote
provider's adapter, web pages, reports, launchd files and one-off scripts, which are
most of the repository's lines: their correctness is about numbers, formats and pages,
where a state machine says little.
