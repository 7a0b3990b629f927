---------------------------- MODULE TriggerWorker ----------------------------
(***************************************************************************)
(* The bounded poll of N4.  A wrapper looks for a source event its         *)
(* consumer has not consumed and, when there is one, starts a child; the   *)
(* child reads a batch of pending N3 events, plans its rows and inserts    *)
(* them one by one in a transaction of its own.  A second wrapper, or a    *)
(* semantic run that replays the events an oracle names, can be started    *)
(* by hand beside it.                                                      *)
(*                                                                         *)
(* One consumer.  An event is the number of its outbox row; the table is   *)
(* read committed, a unique key another transaction inserted and has not   *)
(* committed makes an insert wait.                                         *)
(***************************************************************************)
EXTENDS Naturals, FiniteSets

CONSTANTS
  Events,     \* the source events, by outbox_id
  Source,     \* the market data run of every event
  Partition,  \* the partition_key of every event
  Runs,       \* run identifiers: the second a wrapper starts in
  Pollers,    \* processes that can run at the same time
  ByHand,     \* those a person starts, for semantic runs too
  Mortal,     \* those that can be killed
  MaxEvents   \* --max-events

(* Every batch has a last event; no run is called as the one that is none.   *)
ASSUME WorkerAssumption ==
  /\ Events \subseteq Nat \ {0}
  /\ \A batch \in (SUBSET Events) \ {{}} : \E e \in batch : \A d \in batch : d <= e
  /\ "nobody" \notin Runs
  /\ ByHand \subseteq Pollers /\ Mortal \subseteq Pollers
  /\ MaxEvents \in Nat \ {0}

VARIABLES
  outbox,  \* pending N3 events that are visible
  rows,    \* the committed rows of the worker's tables
  child    \* the child process of every poller

vars == <<outbox, rows, child>>

-----------------------------------------------------------------------------
Row(table, key, event, r) == [table |-> table, key |-> key, event |-> event, run |-> r]
InboxRow(e, r)      == Row("inbox", e, e, r)
CheckpointRow(e, r) == Row("checkpoint", Partition[e], e, r)
OutputRow(e, r)     == Row("output", <<e, r>>, e, r)
RunRow(r)           == Row("run", r, 0, r)

(* The unique keys: run_id, (consumer_name, event_id), the primary key of    *)
(* the checkpoints, and an output's event_id, which is made from the run.    *)
Clash(x, y) == x.table = y.table /\ x.key = y.key

Idle == [step |-> "idle"]

Consumed   == {x.event : x \in {y \in rows : y.table = "inbox"}}
Checkpoint == {x.event : x \in {y \in rows : y.table = "checkpoint"}}

(* What fetch_source_events_for_smoke selects for a source, without the      *)
(* limit.                                                                    *)
Unprocessed(s) == {e \in outbox : Source[e] = s} \ (Consumed \cup Checkpoint)

(* ORDER BY outbox_id LIMIT n                                                *)
FirstOf(events, n) ==
  {e \in events : Cardinality({d \in events : d <= e}) <= n}

Init ==
  /\ outbox = {}
  /\ rows = {}
  /\ child = [p \in Pollers |-> Idle]

-----------------------------------------------------------------------------
(* A snapshot of the market is written with its event.  Outbox numbers are   *)
(* drawn before the commit, so an earlier event may become visible later.    *)
Publish(e) ==
  /\ e \notin outbox
  /\ outbox' = outbox \cup {e}
  /\ UNCHANGED <<rows, child>>

(* The wrapper: a probe that finds nothing starts no child.  Time moves on,  *)
(* so the identifier of a run that is committed does not come again, that of *)
(* a run another wrapper started in the same second may.                     *)
Poll(p, s, r) ==
  /\ child[p] = Idle
  /\ Unprocessed(s) # {}
  /\ RunRow(r) \notin rows
  /\ child' = [child EXCEPT ![p] = [step |-> "started", run |-> r, source |-> s, oracle |-> {}]]
  /\ UNCHANGED <<outbox, rows>>

(* A semantic run by hand, with the events its oracle evaluates.             *)
Replay(p, s, r, events) ==
  /\ p \in ByHand
  /\ child[p] = Idle
  /\ events # {} /\ \A e \in events : Source[e] = s
  /\ Cardinality(events) <= MaxEvents
  /\ RunRow(r) \notin rows
  /\ child' = [child EXCEPT ![p] =
       [step |-> "started", run |-> r, source |-> s, oracle |-> events]]
  /\ UNCHANGED <<outbox, rows>>

Abort(p) == child' = [child EXCEPT ![p] = Idle] /\ UNCHANGED <<outbox, rows>>

(* The baseline of the run must be clean.                                    *)
Baseline(p) ==
  /\ child[p].step = "started"
  /\ \/ /\ \E x \in rows : x.run = child[p].run
        /\ Abort(p)
     \/ /\ \A x \in rows : x.run # child[p].run
        /\ child' = [child EXCEPT ![p].step = "clean"]
        /\ UNCHANGED <<outbox, rows>>

(* Broken: a semantic run goes on when an event of its oracle is not pending. *)
FetchUnasked(p) ==
  LET c == child[p]
      Take(events) ==
        /\ child' = [child EXCEPT ![p] =
             [step |-> "fetched", run |-> c.run, oracle |-> c.oracle, events |-> events]]
        /\ UNCHANGED <<outbox, rows>>
  IN /\ c.step = "clean"
     /\ \/ c.oracle = {} /\ Take(FirstOf(Unprocessed(c.source), MaxEvents))
        \/ c.oracle # {} /\ Take(c.oracle)

(* A poll takes the first unprocessed events; a semantic run takes the       *)
(* events of its oracle, consumed or not, and stops when one is not pending. *)
Fetch(p) ==
  LET c == child[p]
      Take(events) ==
        /\ child' = [child EXCEPT ![p] =
             [step |-> "fetched", run |-> c.run, oracle |-> c.oracle, events |-> events]]
        /\ UNCHANGED <<outbox, rows>>
  IN /\ c.step = "clean"
     /\ \/ c.oracle = {} /\ Take(FirstOf(Unprocessed(c.source), MaxEvents))
        \/ c.oracle # {} /\ c.oracle \subseteq outbox /\ Take(c.oracle)
        \/ ~ c.oracle \subseteq outbox /\ Abort(p)

(* Existing consume keys are read by a statement of their own; what is left  *)
(* is accepted.  Only an evaluation leads to an output, and a poll has none. *)
Accepted(c) == c.events \ (Consumed \cup Checkpoint)

(* Broken: a partition's checkpoint stays at the first event of the batch.   *)
Earliest(events, e) == \A d \in events : Partition[d] = Partition[e] => e <= d

Latest(events, e) == \A d \in events : Partition[d] = Partition[e] => d <= e

Planned(c, accepted) ==
  {RunRow(c.run)}
    \cup {InboxRow(e, c.run) : e \in accepted}
    \cup {CheckpointRow(e, c.run) : e \in {d \in accepted : Latest(accepted, d)}}
    \cup {OutputRow(e, c.run) : e \in accepted \cap c.oracle}

Plan(p) ==
  LET c == child[p]
  IN /\ c.step = "fetched"
     /\ child' = [child EXCEPT ![p] =
          [step |-> "writing", events |-> Accepted(c), todo |-> Planned(c, Accepted(c)), mine |-> {}]]
     /\ UNCHANGED <<outbox, rows>>

(* persist_worker_smoke_write_plan: table by table, inbox rows and outputs   *)
(* by outbox number, a partition's checkpoint where its first event was.     *)
TableOrder == [run |-> 0, inbox |-> 1, checkpoint |-> 2, output |-> 3]

Place(c, x) ==
  IF x.table = "checkpoint"
    THEN CHOOSE e \in c.events : /\ Partition[e] = x.key
                                 /\ \A d \in c.events : Partition[d] = x.key => e <= d
    ELSE x.event

Precedes(c, x, y) ==
  \/ TableOrder[x.table] < TableOrder[y.table]
  \/ x.table = y.table /\ Place(c, x) < Place(c, y)

IsNext(c, x) == x \in c.todo /\ \A y \in c.todo \ {x} : Precedes(c, x, y)

Inserted(p)   == IF child[p].step = "writing" THEN child[p].mine ELSE {}
Blocks(q, x)  == \E y \in Inserted(q) : Clash(x, y)
Waits(p, q)   == p # q /\ child[p].step = "writing"
                       /\ \E x \in child[p].todo : IsNext(child[p], x) /\ Blocks(q, x)

(* Broken: a row whose key is there is passed over.                          *)
InsertOrNothing(p) ==
  /\ child[p].step = "writing"
  /\ \E x \in child[p].todo :
       /\ IsNext(child[p], x)
       /\ \A q \in Pollers \ {p} : ~ Blocks(q, x)
       /\ child' = [child EXCEPT ![p].todo = @ \ {x},
                                ![p].mine = IF \E y \in rows : Clash(x, y) THEN @ ELSE @ \cup {x}]
       /\ UNCHANGED <<outbox, rows>>

(* Broken: every row is committed for itself.                                *)
InsertAutocommit(p) ==
  /\ child[p].step = "writing"
  /\ \E x \in child[p].todo :
       /\ IsNext(child[p], x)
       /\ \A y \in rows : ~ Clash(x, y)
       /\ rows' = rows \cup {x}
       /\ child' = [child EXCEPT ![p].todo = @ \ {x}]
       /\ UNCHANGED outbox

(* Broken: an insert that fails is tried again.                              *)
InsertRetried(p) ==
  /\ child[p].step = "writing"
  /\ \E x \in child[p].todo :
       /\ IsNext(child[p], x)
       /\ \A q \in Pollers \ {p} : ~ Blocks(q, x)
       /\ \A y \in rows : ~ Clash(x, y)
       /\ child' = [child EXCEPT ![p].todo = @ \ {x}, ![p].mine = @ \cup {x}]
       /\ UNCHANGED <<outbox, rows>>

(* An insert waits for the transaction that inserted its key, fails when     *)
(* that one is committed, and goes in otherwise.                             *)
Insert(p) ==
  /\ child[p].step = "writing"
  /\ \E x \in child[p].todo :
       /\ IsNext(child[p], x)
       /\ \A q \in Pollers \ {p} : ~ Blocks(q, x)
       /\ \/ /\ \E y \in rows : Clash(x, y)
             /\ Abort(p)
          \/ /\ \A y \in rows : ~ Clash(x, y)
             /\ child' = [child EXCEPT ![p] =
                  [step |-> "writing", events |-> child[p].events,
                   todo |-> child[p].todo \ {x}, mine |-> child[p].mine \cup {x}]]
             /\ UNCHANGED <<outbox, rows>>

Commit(p) ==
  /\ child[p].step = "writing" /\ child[p].todo = {}
  /\ rows' = rows \cup child[p].mine
  /\ child' = [child EXCEPT ![p] = Idle]
  /\ UNCHANGED outbox

Circle(S) ==
  \A p \in S : (\E q \in S : Waits(p, q)) /\ (\E q \in S : Waits(q, p))

(* Transactions that wait for one another in a circle: the database ends one. *)
Deadlocked(p) ==
  /\ \E S \in SUBSET Pollers : p \in S /\ Circle(S)
  /\ Abort(p)

(* The child or its connection dies; what it inserted is rolled back.        *)
Die(p) ==
  /\ p \in Mortal
  /\ child[p] # Idle
  /\ Abort(p)

Work(p) == Baseline(p) \/ Fetch(p) \/ Plan(p) \/ Commit(p) \/ Deadlocked(p)

Sources == {Source[e] : e \in Events}
Start(p) == \E s \in Sources, r \in Runs : Poll(p, s, r)

Next ==
  \/ \E e \in Events : Publish(e)
  \/ \E p \in Pollers, s \in Sources, r \in Runs, events \in SUBSET Events : Replay(p, s, r, events)
  \/ \E p \in Pollers : Start(p) \/ Work(p) \/ Insert(p) \/ Die(p)

Spec == Init /\ [][Next]_vars

(* launchd starts the wrapper at every interval; a child goes on until it    *)
(* ends, and the database serves the transactions that wait in turn.         *)
FairSpec == Spec /\ \A p \in Pollers : WF_vars(Start(p)) /\ WF_vars(Work(p)) /\ SF_vars(Insert(p))

-----------------------------------------------------------------------------
Tables == {"run", "inbox", "checkpoint", "output"}

(* The tables hold rows of the four kinds, of published events.              *)
TypeOK ==
  /\ outbox \subseteq Events
  /\ \A x \in rows : x.table \in Tables /\ x.run \in Runs /\ x.event \in outbox \cup {0}
  /\ \A p \in Pollers : child[p].step \in {"idle", "started", "clean", "fetched", "writing"}

(* What a source event triggers is emitted once, by the run that consumed    *)
(* the event: polls, semantic runs and repeated seconds can overlap and the  *)
(* key of an output, made from its run, would not stop a second one          *)
(* (worker_consumer.py:748).                                                 *)
EmittedOnce ==
  \A x \in rows : x.table = "output" =>
    /\ InboxRow(x.event, x.run) \in rows
    /\ \A y \in rows : y.table = "output" /\ y.event = x.event => y = x

(* The checkpoint of a partition names its newest consumed event, and only   *)
(* partitions with a consumed event have one.                                *)
CheckpointIsNewest ==
  /\ \A e \in Consumed : \E x \in rows :
       x.table = "checkpoint" /\ x.key = Partition[e] /\ x.event >= e
  /\ Checkpoint \subseteq Consumed
  /\ \A x, y \in rows : x.table = "checkpoint" /\ y.table = "checkpoint" /\ x.key = y.key => x = y

(* Runs consume and emit as the ledger promises, each in one step, whatever  *)
(* the transactions do in between.                                           *)
ConsumedBy ==
  [e \in Events |-> IF e \in Consumed
                      THEN (CHOOSE x \in rows : x.table = "inbox" /\ x.event = e).run
                      ELSE "nobody"]

Ledger == INSTANCE EventLedger WITH
  Nobody <- "nobody", consumedBy <- ConsumedBy,
  emitted <- {x.event : x \in {y \in rows : y.table = "output"}}

ImplementsLedger == Ledger!Spec

(* A child ends, though transactions wait for each other.                    *)
ChildrenEnd == \A p \in Pollers : (child[p] # Idle) ~> (child[p] = Idle)

(* The contract's watermark: N4 keeps a checkpoint per partition             *)
(* (docs/N4_WORKER_CONTINUOUS_STATE_TRANSITION_CONTRACT.md:49), so the       *)
(* events of a partition are consumed one after the other.                   *)
PendingConsumed == \A e \in Events : (e \in outbox) ~> (e \in Consumed)
=============================================================================
