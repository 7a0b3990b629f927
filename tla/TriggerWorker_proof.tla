-------------------------- MODULE TriggerWorker_proof --------------------------
(***************************************************************************)
(* Proofs about TriggerWorker, for any events, partitions, runs and number *)
(* of wrappers, with any of them killed at any time.                       *)
(***************************************************************************)
EXTENDS TriggerWorker, TLAPS

(* The rows of one run: its events, and those it has an output for.          *)
Batch(r, events, outs) ==
  {RunRow(r)}
    \cup {InboxRow(e, r) : e \in events}
    \cup {CheckpointRow(e, r) : e \in {d \in events : Latest(events, d)}}
    \cup {OutputRow(e, r) : e \in outs}

AllRows ==
  {RunRow(r) : r \in Runs}
    \cup {InboxRow(e, r) : e \in Events, r \in Runs}
    \cup {CheckpointRow(e, r) : e \in Events, r \in Runs}
    \cup {OutputRow(e, r) : e \in Events, r \in Runs}

Started == [step : {"started", "clean"}, run : Runs, source : Sources, oracle : SUBSET Events]
Fetched == [step : {"fetched"}, run : Runs, oracle : SUBSET Events, events : SUBSET outbox]
Writing == [step : {"writing"}, events : SUBSET outbox, todo : SUBSET AllRows, mine : SUBSET AllRows]

(* A child that writes has the rows of one run before it or inserted, with   *)
(* outputs for all of its events or for none.                                *)
ChildOK(c) ==
  \/ c = Idle
  \/ c \in Started
  \/ c \in Fetched /\ c.oracle \in {{}, c.events}
  \/ c \in Writing /\ \E r \in Runs, outs \in {{}, c.events} :
                        c.todo \cup c.mine = Batch(r, c.events, outs)

(* The committed rows: their keys are unique, a run's rows stand beside its  *)
(* run row, an output and a checkpoint beside the inbox row of their event.  *)
RowsOK ==
  /\ rows \subseteq AllRows
  /\ \A x \in rows : x.event \in outbox \cup {0}
  /\ \A x, y \in rows : Clash(x, y) => x = y
  /\ \A x \in rows : RunRow(x.run) \in rows
  /\ \A x \in rows : x.table \in {"output", "checkpoint"} => InboxRow(x.event, x.run) \in rows

(* No two transactions, and no transaction and the tables, hold one key.     *)
Apart ==
  /\ \A p \in Pollers : \A x \in Inserted(p), y \in rows : ~ Clash(x, y)
  /\ \A p, q \in Pollers : p # q => \A x \in Inserted(p), y \in Inserted(q) : ~ Clash(x, y)

WorkerInv ==
  /\ outbox \subseteq Events
  /\ child = [p \in Pollers |-> child[p]]
  /\ \A p \in Pollers : ChildOK(child[p])
  /\ RowsOK /\ Apart

-----------------------------------------------------------------------------
LEMMA RowFacts ==
  ASSUME NEW x \in AllRows
  PROVE  /\ x.table \in Tables /\ x.run \in Runs
         /\ x.table = "run" => x = RunRow(x.run) /\ x.event = 0
         /\ x.table = "inbox" => x = InboxRow(x.event, x.run) /\ x.event \in Events
         /\ x.table = "checkpoint" => x = CheckpointRow(x.event, x.run) /\ x.event \in Events
         /\ x.table = "output" => x = OutputRow(x.event, x.run) /\ x.event \in Events
BY DEF AllRows, Tables, RunRow, InboxRow, CheckpointRow, OutputRow, Row

(* The rows of a run have different keys.                                    *)
LEMMA BatchFacts ==
  ASSUME NEW r \in Runs, NEW events \in SUBSET Events, NEW outs \in {{}, events}
  PROVE  /\ Batch(r, events, outs) \subseteq AllRows
         /\ RunRow(r) \in Batch(r, events, outs)
         /\ \A x \in Batch(r, events, outs) : x.run = r /\ x.event \in events \cup {0}
         /\ \A e : InboxRow(e, r) \in Batch(r, events, outs) <=> e \in events
         /\ \A e : OutputRow(e, r) \in Batch(r, events, outs) <=> e \in outs
         /\ \A x \in Batch(r, events, outs) :
              x.table \in {"output", "checkpoint"} => InboxRow(x.event, r) \in Batch(r, events, outs)
         /\ \A x, y \in Batch(r, events, outs) : Clash(x, y) => x = y
<1>. DEFINE B == Batch(r, events, outs)
<1>1. B \subseteq AllRows BY DEF Batch, AllRows
<1>2. RunRow(r) \in B BY DEF Batch
<1>3. \A x \in B : x.run = r /\ x.event \in events \cup {0}
  BY DEF Batch, RunRow, InboxRow, CheckpointRow, OutputRow, Row
<1>4. \A e : InboxRow(e, r) \in B <=> e \in events
  BY DEF Batch, RunRow, InboxRow, CheckpointRow, OutputRow, Row
<1>5. \A e : OutputRow(e, r) \in B <=> e \in outs
  BY DEF Batch, RunRow, InboxRow, CheckpointRow, OutputRow, Row
<1>6. \A x \in B : x.table \in {"output", "checkpoint"} => x.event \in events
  BY DEF Batch, RunRow, InboxRow, CheckpointRow, OutputRow, Row
<1>7. \A x \in B : x.table = "checkpoint" => x.event \in events /\ Latest(events, x.event)
  <2>1. SUFFICES ASSUME NEW x \in B, x.table = "checkpoint"
                 PROVE  x.event \in events /\ Latest(events, x.event)
    OBVIOUS
  <2>2. PICK e \in {d \in events : Latest(events, d)} : x = CheckpointRow(e, r)
    BY <2>1 DEF Batch, RunRow, InboxRow, OutputRow, Row
  <2>3. x.event = e BY <2>2 DEF CheckpointRow, Row
  <2>4. QED BY <2>2, <2>3
<1>8. ASSUME NEW x \in B, NEW y \in B, Clash(x, y) PROVE x = y
  <2>1. x.table = y.table /\ x.key = y.key /\ x.table \in Tables /\ x.run = r /\ y.run = r
    BY <1>1, <1>3, <1>8, RowFacts DEF Clash
  <2>2. CASE x.table = "checkpoint"
    <3>1. /\ x = CheckpointRow(x.event, r) /\ y = CheckpointRow(y.event, r)
          /\ x.event \in events /\ y.event \in events
          /\ Latest(events, x.event) /\ Latest(events, y.event)
      BY <1>1, <1>7, <2>1, <2>2, RowFacts
    <3>2. Partition[x.event] = Partition[y.event] BY <2>1, <3>1 DEF CheckpointRow, Row
    <3>3. x.event <= y.event /\ y.event <= x.event BY <3>1, <3>2 DEF Latest
    <3>4. x.event \in Nat /\ y.event \in Nat BY <3>1, WorkerAssumption
    <3>5. x.event = y.event BY <3>3, <3>4
    <3>6. QED BY <3>1, <3>5
  <2>3. CASE x.table = "run"
    <3>1. x = RunRow(r) /\ y = RunRow(r) BY <1>1, <2>1, <2>3, RowFacts
    <3>2. QED BY <3>1
  <2>4. CASE x.table = "inbox"
    <3>1. x = InboxRow(x.event, r) /\ y = InboxRow(y.event, r) BY <1>1, <2>1, <2>4, RowFacts
    <3>2. x.event = y.event BY <2>1, <3>1 DEF InboxRow, Row
    <3>3. QED BY <3>1, <3>2
  <2>5. CASE x.table = "output"
    <3>1. x = OutputRow(x.event, r) /\ y = OutputRow(y.event, r) BY <1>1, <2>1, <2>5, RowFacts
    <3>2. x.event = y.event BY <2>1, <3>1 DEF OutputRow, Row
    <3>3. QED BY <3>1, <3>2
  <2>6. QED BY <2>1, <2>2, <2>3, <2>4, <2>5 DEF Tables
<1>9. QED BY <1>1, <1>2, <1>3, <1>4, <1>5, <1>6, <1>8

-----------------------------------------------------------------------------
(* A step of one child that inserts nothing, and one that only publishes.    *)
LEMMA ChildStep ==
  ASSUME WorkerInv, NEW p \in Pollers, NEW c,
         child' = [child EXCEPT ![p] = c], UNCHANGED <<outbox, rows>>,
         ChildOK(c), c.step = "writing" => c.mine = {}
  PROVE  WorkerInv'
<1>. USE DEF WorkerInv
<1>1. child'[p] = c /\ \A q \in Pollers : q # p => child'[q] = child[q] OBVIOUS
<1>2. child' = [q \in Pollers |-> child'[q]] OBVIOUS
<1>3. \A q \in Pollers : ChildOK(child[q])' BY <1>1 DEF ChildOK, Fetched, Writing
<1>4. RowsOK' BY DEF RowsOK
<1>5. Inserted(p)' = {} BY <1>1 DEF Inserted
<1>6. \A q \in Pollers : q # p => Inserted(q)' = Inserted(q) BY <1>1 DEF Inserted
<1>7. Apart' BY <1>5, <1>6 DEF Apart
<1>8. QED BY <1>2, <1>3, <1>4, <1>7

LEMMA IdleStep ==
  ASSUME WorkerInv, NEW p \in Pollers, Abort(p)
  PROVE  WorkerInv'
BY ChildStep DEF Abort, ChildOK, Idle

LEMMA PublishStep ==
  ASSUME WorkerInv, NEW e \in Events, Publish(e)
  PROVE  WorkerInv'
<1>. USE DEF WorkerInv
<1>1. outbox' = outbox \cup {e} /\ rows' = rows /\ child' = child BY DEF Publish
<1>2. \A q \in Pollers : ChildOK(child[q])' BY <1>1 DEF ChildOK, Fetched, Writing
<1>3. RowsOK' BY <1>1 DEF RowsOK
<1>4. Apart' BY <1>1 DEF Apart, Inserted
<1>5. QED BY <1>1, <1>2, <1>3, <1>4

LEMMA BeginStep ==
  ASSUME WorkerInv, NEW p \in Pollers, NEW s \in Sources, NEW r \in Runs,
         NEW events \in SUBSET Events, Poll(p, s, r) \/ Replay(p, s, r, events)
  PROVE  WorkerInv'
<1>1. PICK asked \in SUBSET Events :
        child' = [child EXCEPT ![p] = [step |-> "started", run |-> r, source |-> s, oracle |-> asked]]
  BY DEF Poll, Replay
<1>2. UNCHANGED <<outbox, rows>> BY DEF Poll, Replay
<1>3. [step |-> "started", run |-> r, source |-> s, oracle |-> asked] \in Started BY DEF Started
<1>4. QED BY <1>1, <1>2, <1>3, ChildStep DEF ChildOK

LEMMA BaselineStep ==
  ASSUME WorkerInv, NEW p \in Pollers, Baseline(p)
  PROVE  WorkerInv'
<1>1. CASE Abort(p) BY <1>1, IdleStep
<1>2. CASE child' = [child EXCEPT ![p].step = "clean"] /\ UNCHANGED <<outbox, rows>>
  <2>1. child[p] \in Started
    BY DEF Baseline, WorkerInv, ChildOK, Idle, Fetched, Writing
  <2>2. PICK c : c = [child[p] EXCEPT !.step = "clean"] OBVIOUS
  <2>3. c \in Started /\ c.step = "clean" BY <2>1, <2>2 DEF Started
  <2>4. child' = [child EXCEPT ![p] = c] BY <1>2, <2>2
  <2>5. QED BY <1>2, <2>3, <2>4, ChildStep DEF ChildOK
<1>3. QED BY <1>1, <1>2 DEF Baseline

LEMMA FetchStep ==
  ASSUME WorkerInv, NEW p \in Pollers, Fetch(p)
  PROVE  WorkerInv'
<1>1. CASE Abort(p) BY <1>1, IdleStep
<1>2. child[p] \in Started
  BY DEF Fetch, WorkerInv, ChildOK, Idle, Fetched, Writing
<1>3. PICK run \in Runs, oracle \in SUBSET Events :
        run = child[p].run /\ oracle = child[p].oracle
  BY <1>2 DEF Started
<1>4. ASSUME NEW events \in SUBSET outbox, oracle \in {{}, events}, UNCHANGED <<outbox, rows>>,
             child' = [child EXCEPT ![p] =
               [step |-> "fetched", run |-> run, oracle |-> oracle, events |-> events]]
      PROVE  WorkerInv'
  <2>1. [step |-> "fetched", run |-> run, oracle |-> oracle, events |-> events] \in Fetched
    BY DEF Fetched
  <2>2. QED BY <1>4, <2>1, ChildStep DEF ChildOK
<1>5. \A s : FirstOf(Unprocessed(s), MaxEvents) \in SUBSET outbox BY DEF FirstOf, Unprocessed
<1>6. CASE oracle = {}
  BY <1>1, <1>3, <1>4, <1>5, <1>6 DEF Fetch
<1>7. CASE oracle # {}
  BY <1>1, <1>3, <1>4, <1>7 DEF Fetch
<1>8. QED BY <1>6, <1>7

LEMMA PlanStep ==
  ASSUME WorkerInv, NEW p \in Pollers, Plan(p)
  PROVE  WorkerInv'
<1>1. child[p] \in Fetched /\ child[p].oracle \in {{}, child[p].events}
  BY DEF Plan, WorkerInv, ChildOK, Idle, Started, Writing
<1>2. PICK run \in Runs, oracle \in SUBSET Events :
        run = child[p].run /\ oracle = child[p].oracle
  BY <1>1 DEF Fetched
<1>3. PICK accepted \in SUBSET outbox : accepted = Accepted(child[p])
  BY <1>1 DEF Accepted, Fetched
<1>4. accepted \in SUBSET Events BY DEF WorkerInv
<1>5. PICK outs : outs = accepted \cap oracle OBVIOUS
<1>6. outs \in {{}, accepted} BY <1>1, <1>2, <1>3, <1>5 DEF Accepted
<1>7. Planned(child[p], accepted) = Batch(run, accepted, outs)
  BY <1>2, <1>5 DEF Planned, Batch
<1>8. PICK c : c = [step |-> "writing", events |-> accepted,
                    todo |-> Batch(run, accepted, outs), mine |-> {}]
  OBVIOUS
<1>9. c \in Writing BY <1>4, <1>6, <1>8, BatchFacts DEF Writing
<1>10. c.todo \cup c.mine = Batch(run, accepted, outs) /\ c.events = accepted /\ c.mine = {}
  BY <1>8
<1>11. ChildOK(c) BY <1>6, <1>9, <1>10 DEF ChildOK
<1>12. child' = [child EXCEPT ![p] = c] /\ UNCHANGED <<outbox, rows>>
  BY <1>3, <1>7, <1>8 DEF Plan
<1>13. QED BY <1>10, <1>11, <1>12, ChildStep

(* The facts of a child that writes.                                         *)
LEMMA WritingFacts ==
  ASSUME WorkerInv, NEW p \in Pollers, child[p].step = "writing"
  PROVE  /\ child[p] \in Writing
         /\ \E r \in Runs, outs \in {{}, child[p].events} :
              child[p].todo \cup child[p].mine = Batch(r, child[p].events, outs)
         /\ Inserted(p) = child[p].mine
BY DEF WorkerInv, ChildOK, Idle, Started, Fetched, Inserted

LEMMA InsertStep ==
  ASSUME WorkerInv, NEW p \in Pollers, Insert(p)
  PROVE  WorkerInv'
<1>1. PICK x \in child[p].todo :
        /\ \A q \in Pollers \ {p} : ~ Blocks(q, x)
        /\ \/ /\ \E y \in rows : Clash(x, y)
              /\ Abort(p)
           \/ /\ \A y \in rows : ~ Clash(x, y)
              /\ child' = [child EXCEPT ![p] =
                   [step |-> "writing", events |-> child[p].events,
                    todo |-> child[p].todo \ {x}, mine |-> child[p].mine \cup {x}]]
              /\ UNCHANGED <<outbox, rows>>
  BY DEF Insert
<1>2. CASE Abort(p) BY <1>2, IdleStep
<1>3. CASE /\ \A y \in rows : ~ Clash(x, y)
           /\ child' = [child EXCEPT ![p] =
                   [step |-> "writing", events |-> child[p].events,
                    todo |-> child[p].todo \ {x}, mine |-> child[p].mine \cup {x}]]
           /\ UNCHANGED <<outbox, rows>>
  <2>. USE DEF WorkerInv
  <2>1. child[p].step = "writing" BY DEF Insert
  <2>2. PICK events \in SUBSET outbox, todo \in SUBSET AllRows, mine \in SUBSET AllRows :
          child[p] = [step |-> "writing", events |-> events, todo |-> todo, mine |-> mine]
    BY <2>1, WritingFacts DEF Writing
  <2>3. x \in todo /\ Inserted(p) = mine BY <1>1, <2>2 DEF Inserted
  <2>4. PICK c : c = [step |-> "writing", events |-> child[p].events,
                      todo |-> child[p].todo \ {x}, mine |-> child[p].mine \cup {x}]
    OBVIOUS
  <2>. child' = [child EXCEPT ![p] = c] BY <1>3, <2>4
  <2>. child'[p] = c OBVIOUS
  <2>. c = [step |-> "writing", events |-> events, todo |-> todo \ {x}, mine |-> mine \cup {x}]
    BY <2>2, <2>4
  <2>5. \A q \in Pollers : q # p => child'[q] = child[q] OBVIOUS
  <2>6. child' = [q \in Pollers |-> child'[q]] OBVIOUS
  <2>7. PICK r \in Runs, outs \in {{}, events} : todo \cup mine = Batch(r, events, outs)
    BY <2>1, <2>2, WritingFacts
  <2>8. child'[p] \in Writing BY <2>3, <2>4 DEF Writing
  <2>9. child'[p].todo \cup child'[p].mine = Batch(r, events, outs) /\ child'[p].events = events
    BY <2>3, <2>4, <2>7
  <2>10. ChildOK(child[p])'
    <3>1. outbox' = outbox BY <1>3
    <3>2. child'[p] \in Writing' BY <2>8, <3>1 DEF Writing
    <3>3. QED BY <2>9, <3>2 DEF ChildOK
  <2>11. \A q \in Pollers : ChildOK(child[q])'
    <3>1. \A q \in Pollers : q # p => ChildOK(child[q])'
      BY <1>3, <2>5 DEF ChildOK, Fetched, Writing
    <3>2. QED BY <2>10, <3>1
  <2>12. RowsOK' BY <1>3 DEF RowsOK
  <2>13. Inserted(p)' = mine \cup {x} BY <2>4 DEF Inserted
  <2>14. \A q \in Pollers : q # p => Inserted(q)' = Inserted(q) BY <2>5 DEF Inserted
  <2>15. \A q \in Pollers : q # p => \A y \in Inserted(q) : ~ Clash(x, y) /\ ~ Clash(y, x)
    BY <1>1 DEF Blocks, Clash
  <2>16. Apart' BY <1>3, <2>3, <2>13, <2>14, <2>15 DEF Apart
  <2>17. QED BY <1>3, <2>6, <2>11, <2>12, <2>16
<1>4. QED BY <1>1, <1>2, <1>3

(* A commit adds the rows of one whole run.                                  *)
LEMMA CommitFacts ==
  ASSUME WorkerInv, NEW p \in Pollers, Commit(p)
  PROVE  \E r \in Runs, events \in SUBSET outbox, outs \in SUBSET outbox :
           /\ outs \in {{}, events}
           /\ rows' = rows \cup Batch(r, events, outs)
           /\ Inserted(p) = Batch(r, events, outs)
<1>1. child[p].step = "writing" /\ child[p].todo = {} BY DEF Commit
<1>2. PICK r \in Runs, outs \in {{}, child[p].events} :
        child[p].todo \cup child[p].mine = Batch(r, child[p].events, outs)
  BY <1>1, WritingFacts
<1>3. child[p].events \in SUBSET outbox BY <1>1, WritingFacts DEF Writing
<1>4. child[p].mine = Batch(r, child[p].events, outs) BY <1>1, <1>2
<1>5. QED BY <1>1, <1>2, <1>3, <1>4, WritingFacts DEF Commit

LEMMA CommitStep ==
  ASSUME WorkerInv, NEW p \in Pollers, Commit(p)
  PROVE  WorkerInv'
<1>. USE DEF WorkerInv
<1>1. PICK r \in Runs, events \in SUBSET outbox, outs \in SUBSET outbox :
        /\ outs \in {{}, events}
        /\ rows' = rows \cup Batch(r, events, outs)
        /\ Inserted(p) = Batch(r, events, outs)
  BY CommitFacts
<1>2. PICK B : B = Batch(r, events, outs) OBVIOUS
<1>3. /\ B \subseteq AllRows
      /\ RunRow(r) \in B
      /\ \A x \in B : x.run = r /\ x.event \in events \cup {0}
      /\ \A x \in B : x.table \in {"output", "checkpoint"} => InboxRow(x.event, r) \in B
      /\ \A x, y \in B : Clash(x, y) => x = y
  BY <1>1, <1>2, BatchFacts
<1>4. rows' = rows \cup B /\ outbox' = outbox /\ Inserted(p) = B BY <1>1, <1>2 DEF Commit
<1>5. child'[p] = Idle /\ \A q \in Pollers : q # p => child'[q] = child[q] BY DEF Commit
<1>6. child' = [q \in Pollers |-> child'[q]] BY DEF Commit
<1>7. \A q \in Pollers : ChildOK(child[q])' BY <1>4, <1>5 DEF ChildOK, Fetched, Writing
<1>8. Inserted(p)' = {} BY <1>5 DEF Inserted, Idle
<1>9. \A q \in Pollers : q # p => Inserted(q)' = Inserted(q) BY <1>5 DEF Inserted
<1>10. RowsOK'
  <2>1. \A x \in B, y \in rows : ~ Clash(x, y) /\ ~ Clash(y, x) BY <1>4 DEF Apart, Clash
  <2>2. \A x, y \in rows' : Clash(x, y) => x = y BY <1>3, <1>4, <2>1 DEF RowsOK
  <2>3. \A x \in rows' : RunRow(x.run) \in rows' BY <1>3, <1>4 DEF RowsOK
  <2>4. \A x \in rows' : x.table \in {"output", "checkpoint"} => InboxRow(x.event, x.run) \in rows'
    BY <1>3, <1>4 DEF RowsOK
  <2>5. QED BY <1>3, <1>4, <2>2, <2>3, <2>4 DEF RowsOK
<1>11. Apart'
  <2>1. ASSUME NEW q \in Pollers, NEW x \in Inserted(q)', NEW y \in rows' PROVE ~ Clash(x, y)
    <3>1. q # p /\ x \in Inserted(q) BY <1>8, <1>9, <2>1
    <3>2. y \in rows \/ y \in Inserted(p) BY <1>4, <2>1
    <3>3. QED BY <3>1, <3>2 DEF Apart
  <2>2. \A q, s \in Pollers : q # s => \A x \in Inserted(q)', y \in Inserted(s)' : ~ Clash(x, y)
    BY <1>8, <1>9 DEF Apart
  <2>3. QED BY <2>1, <2>2 DEF Apart
<1>12. QED BY <1>4, <1>6, <1>7, <1>10, <1>11

LEMMA WorkerNext == WorkerInv /\ [Next]_vars => WorkerInv'
<1>. SUFFICES ASSUME WorkerInv, [Next]_vars PROVE WorkerInv' OBVIOUS
<1>1. ASSUME NEW e \in Events, Publish(e) PROVE WorkerInv' BY <1>1, PublishStep
<1>2. ASSUME NEW p \in Pollers, Start(p) PROVE WorkerInv' BY <1>2, BeginStep DEF Start
<1>3. ASSUME NEW p \in Pollers, NEW s \in Sources, NEW r \in Runs, NEW events \in SUBSET Events,
             Replay(p, s, r, events)
      PROVE  WorkerInv'
  BY <1>3, BeginStep
<1>4. ASSUME NEW p \in Pollers, Work(p) PROVE WorkerInv'
  BY <1>4, BaselineStep, FetchStep, PlanStep, CommitStep, IdleStep DEF Work, Deadlocked
<1>5. ASSUME NEW p \in Pollers, Insert(p) PROVE WorkerInv' BY <1>5, InsertStep
<1>6. ASSUME NEW p \in Pollers, Die(p) PROVE WorkerInv' BY <1>6, IdleStep DEF Die
<1>7. CASE UNCHANGED vars
  <2>1. \A p \in Pollers : ChildOK(child[p])' BY <1>7 DEF vars, WorkerInv, ChildOK, Fetched, Writing
  <2>2. QED BY <1>7, <2>1 DEF vars, WorkerInv, RowsOK, Apart, Inserted
<1>8. QED BY <1>1, <1>2, <1>3, <1>4, <1>5, <1>6, <1>7 DEF Next

LEMMA WorkerInit == Init => WorkerInv
BY DEF Init, WorkerInv, ChildOK, RowsOK, Apart, Inserted, Idle

LEMMA WorkerAlways == Spec => []WorkerInv
BY WorkerInit, WorkerNext, PTL DEF Spec

LEMMA WorkerTypes == WorkerInv => TypeOK
<1>. SUFFICES ASSUME WorkerInv PROVE TypeOK OBVIOUS
<1>1. \A p \in Pollers : child[p].step \in {"idle", "started", "clean", "fetched", "writing"}
  BY DEF WorkerInv, ChildOK, Idle, Started, Fetched, Writing
<1>2. \A x \in rows : x.table \in Tables /\ x.run \in Runs BY RowFacts DEF WorkerInv, RowsOK
<1>3. QED BY <1>1, <1>2 DEF WorkerInv, RowsOK, TypeOK

(* The tables hold rows of the four kinds, of published events.              *)
THEOREM TypeAlways == Spec => []TypeOK
BY WorkerAlways, WorkerTypes, PTL

LEMMA WorkerEmits == WorkerInv => EmittedOnce
<1>. SUFFICES ASSUME WorkerInv, NEW x \in rows, x.table = "output"
              PROVE  /\ InboxRow(x.event, x.run) \in rows
                     /\ \A y \in rows : y.table = "output" /\ y.event = x.event => y = x
  BY DEF EmittedOnce
<1>. USE DEF WorkerInv, RowsOK
<1>1. InboxRow(x.event, x.run) \in rows OBVIOUS
<1>2. ASSUME NEW y \in rows, y.table = "output", y.event = x.event PROVE y = x
  <2>1. InboxRow(x.event, y.run) \in rows BY <1>2
  <2>2. InboxRow(x.event, x.run) = InboxRow(x.event, y.run)
    BY <1>1, <2>1 DEF Clash, InboxRow, Row
  <2>3. x.run = y.run BY <2>2 DEF InboxRow, Row
  <2>4. x = OutputRow(x.event, x.run) /\ y = OutputRow(y.event, y.run) BY <1>2, RowFacts
  <2>5. QED BY <1>2, <2>3, <2>4
<1>3. QED BY <1>1, <1>2

(* What an event triggers is emitted at most once, by the run that consumed  *)
(* it: the inbox row, not the output's own key, is what stops a second run.  *)
THEOREM EmittedOnceAlways == Spec => []EmittedOnce
BY WorkerAlways, WorkerEmits, PTL

-----------------------------------------------------------------------------
(* Checkpoints.                                                              *)
Newest ==
  \A e \in Consumed : \E x \in rows :
    x.table = "checkpoint" /\ x.key = Partition[e] /\ x.event >= e

(* Every event of a batch has the last one of its partition beside it.       *)
LEMMA LastOfPartition ==
  ASSUME NEW events \in SUBSET Events, NEW e \in events
  PROVE  \E d \in events : Partition[d] = Partition[e] /\ d >= e /\ Latest(events, d)
<1>1. PICK same \in (SUBSET Events) \ {{}} : same = {d \in events : Partition[d] = Partition[e]}
  OBVIOUS
<1>2. PICK d \in same : \A f \in same : f <= d BY WorkerAssumption
<1>3. d \in Nat /\ e \in Nat BY <1>1, <1>2, WorkerAssumption
<1>4. QED BY <1>1, <1>2, <1>3 DEF Latest

LEMMA CommitNewest ==
  ASSUME WorkerInv, Newest, NEW p \in Pollers, Commit(p)
  PROVE  Newest'
<1>1. PICK r \in Runs, events \in SUBSET outbox, outs \in SUBSET outbox :
        /\ outs \in {{}, events}
        /\ rows' = rows \cup Batch(r, events, outs)
  BY CommitFacts
<1>2. events \in SUBSET Events BY DEF WorkerInv
<1>3. SUFFICES ASSUME NEW z \in rows', z.table = "inbox"
               PROVE  \E x \in rows' :
                        x.table = "checkpoint" /\ x.key = Partition[z.event] /\ x.event >= z.event
  BY DEF Newest, Consumed
<1>4. CASE z \in rows
  <2>1. z.event \in Consumed BY <1>3, <1>4 DEF Consumed
  <2>2. PICK x \in rows : x.table = "checkpoint" /\ x.key = Partition[z.event] /\ x.event >= z.event
    BY <2>1 DEF Newest
  <2>3. x \in rows' BY <1>1
  <2>4. QED BY <2>2, <2>3
<1>5. CASE z \in Batch(r, events, outs)
  <2>1. PICK B : B = Batch(r, events, outs) OBVIOUS
  <2>2. B \subseteq AllRows /\ (\A x \in B : x.run = r) BY <1>1, <1>2, <2>1, BatchFacts
  <2>3. \A e : InboxRow(e, r) \in B <=> e \in events BY <1>1, <1>2, <2>1, BatchFacts
  <2>4. z = InboxRow(z.event, r) BY <1>3, <1>5, <2>1, <2>2, RowFacts
  <2>5. z.event \in events BY <1>5, <2>1, <2>3, <2>4
  <2>6. PICK d \in events : Partition[d] = Partition[z.event] /\ d >= z.event /\ Latest(events, d)
    BY <1>2, <2>5, LastOfPartition
  <2>7. CheckpointRow(d, r) \in Batch(r, events, outs) BY <2>6 DEF Batch
  <2>8. QED BY <1>1, <2>6, <2>7 DEF CheckpointRow, Row
<1>6. QED BY <1>1, <1>3, <1>4, <1>5

LEMMA NewestNext == WorkerInv /\ Newest /\ [Next]_vars => Newest'
<1>. SUFFICES ASSUME WorkerInv, Newest, [Next]_vars PROVE Newest' OBVIOUS
<1>1. CASE UNCHANGED rows BY <1>1 DEF Newest, Consumed
<1>2. CASE \E p \in Pollers : Commit(p) BY <1>2, CommitNewest
<1>3. UNCHANGED rows \/ \E p \in Pollers : Commit(p)
  BY DEF Next, vars, Publish, Start, Poll, Replay, Work, Baseline, Fetch, Plan, Deadlocked, Insert,
     Die, Abort
<1>4. QED BY <1>1, <1>2, <1>3

LEMMA CheckpointFacts == WorkerInv /\ Newest => CheckpointIsNewest
<1>. SUFFICES ASSUME WorkerInv, Newest PROVE CheckpointIsNewest OBVIOUS
<1>. USE DEF WorkerInv, RowsOK
<1>1. Checkpoint \subseteq Consumed
  <2>1. SUFFICES ASSUME NEW x \in rows, x.table = "checkpoint" PROVE x.event \in Consumed
    BY DEF Checkpoint
  <2>2. InboxRow(x.event, x.run) \in rows BY <2>1
  <2>3. QED BY <2>2 DEF Consumed, InboxRow, Row
<1>2. \A x, y \in rows : x.table = "checkpoint" /\ y.table = "checkpoint" /\ x.key = y.key => x = y
  BY DEF Clash
<1>3. QED BY <1>1, <1>2 DEF Newest, CheckpointIsNewest

(* A partition has one checkpoint, and it names the newest of the events     *)
(* that were consumed: the commit that could set it back fails.              *)
THEOREM CheckpointAlways == Spec => []CheckpointIsNewest
<1>1. Init => Newest BY DEF Init, Newest, Consumed
<1>2. QED BY <1>1, WorkerAlways, NewestNext, CheckpointFacts, PTL DEF Spec

-----------------------------------------------------------------------------
(* One batch to a partition.                                                 *)
(* The run that consumed an event holds its partition's checkpoint.          *)
CheckpointOf(x) ==
  \E y \in rows : y.table = "checkpoint" /\ y.key = Partition[x.event] /\ y.run = x.run

Watermarked == \A x \in rows : x.table = "inbox" => CheckpointOf(x)

(* No partition has events of two runs.                                      *)
OneRunPerPartition ==
  \A x, y \in rows :
    x.table = "inbox" /\ y.table = "inbox" /\ Partition[x.event] = Partition[y.event]
      => x.run = y.run

Taken(e) == \E d \in Consumed : Partition[d] = Partition[e]

LEMMA CommitWatermarked ==
  ASSUME WorkerInv, Watermarked, NEW p \in Pollers, Commit(p)
  PROVE  Watermarked'
<1>1. PICK r \in Runs, events \in SUBSET outbox, outs \in SUBSET outbox :
        /\ outs \in {{}, events}
        /\ rows' = rows \cup Batch(r, events, outs)
  BY CommitFacts
<1>2. events \in SUBSET Events BY DEF WorkerInv
<1>3. PICK B : B = Batch(r, events, outs) OBVIOUS
<1>4. SUFFICES ASSUME NEW z \in rows', z.table = "inbox"
               PROVE  \E y \in rows' :
                        y.table = "checkpoint" /\ y.key = Partition[z.event] /\ y.run = z.run
  BY DEF Watermarked, CheckpointOf
<1>5. CASE z \in rows
  <2>1. PICK y \in rows : y.table = "checkpoint" /\ y.key = Partition[z.event] /\ y.run = z.run
    BY <1>4, <1>5 DEF Watermarked, CheckpointOf
  <2>2. y \in rows' BY <1>1
  <2>3. QED BY <2>1, <2>2
<1>6. CASE z \in B
  <2>1. B \subseteq AllRows /\ z.run = r BY <1>1, <1>2, <1>3, <1>6, BatchFacts
  <2>2. z = InboxRow(z.event, r) BY <1>4, <1>6, <2>1, RowFacts
  <2>3. z.event \in events
    <3>1. \A e : InboxRow(e, r) \in B <=> e \in events BY <1>1, <1>2, <1>3, BatchFacts
    <3>2. QED BY <1>6, <2>2, <3>1
  <2>4. PICK d \in events : Partition[d] = Partition[z.event] /\ Latest(events, d)
    BY <1>2, <2>3, LastOfPartition
  <2>5. CheckpointRow(d, r) \in Batch(r, events, outs) BY <2>4 DEF Batch
  <2>6. QED BY <1>1, <2>1, <2>4, <2>5 DEF CheckpointRow, Row
<1>7. QED BY <1>1, <1>3, <1>4, <1>5, <1>6

LEMMA WatermarkedNext == WorkerInv /\ Watermarked /\ [Next]_vars => Watermarked'
<1>. SUFFICES ASSUME WorkerInv, Watermarked, [Next]_vars PROVE Watermarked' OBVIOUS
<1>1. CASE UNCHANGED rows BY <1>1 DEF Watermarked, CheckpointOf
<1>2. CASE \E p \in Pollers : Commit(p) BY <1>2, CommitWatermarked
<1>3. UNCHANGED rows \/ \E p \in Pollers : Commit(p)
  BY DEF Next, vars, Publish, Start, Poll, Replay, Work, Baseline, Fetch, Plan, Deadlocked, Insert,
     Die, Abort
<1>4. QED BY <1>1, <1>2, <1>3

LEMMA OneRun == WorkerInv /\ Watermarked => OneRunPerPartition
<1>. SUFFICES ASSUME WorkerInv, Watermarked,
                     NEW x \in rows, NEW y \in rows, x.table = "inbox", y.table = "inbox",
                     Partition[x.event] = Partition[y.event]
              PROVE  x.run = y.run
  BY DEF OneRunPerPartition
<1>1. PICK c \in rows : c.table = "checkpoint" /\ c.key = Partition[x.event] /\ c.run = x.run
  BY DEF Watermarked, CheckpointOf
<1>2. PICK d \in rows : d.table = "checkpoint" /\ d.key = Partition[y.event] /\ d.run = y.run
  BY DEF Watermarked, CheckpointOf
<1>3. c = d BY <1>1, <1>2 DEF WorkerInv, RowsOK, Clash
<1>4. QED BY <1>1, <1>2, <1>3

(* A later run's commit would put a second checkpoint on the partition.      *)
LEMMA TakenStays ==
  ASSUME WorkerInv, OneRunPerPartition', [Next]_vars,
         NEW e \in Events \ Consumed, Taken(e)
  PROVE  e \notin Consumed'
<1>1. CASE UNCHANGED rows BY <1>1 DEF Consumed
<1>2. ASSUME NEW p \in Pollers, Commit(p), e \in Consumed' PROVE FALSE
  <2>1. PICK r \in Runs, events \in SUBSET outbox, outs \in SUBSET outbox :
          /\ outs \in {{}, events}
          /\ rows' = rows \cup Batch(r, events, outs)
          /\ Inserted(p) = Batch(r, events, outs)
    BY <1>2, CommitFacts
  <2>2. events \in SUBSET Events BY DEF WorkerInv
  <2>3. PICK x \in rows' : x.table = "inbox" /\ x.event = e BY <1>2 DEF Consumed
  <2>4. x \in Batch(r, events, outs)
    <3>1. x \notin rows BY <2>3 DEF Consumed
    <3>2. QED BY <2>1, <2>3, <3>1
  <2>5. x.run = r BY <2>1, <2>2, <2>4, BatchFacts
  <2>6. PICK y \in rows : y.table = "inbox" /\ Partition[y.event] = Partition[e]
    BY DEF Taken, Consumed
  <2>7. y.run = r BY <2>1, <2>3, <2>5, <2>6 DEF OneRunPerPartition
  <2>8. RunRow(r) \in rows BY <2>6, <2>7 DEF WorkerInv, RowsOK
  <2>9. RunRow(r) \in Inserted(p) BY <2>1 DEF Batch
  <2>10. ~ Clash(RunRow(r), RunRow(r)) BY <2>8, <2>9 DEF WorkerInv, Apart
  <2>11. QED BY <2>10 DEF Clash
<1>3. UNCHANGED rows \/ \E p \in Pollers : Commit(p)
  BY DEF Next, vars, Publish, Start, Poll, Replay, Work, Baseline, Fetch, Plan, Deadlocked, Insert,
     Die, Abort
<1>4. QED BY <1>1, <1>2, <1>3

(* _insert_checkpoint_row inserts plainly (worker_consumer.py:1331): all     *)
(* consumed events of a partition are of one run, and once there are some no *)
(* further event of the partition is ever consumed, whatever is polled,      *)
(* replayed, killed or started again (run trigger_watermark).                *)
THEOREM PartitionTakesOneBatch ==
  Spec => /\ []OneRunPerPartition
          /\ [][\A e \in Events \ Consumed : Taken(e) => e \notin Consumed']_vars
<1>1. Init => Watermarked BY DEF Init, Watermarked
<1>2. WorkerInv /\ OneRunPerPartition' /\ [Next]_vars
        => [\A e \in Events \ Consumed : Taken(e) => e \notin Consumed']_vars
  BY TakenStays
<1>3. QED BY <1>1, <1>2, WorkerAlways, WatermarkedNext, OneRun, PTL DEF Spec

-----------------------------------------------------------------------------
(* Circles of waiting transactions.                                          *)

(* A transaction inserted its rows table by table, and the inbox rows in the *)
(* order of their events.                                                    *)
Earlier(y, x) ==
  /\ TableOrder[y.table] <= TableOrder[x.table]
  /\ y.table = x.table /\ x.table \in {"run", "inbox"} => y.event < x.event

OrderedChild(c) == c.step = "writing" => \A y \in c.mine, x \in c.todo : Earlier(y, x)

Ordered == \A p \in Pollers : OrderedChild(child[p])

(* The row a transaction of S wants and another of S holds.                  *)
Wanted(S, p, x) ==
  /\ child[p].step = "writing" /\ IsNext(child[p], x)
  /\ \E q \in S : p # q /\ Blocks(q, x)

LEMMA NextIsEarlier ==
  ASSUME NEW c, c \in Writing, NEW x, IsNext(c, x), NEW z \in c.todo \ {x}
  PROVE  Earlier(x, z)
<1>1. x \in AllRows /\ z \in AllRows BY DEF IsNext, Writing
<1>2. x.table \in Tables /\ z.table \in Tables BY <1>1, RowFacts
<1>3. Precedes(c, x, z) BY DEF IsNext
<1>4. TableOrder[x.table] <= TableOrder[z.table] BY <1>2, <1>3 DEF Precedes, TableOrder, Tables
<1>5. ASSUME x.table = z.table, z.table \in {"run", "inbox"} PROVE x.event < z.event
  <2>1. ~ TableOrder[x.table] < TableOrder[z.table] BY <1>2, <1>5 DEF TableOrder, Tables
  <2>2. Place(c, x) < Place(c, z) BY <1>3, <2>1 DEF Precedes
  <2>3. QED BY <1>5, <2>2 DEF Place
<1>6. QED BY <1>4, <1>5 DEF Earlier

LEMMA OrderedInsert ==
  ASSUME WorkerInv, Ordered, NEW p \in Pollers, Insert(p)
  PROVE  OrderedChild(child'[p])
<1>. USE DEF WorkerInv
<1>1. child[p].step = "writing" /\ child[p] \in Writing BY WritingFacts DEF Insert
<1>2. PICK x \in child[p].todo :
        /\ IsNext(child[p], x)
        /\ \/ Abort(p)
           \/ child' = [child EXCEPT ![p] =
                [step |-> "writing", events |-> child[p].events,
                 todo |-> child[p].todo \ {x}, mine |-> child[p].mine \cup {x}]]
  BY DEF Insert
<1>3. CASE Abort(p) BY <1>3 DEF Abort, OrderedChild, Idle
<1>4. ASSUME child' = [child EXCEPT ![p] =
                [step |-> "writing", events |-> child[p].events,
                 todo |-> child[p].todo \ {x}, mine |-> child[p].mine \cup {x}]]
      PROVE  OrderedChild(child'[p])
  <2>1. child'[p].todo = child[p].todo \ {x} /\ child'[p].mine = child[p].mine \cup {x}
    BY <1>4
  <2>2. \A z \in child[p].todo \ {x} : Earlier(x, z) BY <1>1, <1>2, NextIsEarlier
  <2>3. \A y \in child[p].mine, z \in child[p].todo : Earlier(y, z)
    BY <1>1 DEF Ordered, OrderedChild
  <2>4. QED BY <2>1, <2>2, <2>3 DEF OrderedChild
<1>5. QED BY <1>2, <1>3, <1>4

LEMMA OrderedNext == WorkerInv /\ Ordered /\ [Next]_vars => Ordered'
<1>. SUFFICES ASSUME WorkerInv, Ordered, [Next]_vars, NEW p \in Pollers
              PROVE  OrderedChild(child'[p])
  BY DEF Ordered, OrderedChild
<1>. USE DEF WorkerInv
<1>1. CASE child'[p] = child[p] BY <1>1 DEF Ordered
<1>2. CASE Abort(p) \/ Commit(p) BY <1>2 DEF Abort, Commit, OrderedChild, Idle
<1>3. CASE Insert(p) BY <1>3, OrderedInsert
<1>4. CASE Plan(p) BY <1>4 DEF Plan, OrderedChild
<1>5. CASE Fetch(p) /\ ~ Abort(p) BY <1>5 DEF Fetch, OrderedChild
<1>6. CASE Baseline(p) /\ ~ Abort(p)
  <2>1. child[p] \in Started BY <1>6 DEF Baseline, ChildOK, Idle, Fetched, Writing
  <2>2. child'[p].step = "clean" BY <1>6, <2>1 DEF Baseline, Started
  <2>3. QED BY <2>2 DEF OrderedChild
<1>7. ASSUME NEW s, NEW r, NEW events, Poll(p, s, r) \/ Replay(p, s, r, events)
      PROVE  OrderedChild(child'[p])
  BY <1>7 DEF Poll, Replay, OrderedChild
<1>8. ASSUME NEW q \in Pollers,
             \/ Work(q) \/ Insert(q) \/ Die(q)
             \/ \E s, r : Poll(q, s, r)
             \/ \E s, r, events : Replay(q, s, r, events)
      PROVE  OrderedChild(child'[p])
  <2>1. CASE q = p
    BY <1>2, <1>3, <1>4, <1>5, <1>6, <1>7, <1>8, <2>1 DEF Work, Deadlocked, Die
  <2>2. CASE q # p
    <3>1. PICK c : child' = [child EXCEPT ![q] = c]
      BY <1>8 DEF Work, Baseline, Fetch, Plan, Commit, Deadlocked, Insert, Die, Abort, Poll, Replay
    <3>2. QED BY <1>1, <2>2, <3>1
  <2>3. QED BY <2>1, <2>2
<1>9. CASE UNCHANGED vars \/ \E e \in Events : Publish(e) BY <1>1, <1>9 DEF vars, Publish
<1>10. QED BY <1>8, <1>9 DEF Next, Start

(* What is held of a run and what is wanted of it.                           *)
LEMMA WantedFacts ==
  ASSUME WorkerInv, Ordered, NEW S \in SUBSET Pollers, Circle(S),
         NEW p \in S, NEW x, Wanted(S, p, x)
  PROVE  /\ x \in AllRows /\ x.table \in {"inbox", "checkpoint"}
         /\ \E q \in S : \E y \in child[q].mine :
              child[q].step = "writing" /\ y \in AllRows /\ Clash(x, y)
<1>1. child[p].step = "writing" /\ IsNext(child[p], x) /\ x \in child[p].todo
  BY DEF Wanted, IsNext
<1>2. child[p] \in Writing BY <1>1, WritingFacts
<1>3. PICK events \in SUBSET Events : events = child[p].events BY <1>2 DEF Writing, WorkerInv
<1>4. PICK r \in Runs, outs \in {{}, events} :
        child[p].todo \cup child[p].mine = Batch(r, events, outs)
  BY <1>1, <1>3, WritingFacts
<1>5. PICK B : B = Batch(r, events, outs) OBVIOUS
<1>6. B \subseteq AllRows /\ RunRow(r) \in B /\ \A z \in B : z.run = r
  <2>1. B \subseteq AllRows BY <1>5, BatchFacts
  <2>2. RunRow(r) \in B BY <1>5 DEF Batch
  <2>3. \A z \in B : z.run = r BY <1>5, BatchFacts
  <2>4. QED BY <2>1, <2>2, <2>3
<1>7. x \in B /\ x \in AllRows /\ x.run = r BY <1>1, <1>4, <1>5, <1>6
<1>8. PICK q \in S : p # q /\ Blocks(q, x) BY DEF Wanted
<1>9. PICK y \in Inserted(q) : Clash(x, y) BY <1>8 DEF Blocks
<1>10. child[q].step = "writing" /\ y \in child[q].mine BY <1>9 DEF Inserted
<1>11. y \in AllRows BY <1>10, WritingFacts DEF Writing
<1>12. x.table # "run"
  <2>1. SUFFICES ASSUME x.table = "run" PROVE FALSE OBVIOUS
  <2>2. PICK o \in S : Waits(o, p) BY DEF Circle
  <2>3. PICK z \in child[p].mine : z \in AllRows
    <3>1. PICK w \in child[o].todo : Blocks(p, w) BY <2>2 DEF Waits
    <3>2. PICK z \in Inserted(p) : Clash(w, z) BY <3>1 DEF Blocks
    <3>3. QED BY <1>1, <1>2, <3>2 DEF Inserted, Writing
  <2>4. Earlier(z, x) BY <1>1, <2>3 DEF Ordered, OrderedChild
  <2>5. z.table = "run" BY <2>1, <2>3, <2>4, RowFacts DEF Earlier, TableOrder, Tables
  <2>6. z.event = 0 /\ x.event = 0 BY <1>7, <2>1, <2>3, <2>5, RowFacts
  <2>7. QED BY <2>1, <2>4, <2>5, <2>6 DEF Earlier
<1>13. x.table # "output"
  <2>1. SUFFICES ASSUME x.table = "output" PROVE FALSE OBVIOUS
  <2>2. y.run = r
    <3>1. y.table = "output" BY <1>9, <2>1 DEF Clash
    <3>2. x = OutputRow(x.event, r) /\ y = OutputRow(y.event, y.run)
      BY <1>7, <1>11, <2>1, <3>1, RowFacts
    <3>3. <<x.event, r>> = <<y.event, y.run>> BY <1>9, <3>2 DEF Clash, OutputRow, Row
    <3>4. QED BY <3>3
  <2>3. RunRow(r).table = "run" BY DEF RunRow, Row
  <2>4. RunRow(r) \in child[p].mine
    <3>1. SUFFICES ASSUME RunRow(r) \in child[p].todo \ {x} PROVE FALSE
      BY <1>4, <1>5, <1>6, <2>1, <2>3
    <3>2. Earlier(x, RunRow(r)) BY <1>1, <1>2, <3>1, NextIsEarlier
    <3>3. QED BY <2>1, <2>3, <3>2 DEF Earlier, TableOrder
  <2>5. RunRow(r) \in child[q].mine
    <3>1. PICK theirs \in SUBSET Events : theirs = child[q].events
      BY <1>10, WritingFacts DEF Writing, WorkerInv
    <3>2. PICK s \in Runs, held \in {{}, theirs} :
            child[q].todo \cup child[q].mine = Batch(s, theirs, held)
      BY <1>10, <3>1, WritingFacts
    <3>3. y.run = s
      <4>1. y \in Batch(s, theirs, held) BY <1>10, <3>2
      <4>2. QED BY <4>1, BatchFacts
    <3>4. RunRow(r) \in child[q].todo \cup child[q].mine BY <2>2, <3>2, <3>3 DEF Batch
    <3>5. SUFFICES ASSUME RunRow(r) \in child[q].todo PROVE FALSE BY <3>4
    <3>6. Earlier(y, RunRow(r)) BY <1>10, <3>5 DEF Ordered, OrderedChild
    <3>7. y.table = "output" BY <1>9, <2>1 DEF Clash
    <3>8. QED BY <2>3, <3>6, <3>7 DEF Earlier, TableOrder
  <2>6. ~ Clash(RunRow(r), RunRow(r))
    BY <1>1, <1>8, <1>10, <2>4, <2>5 DEF WorkerInv, Apart, Inserted
  <2>7. QED BY <2>6 DEF Clash
<1>14. QED BY <1>7, <1>9, <1>10, <1>11, <1>12, <1>13, RowFacts DEF Tables

LEMMA SomeoneWants ==
  ASSUME NEW S \in SUBSET Pollers, Circle(S), NEW p \in S
  PROVE  \E x : Wanted(S, p, x)
BY DEF Circle, Waits, Wanted

(* Were all of a circle waiting for inbox rows, the one that waits for the   *)
(* last event would wait for one that waits for a later event.               *)
LEMMA CircleWantsCheckpoint ==
  ASSUME WorkerInv, Ordered, NEW S \in SUBSET Pollers, S # {}, Circle(S)
  PROVE  \E p \in S : \E x : Wanted(S, p, x) /\ x.table = "checkpoint"
<1>1. SUFFICES ASSUME \A p \in S : \A x : Wanted(S, p, x) => x.table # "checkpoint"
               PROVE  FALSE
  OBVIOUS
<1>2. \A p \in S : \A x : Wanted(S, p, x) => x.table = "inbox" /\ x.event \in Events
  BY <1>1, WantedFacts, RowFacts
<1>3. PICK last \in SUBSET Events :
        last = {e \in Events : \E p \in S : \E x : Wanted(S, p, x) /\ x.event = e}
  OBVIOUS
<1>4. last # {} BY <1>2, <1>3, SomeoneWants
<1>5. PICK e \in last : \A d \in last : d <= e BY <1>4, WorkerAssumption
<1>p. PICK p \in S : \E x : Wanted(S, p, x) /\ x.event = e BY <1>3, <1>5
<1>6. PICK x : Wanted(S, p, x) /\ x.event = e BY <1>p
<1>7. PICK q \in S : \E y \in child[q].mine :
        child[q].step = "writing" /\ y \in AllRows /\ Clash(x, y)
  BY <1>6, WantedFacts
<1>8. PICK y \in child[q].mine : child[q].step = "writing" /\ y \in AllRows /\ Clash(x, y)
  BY <1>7
<1>9. y.table = "inbox" /\ y.event = e
  <2>1. x \in AllRows /\ x.table = "inbox" /\ y.table = "inbox"
    BY <1>2, <1>6, <1>8, WantedFacts DEF Clash
  <2>2. x = InboxRow(x.event, x.run) /\ y = InboxRow(y.event, y.run)
    BY <1>8, <2>1, RowFacts
  <2>3. x.event = y.event BY <1>8, <2>2 DEF Clash, InboxRow, Row
  <2>4. QED BY <1>6, <2>1, <2>3
<1>10. PICK z : Wanted(S, q, z) BY SomeoneWants
<1>11. z.table = "inbox" /\ z.event \in last BY <1>2, <1>3, <1>10
<1>12. Earlier(y, z) BY <1>8, <1>10 DEF Ordered, OrderedChild, Wanted, IsNext
<1>13. e < z.event BY <1>9, <1>11, <1>12 DEF Earlier
<1>14. e \in Nat /\ z.event \in Nat /\ z.event <= e BY <1>3, <1>5, <1>11, WorkerAssumption
<1>15. QED BY <1>13, <1>14

(* persist_worker_smoke_write_plan writes table by table and the inbox rows  *)
(* by outbox number, but a partition's checkpoint where its first event was: *)
(* however many transactions wait for one another in a circle, one of them   *)
(* waits for a checkpoint.  Run, inbox and output rows alone never deadlock. *)
THEOREM DeadlocksNeedCheckpoints ==
  Spec => [](\A S \in SUBSET Pollers : S # {} /\ Circle(S) =>
               \E p \in S : \E x : Wanted(S, p, x) /\ x.table = "checkpoint")
<1>1. Init => Ordered BY DEF Init, Ordered, OrderedChild, Idle
<1>2. WorkerInv /\ Ordered =>
        \A S \in SUBSET Pollers : S # {} /\ Circle(S) =>
          \E p \in S : \E x : Wanted(S, p, x) /\ x.table = "checkpoint"
  BY CircleWantsCheckpoint
<1>3. QED BY <1>1, <1>2, WorkerAlways, OrderedNext, PTL DEF Spec

-----------------------------------------------------------------------------
(* The ledger.                                                               *)

LEMMA ConsumerIn ==
  ASSUME NEW R \in SUBSET AllRows, \A x, y \in R : Clash(x, y) => x = y, NEW e \in Events
  PROVE  /\ \A r : InboxRow(e, r) \in R =>
                (CHOOSE x \in R : x.table = "inbox" /\ x.event = e).run = r
         /\ e \in {x.event : x \in {y \in R : y.table = "inbox"}}
              <=> \E r \in Runs : InboxRow(e, r) \in R
<1>1. ASSUME NEW x \in R, x.table = "inbox", x.event = e PROVE x = InboxRow(e, x.run) /\ x.run \in Runs
  BY <1>1, RowFacts
<1>2. ASSUME NEW x \in R, x.table = "inbox", x.event = e PROVE \E r \in Runs : InboxRow(e, r) \in R
  <2>1. InboxRow(e, x.run) \in R /\ x.run \in Runs BY <1>1, <1>2
  <2>2. QED BY <2>1
<1>3. ASSUME NEW r, InboxRow(e, r) \in R
      PROVE  /\ \E x \in R : x.table = "inbox" /\ x.event = e
             /\ (CHOOSE x \in R : x.table = "inbox" /\ x.event = e).run = r
  <2>1. InboxRow(e, r).table = "inbox" /\ InboxRow(e, r).event = e /\ InboxRow(e, r).run = r
    BY DEF InboxRow, Row
  <2>2. PICK z : z = CHOOSE x \in R : x.table = "inbox" /\ x.event = e OBVIOUS
  <2>3. z \in R /\ z.table = "inbox" /\ z.event = e BY <1>3, <2>1, <2>2
  <2>4. z = InboxRow(e, z.run) BY <1>1, <2>3
  <2>5. z = InboxRow(e, r) BY <1>3, <2>3, <2>4 DEF Clash, InboxRow, Row
  <2>6. QED BY <1>3, <2>1, <2>2, <2>5
<1>4. QED BY <1>2, <1>3

LEMMA ConsumerOf ==
  ASSUME WorkerInv, NEW e \in Events
  PROVE  /\ \A r : InboxRow(e, r) \in rows => ConsumedBy[e] = r
         /\ e \notin Consumed => ConsumedBy[e] = "nobody"
         /\ e \in Consumed <=> \E r \in Runs : InboxRow(e, r) \in rows
<1>. USE DEF WorkerInv, RowsOK
<1>1. e \in Consumed <=> \E r \in Runs : InboxRow(e, r) \in rows BY ConsumerIn DEF Consumed
<1>2. ASSUME NEW r, InboxRow(e, r) \in rows PROVE ConsumedBy[e] = r
  <2>1. e \in Consumed BY <1>2 DEF Consumed, InboxRow, Row
  <2>2. (CHOOSE x \in rows : x.table = "inbox" /\ x.event = e).run = r BY <1>2, ConsumerIn
  <2>3. QED BY <2>1, <2>2 DEF ConsumedBy
<1>3. e \notin Consumed => ConsumedBy[e] = "nobody" BY DEF ConsumedBy
<1>4. QED BY <1>1, <1>2, <1>3

LEMMA ConsumerNext ==
  ASSUME WorkerInv', NEW e \in Events
  PROVE  /\ \A r : InboxRow(e, r) \in rows' => ConsumedBy'[e] = r
         /\ e \notin Consumed' => ConsumedBy'[e] = "nobody"
         /\ e \in Consumed' <=> \E r \in Runs : InboxRow(e, r) \in rows'
<1>. USE DEF WorkerInv, RowsOK
<1>1. e \in Consumed' <=> \E r \in Runs : InboxRow(e, r) \in rows' BY ConsumerIn DEF Consumed
<1>2. ASSUME NEW r, InboxRow(e, r) \in rows' PROVE ConsumedBy'[e] = r
  <2>1. e \in Consumed' BY <1>2 DEF Consumed, InboxRow, Row
  <2>2. (CHOOSE x \in rows' : x.table = "inbox" /\ x.event = e).run = r BY <1>2, ConsumerIn
  <2>3. QED BY <2>1, <2>2 DEF ConsumedBy
<1>3. e \notin Consumed' => ConsumedBy'[e] = "nobody" BY DEF ConsumedBy
<1>4. QED BY <1>1, <1>2, <1>3

Emitted == {x.event : x \in {y \in rows : y.table = "output"}}

(* A commit is one step of the ledger: the run consumed nothing before,      *)
(* nobody consumed its events, and all of them have outputs or none.         *)
LEMMA CommitConsumes ==
  ASSUME WorkerInv, WorkerInv', NEW p \in Pollers, Commit(p)
  PROVE  Ledger!Next
<1>1. PICK r \in Runs, events \in SUBSET outbox, outs \in SUBSET outbox :
        /\ outs \in {{}, events}
        /\ rows' = rows \cup Batch(r, events, outs)
        /\ Inserted(p) = Batch(r, events, outs)
  BY CommitFacts
<1>2. events \in SUBSET Events BY DEF WorkerInv
<1>3. PICK B : B = Batch(r, events, outs) OBVIOUS
<1>4. /\ B \subseteq AllRows /\ RunRow(r) \in B /\ \A x \in B : x.run = r
      /\ \A e : InboxRow(e, r) \in B <=> e \in events
      /\ \A e : OutputRow(e, r) \in B <=> e \in outs
  BY <1>1, <1>2, <1>3, BatchFacts
<1>5. rows' = rows \cup B /\ \A x \in B, y \in rows : ~ Clash(x, y)
  BY <1>1, <1>3 DEF WorkerInv, Apart
<1>6. RunRow(r) \notin rows BY <1>4, <1>5 DEF Clash
<1>7. \A e \in Events : ConsumedBy[e] # r
  <2>1. SUFFICES ASSUME NEW e \in Events, ConsumedBy[e] = r PROVE FALSE OBVIOUS
  <2>2. e \in Consumed BY <2>1, ConsumerOf, WorkerAssumption
  <2>3. PICK q \in Runs : InboxRow(e, q) \in rows BY <2>2, ConsumerOf
  <2>4. q = r BY <2>1, <2>3, ConsumerOf
  <2>5. InboxRow(e, r).run = r BY DEF InboxRow, Row
  <2>6. QED BY <1>6, <2>3, <2>4, <2>5 DEF WorkerInv, RowsOK
<1>8. \A e \in events : ConsumedBy[e] = "nobody"
  <2>1. SUFFICES ASSUME NEW e \in events, e \in Consumed PROVE FALSE BY <1>2, ConsumerOf
  <2>2. PICK q \in Runs : InboxRow(e, q) \in rows BY <1>2, <2>1, ConsumerOf
  <2>3. InboxRow(e, r) \in B BY <1>4
  <2>4. QED BY <1>5, <2>2, <2>3 DEF Clash, InboxRow, Row
<1>9. \A e \in Events : ConsumedBy'[e] = IF e \in events THEN r ELSE ConsumedBy[e]
  <2>1. ASSUME NEW e \in Events PROVE ConsumedBy'[e] = IF e \in events THEN r ELSE ConsumedBy[e]
    <3>1. \A q : InboxRow(e, q) \in rows' => ConsumedBy'[e] = q BY ConsumerNext
    <3>2. CASE e \in events BY <1>4, <1>5, <3>1, <3>2
    <3>3. CASE e \notin events /\ e \in Consumed
      <4>1. PICK q \in Runs : InboxRow(e, q) \in rows BY <3>3, ConsumerOf
      <4>2. ConsumedBy[e] = q BY <4>1, ConsumerOf
      <4>3. QED BY <1>5, <3>1, <3>3, <4>1, <4>2
    <3>4. CASE e \notin events /\ e \notin Consumed
      <4>1. \A q : InboxRow(e, q) \notin B
        <5>1. SUFFICES ASSUME NEW q, InboxRow(e, q) \in B PROVE FALSE OBVIOUS
        <5>2. q = r BY <1>4, <5>1 DEF InboxRow, Row
        <5>3. QED BY <1>4, <3>4, <5>1, <5>2
      <4>2. \A q \in Runs : InboxRow(e, q) \notin rows' BY <1>5, <3>4, <4>1, ConsumerOf
      <4>3. e \notin Consumed' BY <4>2, ConsumerNext
      <4>4. ConsumedBy'[e] = "nobody" BY <4>3, ConsumerNext
      <4>5. QED BY <3>4, <4>4, ConsumerOf
    <3>5. QED BY <3>2, <3>3, <3>4
  <2>2. QED BY <2>1
<1>10. ConsumedBy' = [e \in Events |-> IF e \in events THEN r ELSE ConsumedBy[e]]
  <2>1. ConsumedBy' = [e \in Events |-> ConsumedBy'[e]] BY DEF ConsumedBy
  <2>2. QED BY <1>9, <2>1
<1>11. Emitted' = Emitted \cup outs
  <2>1. \A x \in B : x.table = "output" => x.event \in outs
    <3>1. ASSUME NEW x \in B, x.table = "output" PROVE x.event \in outs
      <4>1. x = OutputRow(x.event, r) BY <1>4, <3>1, RowFacts
      <4>2. QED BY <1>4, <4>1
    <3>2. QED BY <3>1
  <2>2. \A e \in outs : OutputRow(e, r) \in B /\ OutputRow(e, r).table = "output"
                        /\ OutputRow(e, r).event = e
    BY <1>4 DEF OutputRow, Row
  <2>3. QED BY <1>5, <2>1, <2>2 DEF Emitted
<1>12. Emitted' \in {Emitted, Emitted \cup events} BY <1>1, <1>11
<1>13. Ledger!Consume(r, events) BY <1>2, <1>7, <1>8, <1>10, <1>12 DEF Ledger!Consume, Emitted
<1>14. QED BY <1>2, <1>13 DEF Ledger!Next

LEMMA LedgerStep == WorkerInv /\ WorkerInv' /\ [Next]_vars => [Ledger!Next]_(Ledger!lvars)
<1>. SUFFICES ASSUME WorkerInv, WorkerInv', [Next]_vars PROVE [Ledger!Next]_(Ledger!lvars)
  OBVIOUS
<1>1. CASE UNCHANGED rows
  <2>1. UNCHANGED Ledger!lvars BY <1>1 DEF Ledger!lvars, ConsumedBy, Consumed
  <2>2. QED BY <2>1
<1>2. CASE \E p \in Pollers : Commit(p) BY <1>2, CommitConsumes
<1>3. UNCHANGED rows \/ \E p \in Pollers : Commit(p)
  BY DEF Next, vars, Publish, Start, Poll, Replay, Work, Baseline, Fetch, Plan, Deadlocked, Insert,
     Die, Abort
<1>4. QED BY <1>1, <1>2, <1>3

(* The tables, filled row by row by transactions that wait for each other,   *)
(* fail and are rolled back, show the ledger of a consumer that takes its    *)
(* events in one step and never twice.                                       *)
THEOREM LedgerImplemented == Spec => ImplementsLedger
<1>1. Init => Ledger!Init
  BY DEF Init, Ledger!Init, ConsumedBy, Consumed
<1>2. QED
  BY <1>1, WorkerAlways, LedgerStep, PTL DEF Spec, ImplementsLedger, Ledger!Spec
=============================================================================
