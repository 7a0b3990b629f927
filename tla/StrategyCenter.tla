---------------------------- MODULE StrategyCenter ----------------------------
(***************************************************************************)
(* The strategy center of N6: a user's selection is a line of revisions,   *)
(* and a one-shot evaluator, started again and again, evaluates one        *)
(* revision per tick: it loads the state, plans outside any transaction,   *)
(* commits the plan if its inputs still stand, and then saves its own      *)
(* state file.  An operator may run the same evaluation by hand.           *)
(*                                                                         *)
(* A revision's rows are the match or the observation of one coherence     *)
(* episode of one stock; `source' stands for everything that enters the    *)
(* source fingerprint, and a row holds the source it was last written for. *)
(* One trade date and one release of the evaluator.                        *)
(***************************************************************************)
EXTENDS Naturals

CONSTANTS
  Users,        \* principals with an active account
  MaxRevision,  \* bound on the revisions
  MaxSource,    \* bound on the changes of the sources
  MaxClock,     \* bound on the wall clock
  Backoff,      \* ticks a failed attempt waits
  Evidence,     \* what a source holds about the stock in its events up to a time
  StaleAt       \* first time the episode is stale after its confirmation; 0 if weak

Ids     == 1 .. MaxRevision
Sources == 1 .. MaxSource
Times   == 0 .. MaxClock
Tables  == {"match", "observation"}

(* No signal of the stock in scope; signals that no event of an index or     *)
(* board supports; support at any time of the day; a confirmation in time.   *)
Findings == {"nothing", "signals", "whole_day", "confirmed"}

ASSUME StrategyAssumption ==
  /\ MaxRevision \in Nat /\ MaxSource \in Nat \ {0} /\ MaxClock \in Nat
  /\ Backoff \in Nat
  /\ Evidence \in [Sources -> [Times -> Findings]]
  /\ StaleAt \in Nat

VARIABLES
  rev,       \* n6_user_strategy_selection_revision, by selection_revision_id
  natural,   \* users with a reviewed natural event group
  source,    \* what the source fingerprint tells apart
  clock,     \* observed_at of a run that starts now
  shown,     \* the match and observation rows of every revision, or 0
  view,      \* what a client shows that applied its user's changes
  evaluated, \* history: the source each revision was last evaluated at
  file,      \* the state file of the evaluator
  tick,      \* the evaluator run that holds the singleton lock
  manual     \* an evaluation by hand

vars == <<rev, natural, source, clock, shown, view, evaluated, file, tick, manual>>
selections == <<rev, natural, source>>
surfaces   == <<shown, view, evaluated>>

-----------------------------------------------------------------------------
Absent  == [status |-> "absent"]
NoRows  == [t \in Tables |-> 0]
Idle    == [phase |-> "idle"]
NoQueue == [at |-> 0, authority |-> {}, remaining |-> {}]
NewFile == [cursor |-> 0, scopes |-> NoQueue, failed |-> <<>>, retry |-> 0]

SourceState == <<"source_state">>

Least(ids)       == {r \in ids : \A q \in ids : r <= q}
Of(u)            == {r \in Ids : rev[r] # Absent /\ rev[r].user = u}
With(u, status)  == {r \in Of(u) : rev[r].status = status}
ActiveOf(u)      == CHOOSE r \in With(u, "active") : TRUE
Joined(u)        == Of(u) # {}

(* The revision of a user the evaluator looks at: the pending one, or else  *)
(* the active one.                                                          *)
Ranked(r) ==
  /\ rev[r] # Absent
  /\ \/ rev[r].status = "pending"
     \/ rev[r].status = "active" /\ With(rev[r].user, "pending") = {}

Pending == {r \in Ids : Ranked(r) /\ rev[r].status = "pending"}
Active  == {r \in Ids : Ranked(r) /\ rev[r].status = "active"}
ReplayPending == {r \in Active : rev[r].replay # "passed"}

Init ==
  /\ rev = [r \in Ids |-> Absent]
  /\ natural = {} /\ source = 1 /\ clock = 0
  /\ shown = [r \in Ids |-> NoRows]
  /\ view = [u \in Users |-> NoRows]
  /\ evaluated = [r \in Ids |-> 0]
  /\ file = NewFile
  /\ tick = Idle /\ manual = Idle

-----------------------------------------------------------------------------
(* Selections. *)

Unused == {r \in Ids : rev[r] = Absent}

(* The unique constraints of the table: the number of a revision, abandoned  *)
(* ones included; one pending; one successor that was not abandoned.         *)
Insertable(new) ==
  /\ \A r \in Of(new.user) : rev[r].no # new.no
  /\ With(new.user, "pending") = {}
  /\ \A r \in Of(new.user) : rev[r].prev = new.prev => rev[r].status = "abandoned"

InsertRevision(new) ==
  /\ Insertable(new)
  /\ \E r \in Least(Unused) : rev' = [rev EXCEPT ![r] = new]
  /\ UNCHANGED <<natural, source, clock, surfaces, file, tick, manual>>

(* A new principal starts with an active revision that was never evaluated. *)
Provision(u) ==
  /\ ~Joined(u)
  /\ InsertRevision([user |-> u, no |-> 1, status |-> "active", replay |-> "pending",
                     prev |-> 0, version |-> "v1"])

Successor(u, version) ==
  [user |-> u, no |-> rev[ActiveOf(u)].no + 1, status |-> "pending",
   replay |-> "pending", prev |-> ActiveOf(u), version |-> version]

(* n6_btrack_strategy_selection_put *)
Put(u) == Joined(u) /\ InsertRevision(Successor(u, "v2"))

(* n6_strategy_center_migrate_v2_selection_v1 *)
Migrate(u) ==
  /\ Joined(u)
  /\ rev[ActiveOf(u)].replay \in {"pending", "passed"} /\ rev[ActiveOf(u)].version = "v1"
  /\ InsertRevision(Successor(u, "v2"))

(* n6_strategy_center_owner_create_pending_v2 *)
OwnerCreate(u) ==
  /\ Joined(u)
  /\ rev[ActiveOf(u)].replay = "passed" /\ rev[ActiveOf(u)].version = "v1"
  /\ InsertRevision(Successor(u, "v2"))

(* Broken: the ancestor itself becomes active again, with its old rows. *)
CompensateInPlace(u) ==
  /\ Joined(u)
  /\ rev[ActiveOf(u)].replay = "passed" /\ rev[ActiveOf(u)].version = "v2"
  /\ With(u, "pending") = {}
  /\ \E r \in With(u, "superseded") :
       /\ rev[r].version = "v1"
       /\ rev' = [rev EXCEPT ![r].status = "active", ![ActiveOf(u)].status = "superseded"]
       /\ view' = [view EXCEPT ![u] = shown[r]]
  /\ UNCHANGED <<natural, source, clock, shown, evaluated, file, tick, manual>>

(* n6_strategy_center_compensate_revision_v1: back to the nearest v1 ancestor. *)
Compensate(u) ==
  /\ Joined(u)
  /\ rev[ActiveOf(u)].replay = "passed" /\ rev[ActiveOf(u)].version = "v2"
  /\ \E r \in With(u, "superseded") : rev[r].version = "v1"
  /\ InsertRevision(Successor(u, "v1"))

(* n6_strategy_center_abandon_pending_v2 *)
Abandon(u) ==
  /\ Joined(u)
  /\ rev[ActiveOf(u)].replay = "passed" /\ rev[ActiveOf(u)].version = "v1"
  /\ \E r \in With(u, "pending") :
       /\ rev[r].version = "v2" /\ rev[r].prev = ActiveOf(u)
       /\ rev[r].replay \in {"pending", "failed"}
       /\ rev' = [rev EXCEPT ![r].status = "abandoned", ![r].replay = "failed"]
  /\ UNCHANGED <<natural, source, clock, surfaces, file, tick, manual>>

(* Environment: events are reviewed, other sources change, time passes.      *)
EventsArrive(u) ==
  /\ u \notin natural /\ source < MaxSource
  /\ natural' = natural \cup {u} /\ source' = source + 1
  /\ UNCHANGED <<rev, clock, surfaces, file, tick, manual>>

SourceMoves ==
  /\ source < MaxSource
  /\ source' = source + 1
  /\ UNCHANGED <<rev, natural, clock, surfaces, file, tick, manual>>

Advance ==
  /\ clock < MaxClock
  /\ clock' = clock + 1
  /\ UNCHANGED <<selections, surfaces, file, tick, manual>>

-----------------------------------------------------------------------------
(* run_strategy_center_once: a plan from one snapshot, and its commit.       *)

Lifecycle(r) == <<rev[r], rev[ActiveOf(rev[r].user)]>>

WaitsForEvents(r) ==
  rev[r].status = "pending" /\ rev[r].version = "v2" /\ rev[r].user \notin natural

(* The rows of a v2 revision are an input of its next evaluation. *)
Frozen(r) == IF rev[r].version = "v2" THEN shown[r] ELSE NoRows

PlanOf(r, time) ==
  [rev |-> r, time |-> time, source |-> source, lifecycle |-> Lifecycle(r),
   frozen |-> Frozen(r)]

(* Broken: the rows that were evaluated are not among the compared inputs. *)
SourcesStand(plan) == plan.source = source /\ plan.lifecycle = Lifecycle(plan.rev)

(* The inputs and the selection are the ones the plan was made from. *)
Stands(plan) ==
  /\ plan.source = source /\ plan.frozen = Frozen(plan.rev)
  /\ plan.lifecycle = Lifecycle(plan.rev)

(* v2: an episode is found by its confirmation and kept while the stock has  *)
(* signals in scope; once stale or weak it stays so, whatever the time.      *)
Found(plan) ==
  \/ Evidence[plan.source][plan.time] = "confirmed"
  \/ plan.frozen # NoRows /\ Evidence[plan.source][plan.time] # "nothing"

(* Broken: only the age counts. *)
StaleByAge(plan) == plan.time >= StaleAt

Stale(plan) == plan.time >= StaleAt \/ plan.frozen["observation"] # 0

(* v1 looks at the whole day, never at the time and never at its rows. *)
Supported(plan) == Evidence[plan.source][MaxClock] \in {"whole_day", "confirmed"}

(* The tables the episode is in: evaluate_strategy_center_versioned. *)
TablesOf(plan) ==
  CASE rev[plan.rev].version = "v1" -> {t \in {"match"} : Supported(plan)}
    [] rev[plan.rev].version = "v2" ->
         {t \in Tables : Found(plan) /\ (t = "observation" <=> Stale(plan))}

RowsOf(plan) ==
  [t \in Tables |->
     IF rev[plan.rev].user \in natural /\ t \in TablesOf(plan) THEN plan.source ELSE 0]

(* Broken: the old active revision stays. *)
ActivatedBeside(r) == [rev EXCEPT ![r].status = "active", ![r].replay = "passed"]

(* A pending revision takes the place of the active one. *)
Activated(r) ==
  [rev EXCEPT ![ActiveOf(rev[r].user)].status = "superseded",
              ![r].status = "active", ![r].replay = "passed"]

(* Broken: a row that goes is not reported. *)
UpsertsOnly(seen, old, new) ==
  [t \in Tables |-> IF new[t] \in {0, old[t]} THEN seen[t] ELSE new[t]]

(* An upsert or a remove for every row that changed.  A change is keyed by   *)
(* run, row and content, and sources do not return to an earlier content, so *)
(* the rule that a repeated key is dropped drops nothing here.               *)
Changes(seen, old, new) ==
  [t \in Tables |-> IF new[t] = old[t] THEN seen[t] ELSE new[t]]

(* _apply_plan: the rows; a pending revision is activated and its client     *)
(* told to load everything again, an active one's client gets the changes.   *)
Apply(plan) ==
  LET r == plan.rev  u == rev[r].user  new == RowsOf(plan) IN
  /\ Ranked(r) /\ Stands(plan)
  /\ shown' = [shown EXCEPT ![r] = new]
  /\ evaluated' = [evaluated EXCEPT ![r] = plan.source]
  /\ IF rev[r].status = "pending"
     THEN /\ rev' = Activated(r)
          /\ view' = [view EXCEPT ![u] = new]
     ELSE /\ rev' = [rev EXCEPT ![r].replay = "passed"]
          /\ view' = [view EXCEPT ![u] = Changes(@, shown[r], new)]
  /\ UNCHANGED <<natural, source, clock>>

(* By hand: without the singleton lock, for any revision. *)
ManualPlan(r) ==
  /\ manual = Idle
  /\ Ranked(r) /\ ~WaitsForEvents(r)
  /\ manual' = [phase |-> "planned", plan |-> PlanOf(r, clock)]
  /\ UNCHANGED <<selections, clock, surfaces, file, tick>>

ManualCommit ==
  /\ manual # Idle
  /\ Apply(manual.plan)
  /\ manual' = Idle
  /\ UNCHANGED <<file, tick>>

ManualEnds ==
  /\ manual # Idle
  /\ manual' = Idle
  /\ UNCHANGED <<selections, clock, surfaces, file, tick>>

-----------------------------------------------------------------------------
(* run_auto_once, under the singleton lock. *)

(* The queue of the state file belongs to this source and these scopes. *)
QueueStands == file.scopes.at = source /\ file.scopes.authority = Active

Unfinished == IF QueueStands THEN file.scopes.remaining ELSE Active

(* Broken: an unchanged source is gone through only once. *)
RoundRobinOnce == Unfinished

RoundRobin ==
  IF QueueStands /\ file.scopes.remaining # {} THEN file.scopes.remaining ELSE Active

Recovered == file.failed = SourceState

(* Pending selections come first, then active revisions never replayed, then *)
(* every active revision for a changed source, then one more for the time.   *)
Choice ==
  CASE Pending # {}          -> [kind |-> "pending_selection", queue |-> Pending]
    [] Pending = {} /\ ReplayPending # {}
                             -> [kind |-> "active_replay_pending", queue |-> ReplayPending]
    [] Pending = {} /\ ReplayPending = {} /\ file.cursor # source
                             -> [kind |-> "source_changed", queue |-> Unfinished]
    [] OTHER                 -> [kind |-> "time_tick",
                                 queue |-> IF Recovered THEN {} ELSE RoundRobin]

(* Broken: a failure is remembered whatever the source was. *)
AttemptAnySource(kind, r, at) == <<kind, r>>
Attempt(kind, r, at) == <<kind, r, at>>
(* Broken: a failed attempt is never made again. *)
BackedOffForGood(attempt) == file.failed = attempt
BackedOff(attempt)   == file.failed = attempt /\ clock < file.retry

Begin ==
  /\ tick = Idle /\ ~BackedOff(SourceState)
  /\ \E r \in Least(Choice.queue) :
       /\ ~BackedOff(Attempt(Choice.kind, r, source))
       /\ tick' = [phase |-> "chosen", kind |-> Choice.kind, queue |-> Choice.queue, rev |-> r,
                   authority |-> Active, source |-> source, time |-> clock]
  /\ UNCHANGED <<selections, clock, surfaces, file, manual>>

FailedFile(attempt) ==
  [cursor |-> file.cursor, scopes |-> file.scopes, failed |-> attempt,
   retry |-> IF clock + Backoff < MaxClock THEN clock + Backoff ELSE MaxClock]

(* The state of the database cannot be read; the file may not be written either. *)
LoadFails ==
  /\ tick = Idle /\ ~BackedOff(SourceState)
  /\ file' = FailedFile(SourceState)
  /\ UNCHANGED <<selections, clock, surfaces, tick, manual>>

(* It can be read again and nothing else is to be done. *)
Recovers ==
  /\ tick = Idle /\ ~BackedOff(SourceState)
  /\ Recovered /\ Choice.kind = "time_tick"
  /\ file' = [file EXCEPT !.failed = <<>>]
  /\ UNCHANGED <<selections, clock, surfaces, tick, manual>>

Chosen == tick.rev

MakePlan ==
  /\ tick.phase = "chosen"
  /\ Ranked(Chosen) /\ ~WaitsForEvents(Chosen)
  /\ tick' = [phase |-> "planned", kind |-> tick.kind, queue |-> tick.queue, rev |-> Chosen,
              authority |-> tick.authority, source |-> tick.source,
              plan |-> PlanOf(Chosen, tick.time)]
  /\ UNCHANGED <<selections, clock, surfaces, file, manual>>

(* A run ends without a trace: the selection waits for natural events, the   *)
(* inputs drifted, or the process died (also after its commit).              *)
EndsQuietly ==
  /\ tick # Idle
  /\ tick' = Idle
  /\ UNCHANGED <<selections, clock, surfaces, file, manual>>

CommitPlan ==
  /\ tick.phase = "planned"
  /\ Apply(tick.plan)
  /\ tick' = [phase |-> "committed", kind |-> tick.kind, queue |-> tick.queue, rev |-> Chosen,
              authority |-> tick.authority, source |-> tick.source]
  /\ UNCHANGED <<file, manual>>

(* Any other failure: a pending revision is marked, and the attempt waits.   *)
Fails ==
  /\ tick.phase \in {"chosen", "planned"}
  /\ \/ UNCHANGED rev
     \/ /\ rev[Chosen].status = "pending"
        /\ rev' = [rev EXCEPT ![Chosen].replay = "failed"]
  /\ file' = FailedFile(Attempt(tick.kind, Chosen, tick.source))
  /\ tick' = Idle
  /\ UNCHANGED <<natural, source, clock, surfaces, manual>>

Remaining == tick.queue \ {Chosen}

(* Broken: the source counts as done after the first of its revisions. *)
CursorEager ==
  IF tick.kind \in {"source_changed", "time_tick"} THEN tick.source ELSE file.cursor

(* The source is done with its last revision. *)
CursorAfter ==
  IF tick.kind = "time_tick" \/ (tick.kind = "source_changed" /\ Remaining = {})
  THEN tick.source ELSE file.cursor

ScopesAfter ==
  CASE tick.kind \in {"pending_selection", "active_replay_pending"} -> file.scopes
    [] tick.kind = "source_changed" /\ Remaining = {} -> NoQueue
    [] OTHER -> [at |-> tick.source, authority |-> tick.authority, remaining |-> Remaining]

SaveState ==
  /\ tick.phase = "committed"
  /\ file' = [cursor |-> CursorAfter, scopes |-> ScopesAfter, failed |-> <<>>, retry |-> 0]
  /\ tick' = Idle
  /\ UNCHANGED <<selections, clock, surfaces, manual>>

-----------------------------------------------------------------------------
Selection ==
  \E u \in Users :
    \/ Provision(u) \/ Put(u) \/ Migrate(u) \/ OwnerCreate(u)
    \/ Compensate(u) \/ Abandon(u) \/ EventsArrive(u)

Manual  == (\E r \in Ids : ManualPlan(r)) \/ ManualCommit \/ ManualEnds

Running == MakePlan \/ CommitPlan \/ SaveState \/ Fails \/ EndsQuietly
AutoRun == Begin \/ LoadFails \/ Recovers \/ Running

Next == Selection \/ SourceMoves \/ Advance \/ Manual \/ AutoRun

Spec == Init /\ [][Next]_vars

(* launchd starts the evaluator again and again, every run ends, and what    *)
(* can succeed again and again does succeed at some time.                    *)
FairSpec ==
  /\ Spec
  /\ WF_vars(Advance) /\ WF_vars(Running)
  /\ SF_vars(Begin) /\ SF_vars(Recovers) /\ SF_vars(MakePlan)
  /\ SF_vars(CommitPlan) /\ SF_vars(SaveState)
-----------------------------------------------------------------------------
(* Properties.  A natural event group counts for the source it came with, so *)
(* `natural' is read at the source of the plan.                              *)

Kinds == {"pending_selection", "active_replay_pending", "source_changed", "time_tick"}

RevisionType ==
  [user : Users, no : Ids, status : {"pending", "active", "superseded", "abandoned"},
   replay : {"pending", "passed", "failed"}, prev : {0} \cup Ids, version : {"v1", "v2"}]

RowsType == [Tables -> {0} \cup Sources]
QueueType == [at : {0} \cup Sources, authority : SUBSET Ids, remaining : SUBSET Ids]
PlanType  == [rev : Ids, time : Times, source : Sources,
              lifecycle : RevisionType \X RevisionType, frozen : RowsType]

FileType ==
  [cursor : {0} \cup Sources, scopes : QueueType,
   failed : {<<>>, SourceState} \cup (Kinds \X Ids \X Sources), retry : Times]

(* The types of the variables. *)
TypeOK ==
  /\ rev \in [Ids -> {Absent} \cup RevisionType]
  /\ natural \subseteq Users /\ source \in Sources /\ clock \in Times
  /\ shown \in [Ids -> RowsType] /\ view \in [Users -> RowsType]
  /\ evaluated \in [Ids -> {0} \cup Sources]
  /\ file \in FileType

(* A user that joined has one active revision, whoever commits and whatever  *)
(* is put, abandoned or compensated in between, and at most one pending one, *)
(* which is to take the place of the active one.                             *)
OneActive ==
  \A u \in Users :
    /\ \A r, q \in With(u, "active") : r = q
    /\ \A r, q \in With(u, "pending") : r = q
    /\ Joined(u) => With(u, "active") # {}
    /\ \A r \in With(u, "pending") : rev[r].prev = ActiveOf(u)

(* A client that only applies the changes it is sent, and loads everything   *)
(* when told to, shows the rows of its user's active revision: no change is  *)
(* lost when two evaluators of one user overlap.                             *)
FeedShowsRows == \A u \in Users : Joined(u) => view[u] = shown[ActiveOf(u)]

(* The state file does not claim a source that an active revision has not    *)
(* been evaluated at, whenever revisions come and go while the queue of that *)
(* source is worked off.                                                     *)
CursorCovers ==
  \A r \in Ids :
    rev[r] # Absent /\ rev[r].status = "active" /\ rev[r].replay = "passed"
      => evaluated[r] >= file.cursor

(* What SelectionLine speaks of.                                             *)
TheOne(ids) == IF ids = {} THEN 0 ELSE CHOOSE r \in ids : TRUE
Current     == [u \in Users |-> TheOne(With(u, "active"))]
Following   == [u \in Users |-> TheOne(With(u, "pending"))]
Past        == {r \in Ids : rev[r].status \in {"superseded", "abandoned"}}

Line == INSTANCE SelectionLine WITH
  Rows <- RowsType, current <- Current, next <- Following, past <- Past

(* Whoever commits, by the evaluator, by hand or from the web, and whichever *)
(* plan was old by then: a user's active revision changes only into the      *)
(* pending one made to follow it, in the step that tells the client to load  *)
(* everything again, and a superseded or abandoned one never comes back.     *)
ImplementsLine == Line!Spec

(* A user without a pending revision can be given one.                       *)
SelectionStaysOpen ==
  \A u \in Users :
    Joined(u) /\ With(u, "pending") = {} => Insertable(Successor(u, "v2"))

NobodyWaits == \A r \in Pending : ~WaitsForEvents(r)

(* While no pending revision waits for natural events, each is activated (or *)
(* abandoned) at some time, failures and restarts included: its user has at  *)
(* some time none.                                                           *)
PendingActivated ==
  \A u \in Users : (With(u, "pending") # {}) ~> (With(u, "pending") = {} \/ ~NobodyWaits)

(* Two evaluations may overlap, one of them with an older time: an           *)
(* observation of a v2 revision does not turn back into a match.  The commit *)
(* refuses a plan made from other rows, and the evaluation keeps stale what  *)
(* was stale when it read the rows.                                          *)
Sticky(r) ==
  rev[r] # Absent /\ rev[r].version = "v2" /\ shown[r]["observation"] # 0
    => shown'[r]["match"] = 0

StaleForGood == [][\A r \in Ids : Sticky(r)]_vars

(* When the sources and the time have come to rest and no pending revision   *)
(* waits for natural events, the rows of every active revision come to rest  *)
(* too: one more evaluation, fed with them, would leave them as they are.  A *)
(* v2 match that grew old without a new event has become an observation.     *)
Converges ==
  <>[](NobodyWaits => \A r \in Active : shown[r] = RowsOf(PlanOf(r, clock)))
=============================================================================
