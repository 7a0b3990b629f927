------------------------ MODULE ResumableActivation ------------------------
(***************************************************************************)
(* The control plane of a resumable activation grant: one append-only file *)
(* of hash-chained JSON lines, and commands run by operator processes.  A  *)
(* command reads and validates the file and decides on one line; appending *)
(* it reads the file a second time, for the sequence number and the hash   *)
(* of the line before, and nothing locks the file.                         *)
(*                                                                         *)
(* The variables down to targetLeases are what a reader of the file        *)
(* computes from its lines (_statuses, _internal_statuses, ...).  Lines    *)
(* are never removed, so a reader computes them line by line.  Hashes do   *)
(* not collide; every evidence digest is well formed and, where a command  *)
(* is repeated, the one it was given first.                                *)
(***************************************************************************)
EXTENDS Naturals, FiniteSets

CONSTANTS
  Writers,     \* processes running commands
  NStages,     \* stages of the grant (4)
  Rebind,      \* the one called BOUNDED_REBIND (the third)
  MaxVersion,  \* bound on the status lines of the file
  MaxLeases    \* bound on the leases that have not run out

Stages  == 1 .. NStages
Targets == {"web", "evaluator"}

ASSUME GrantAssumption ==
  /\ NStages \in Nat /\ Rebind \in Stages
  /\ MaxVersion \in Nat /\ MaxLeases \in Nat

VARIABLES
  file,         \* "absent", "readable", "torn" or "forked"
  attested,     \* a governance commit is bound
  canary,       \* evidence of a current-date bounded canary pass was imported
  stage,        \* status of every stage
  plans,        \* stages with a planned-only checkpoint
  version,      \* status lines so far, which is what checkpoint_sha256 tells apart
  resumed,      \* the failed rebind was resumed into its two targets
  target,       \* status of the two internal targets
  closed,       \* the grant was closed out
  leases,       \* leases of stages, by the version they are bound to, that still run
  targetLeases, \* leases of targets
  l2,           \* the failed version the newest supersession document names, or 0
  op,           \* what each process is about to append
  seen          \* history: what ever passed, and a canary imported after the web target

log  == <<file, attested, canary, stage, plans, version, resumed, target, closed,
          leases, targetLeases, seen>>
vars == <<log, l2, op>>

-----------------------------------------------------------------------------
StageStatuses  == {"planned", "running", "passed", "failed", "rolled_back"}
TargetStatuses == {"unavailable", "not_planned", "blocked_pending_canary",
                   "planned", "running", "passed", "failed"}

Transitions ==
  [planned     |-> {"running", "failed"},
   running     |-> {"passed", "failed", "rolled_back"},
   failed      |-> {"running", "rolled_back"},
   rolled_back |-> {"running"},
   passed      |-> {"rolled_back"}]

TargetTransitions(status) ==
  CASE status = "planned" -> {"running", "failed"}
    [] status = "running" -> {"passed", "failed"}
    [] OTHER -> {}

Events ==
       [type : {"created", "attested", "evidence", "resume", "closeout"}]
  \cup [type : {"lease"}, stage : Stages, bound : 0 .. MaxVersion]
  \cup [type : {"checkpoint"}, stage : Stages, status : StageStatuses]
  \cup [type : {"internal_lease"}, target : Targets, bound : 0 .. MaxVersion]
  \cup [type : {"internal_checkpoint"}, target : Targets, status : TargetStatuses]

Idle == [phase |-> "idle"]
Ops  == {Idle} \cup [phase : {"decided"}, event : Events]
               \cup [phase : {"counted"}, event : Events, newest : BOOLEAN]

Init ==
  /\ file = "absent"
  /\ attested = FALSE /\ canary = FALSE
  /\ stage = [s \in Stages |-> "planned"]
  /\ plans = {}
  /\ version = 0
  /\ resumed = FALSE
  /\ target = [t \in Targets |-> "unavailable"]
  /\ closed = FALSE
  /\ leases = {} /\ targetLeases = {}
  /\ l2 = 0
  /\ op = [w \in Writers |-> Idle]
  /\ seen = [passed |-> {}, web |-> FALSE, later |-> FALSE]

-----------------------------------------------------------------------------
(* The commands, each with what it requires of the file it reads.            *)

Decide(w, e) ==
  /\ op[w] = Idle
  /\ op' = [op EXCEPT ![w] = [phase |-> "decided", event |-> e]]
  /\ UNCHANGED <<log, l2>>

CreateState(w) == file = "absent" /\ Decide(w, [type |-> "created"])

Attest(w) == file = "readable" /\ ~attested /\ Decide(w, [type |-> "attested"])

ImportEvidence(w) ==
  /\ file = "readable" /\ ~closed /\ attested
  /\ Decide(w, [type |-> "evidence"])

PriorPassed(s) == \A t \in 1 .. s - 1 : stage[t] = "passed"

(* Broken: any stage may be leased. *)
AnyStage(s) == TRUE

(* The first stage that has not passed. *)
NextStage(s) == stage[s] # "passed" /\ PriorPassed(s)

IssueLease(w, s) ==
  /\ file = "readable" /\ ~closed /\ attested
  /\ NextStage(s)
  /\ Cardinality(leases) < MaxLeases
  /\ Decide(w, [type |-> "lease", stage |-> s, bound |-> version])

(* Broken: a lease is good for any later version of the file. *)
LeasedOnce(s) == \E l \in leases : l.stage = s

(* A lease of this stage that has not run out, bound to the file as it is. *)
Leased(s) == \E l \in leases : l.stage = s /\ l.bound = version

RecordCheckpoint(w, s, status) ==
  /\ file = "readable" /\ ~closed
  /\ status \in Transitions[stage[s]]
  /\ PriorPassed(s)
  /\ Leased(s)
  /\ Decide(w, [type |-> "checkpoint", stage |-> s, status |-> status])

RecordPlanned(w, s) ==
  /\ file = "readable" /\ ~closed /\ attested
  /\ stage[s] = "planned" /\ PriorPassed(s) /\ s \notin plans
  /\ Decide(w, [type |-> "checkpoint", stage |-> s, status |-> "planned"])

(* The document names the failed checkpoint it resumes from. *)
ResumeRebind(w) ==
  /\ file = "readable" /\ ~closed /\ ~resumed
  /\ stage[Rebind] = "failed" /\ l2 # 0 /\ l2 = version
  /\ Decide(w, [type |-> "resume"])

(* Broken: the evaluator does not wait for the canary. *)
TargetOpen(t) == t = "evaluator" => target["web"] = "passed"

(* The evaluator target waits for the web target and the canary. *)
TargetReady(t) == t = "evaluator" => target["web"] = "passed" /\ canary

PlanTarget(w, t) ==
  /\ file = "readable" /\ resumed
  /\ TargetReady(t)
  /\ target[t] \in {"not_planned", "blocked_pending_canary", "planned"}
  /\ Decide(w, [type |-> "internal_checkpoint", target |-> t, status |-> "planned"])

LeaseTarget(w, t) ==
  /\ file = "readable"
  /\ target[t] \in {"planned", "running"}
  /\ TargetReady(t)
  /\ Cardinality(targetLeases) < MaxLeases
  /\ Decide(w, [type |-> "internal_lease", target |-> t, bound |-> version])

RecordTarget(w, t, status) ==
  /\ file = "readable"
  /\ status \in TargetTransitions(target[t])
  /\ TargetReady(t)
  /\ \E l \in targetLeases : l.target = t /\ l.bound = version
  /\ Decide(w, [type |-> "internal_checkpoint", target |-> t, status |-> status])

(* Broken: a stage that was begun counts as done. *)
AllBegun == \A s \in Stages : stage[s] # "planned"

AllPassed == \A s \in Stages : stage[s] = "passed"

Closeout(w) ==
  /\ file = "readable" /\ ~closed /\ AllPassed
  /\ Decide(w, [type |-> "closeout"])

-----------------------------------------------------------------------------
(* _append_event: read again, count, write.                                  *)

Count(w) ==
  /\ op[w].phase = "decided"
  /\ op' = [op EXCEPT ![w] =
               [phase |-> "counted", event |-> op[w].event, newest |-> TRUE]]
  /\ UNCHANGED <<log, l2>>

StagesAfter(e) ==
  CASE e.type = "checkpoint" -> [stage EXCEPT ![e.stage] = e.status]
    [] e.type = "resume"     -> [stage EXCEPT ![Rebind] = "running"]
    [] OTHER                 -> stage

(* Broken: resuming leaves the targets as they were. *)
TargetsKept(e) ==
  IF e.type = "internal_checkpoint" THEN [target EXCEPT ![e.target] = e.status] ELSE target

TargetsAfter(e) ==
  CASE e.type = "internal_checkpoint" -> [target EXCEPT ![e.target] = e.status]
    [] e.type = "resume" -> [web |-> "not_planned", evaluator |-> "blocked_pending_canary"]
    [] OTHER -> target

IsStatusLine(e) == e.type \in {"checkpoint", "resume", "internal_checkpoint"}

SeenAfter(e) ==
  [passed |-> seen.passed \cup
     {s \in Stages : e.type = "checkpoint" /\ e.stage = s /\ e.status = "passed"},
   web    |-> seen.web \/ (e.type = "internal_checkpoint" /\ e.target = "web" /\ e.status = "passed"),
   later  |-> seen.later \/ (e.type = "evidence" /\ seen.web)]

(* A reader takes one more line into account. *)
Append(e) ==
  /\ file' = "readable"
  /\ attested' = (attested \/ e.type = "attested")
  /\ canary' = (canary \/ e.type = "evidence")
  /\ stage' = StagesAfter(e)
  /\ plans' = plans \cup {s \in Stages :
       e.type = "checkpoint" /\ e.stage = s /\ e.status = "planned"}
  /\ IF IsStatusLine(e) THEN version < MaxVersion /\ version' = version + 1
                        ELSE version' = version
  /\ resumed' = (resumed \/ e.type = "resume")
  /\ target' = TargetsAfter(e)
  /\ closed' = (closed \/ e.type = "closeout")
  /\ leases' = leases \cup
       (IF e.type = "lease" THEN {[stage |-> e.stage, bound |-> e.bound]} ELSE {})
  /\ targetLeases' = targetLeases \cup
       (IF e.type = "internal_lease" THEN {[target |-> e.target, bound |-> e.bound]} ELSE {})
  /\ seen' = SeenAfter(e)

(* Everyone who counted the lines before this one counted too few. *)
Finished(w) ==
  [v \in Writers |->
     IF v = w THEN Idle
     ELSE IF op[v].phase = "counted" THEN [op[v] EXCEPT !.newest = FALSE] ELSE op[v]]

Write(w) ==
  /\ op[w].phase = "counted" /\ op[w].newest
  /\ Append(op[w].event)
  /\ op' = Finished(w)
  /\ UNCHANGED l2

(* The file fails validation from now on; what other commands in flight      *)
(* still append to it no reader accepts.                                     *)
Breaks(how) ==
  /\ file' = how
  /\ op' = [w \in Writers |-> Idle]
  /\ UNCHANGED <<attested, canary, stage, plans, version, resumed, target, closed,
                 leases, targetLeases, seen, l2>>

(* A sequence number that is taken. *)
WriteStale(w) == op[w].phase = "counted" /\ ~op[w].newest /\ Breaks("forked")

(* A process dies, before its line is written or in the middle of it.        *)
Crash(w) ==
  /\ op[w] # Idle
  /\ op' = [op EXCEPT ![w] = Idle]
  /\ UNCHANGED <<log, l2>>

Tear(w) == op[w].phase = "counted" /\ Breaks("torn")

(* Environment: leases run out, and a supersession document is issued for    *)
(* the rebind as it failed, for a later failure once more.  The version it   *)
(* names does not come again, so an older document resumes nothing; the      *)
(* targets go on with the document of the resume.                            *)
Expire ==
  /\ \/ /\ \E l \in leases : leases' = leases \ {l}
        /\ UNCHANGED targetLeases
     \/ /\ \E l \in targetLeases : targetLeases' = targetLeases \ {l}
        /\ UNCHANGED leases
  /\ UNCHANGED <<file, attested, canary, stage, plans, version, resumed, target, closed,
                 seen, l2, op>>

IssueSupersession ==
  /\ file = "readable" /\ stage[Rebind] = "failed"
  /\ l2' = version
  /\ UNCHANGED <<log, op>>

StageCommand(w) ==
  \E s \in Stages :
    \/ IssueLease(w, s)
    \/ RecordPlanned(w, s)
    \/ \E status \in StageStatuses : RecordCheckpoint(w, s, status)

TargetCommand(w) ==
  \E t \in Targets :
    \/ PlanTarget(w, t)
    \/ LeaseTarget(w, t)
    \/ \E status \in TargetStatuses : RecordTarget(w, t, status)

Command(w) ==
  \/ CreateState(w) \/ Attest(w) \/ ImportEvidence(w)
  \/ StageCommand(w) \/ ResumeRebind(w) \/ TargetCommand(w) \/ Closeout(w)

Next ==
  \/ \E w \in Writers :
       Command(w) \/ Count(w) \/ Write(w) \/ WriteStale(w) \/ Crash(w) \/ Tear(w)
  \/ Expire \/ IssueSupersession

Spec == Init /\ [][Next]_vars

-----------------------------------------------------------------------------
(* Correctness. *)

(* Everything read from the file is a status, a flag or a lease the code     *)
(* knows, and targets have a status of their own exactly after the resume.   *)
TypeOK ==
  /\ file \in {"absent", "readable", "torn", "forked"}
  /\ attested \in BOOLEAN /\ canary \in BOOLEAN /\ resumed \in BOOLEAN /\ closed \in BOOLEAN
  /\ stage \in [Stages -> StageStatuses]
  /\ plans \subseteq Stages
  /\ version \in 0 .. MaxVersion /\ l2 \in 0 .. MaxVersion
  /\ target \in [Targets -> TargetStatuses]
  /\ \A t \in Targets : target[t] = "unavailable" <=> ~resumed
  /\ leases \subseteq [stage : Stages, bound : 0 .. MaxVersion]
  /\ targetLeases \subseteq [target : Targets, bound : 0 .. MaxVersion]
  /\ op \in [Writers -> Ops]
  /\ seen \in [passed : SUBSET Stages, web : BOOLEAN, later : BOOLEAN]

(* With one process at a time the stages keep their order: whatever lease,   *)
(* repetition, rollback or resume comes, a stage is touched only while all   *)
(* the stages before it have passed.                                         *)
StagesInOrder == \A s \in Stages : stage[s] # "planned" => PriorPassed(s)

(* With any number of processes, when the order above is lost to lines       *)
(* decided on an older file: a stage is worked on only after every stage     *)
(* before it passed at some time.  The serial run cuts that case away; that  *)
(* it holds is proved in ResumableActivation_proof (WorkAlwaysFollows).      *)
WorkFollowsPasses ==
  \A s \in Stages : stage[s] # "planned" => 1 .. s - 1 \subseteq seen.passed

(* With one process at a time a stage that passed stays passed, although the *)
(* transition table has a way back, and closing is final (StageLine).        *)
Line == INSTANCE StageLine
ImplementsStageLine == Line!Spec

(* With any number of processes: the evaluator target leaves its block only  *)
(* with a canary imported and after the web target passed.                   *)
EvaluatorWaits ==
  target["evaluator"] \notin {"unavailable", "blocked_pending_canary"} => canary /\ seen.web

(* With any number of processes: a closed grant had every stage passed.      *)
ClosedAfterAllPassed == closed => seen.passed = Stages

(* The order of the runtime gate: the canary the evaluator waits for was     *)
(* imported later than the web target's pass.                                *)
CanaryIsLater ==
  target["evaluator"] \notin {"unavailable", "blocked_pending_canary"} => seen.later

(* The requirement of record_checkpoint: a stage's status moves along the    *)
(* transition table.                                                         *)
StagesFollowTable ==
  [][\A s \in Stages :
       stage'[s] # stage[s] => stage'[s] \in Transitions[stage[s]]]_vars
=============================================================================
