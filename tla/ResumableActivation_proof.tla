--------------------- MODULE ResumableActivation_proof ---------------------
(***************************************************************************)
(* For any number of processes, of stages, and any bounds: types, the      *)
(* order of the two targets, that a stage is worked on only after those    *)
(* before it passed, and that a closed grant had every stage pass.         *)
(* A process that decided on a line may append it much later; the argument *)
(* is that what the line rests on never becomes false again (Pledged).     *)
(***************************************************************************)
EXTENDS ResumableActivation, TLAPS

(* What a line about to be appended was decided on and still holds.          *)
Pledged(e) ==
  /\ e.type = "internal_checkpoint" =>
       /\ resumed
       /\ e.status \in {"planned", "running", "passed", "failed"}
       /\ e.target = "evaluator" => canary /\ seen.web
  /\ e.type = "closeout" => seen.passed = Stages
  /\ e.type = "checkpoint" /\ e.status # "planned" => 1 .. e.stage - 1 \subseteq seen.passed
  /\ e.type = "resume" => 1 .. Rebind - 1 \subseteq seen.passed

AllPledged == \A w \in Writers : op[w] # Idle => Pledged(op[w].event)

(* The history remembers what the file says now.                             *)
Remembered ==
  /\ \A s \in Stages : stage[s] = "passed" => s \in seen.passed
  /\ target["web"] = "passed" => seen.web

Core ==
  /\ TypeOK
  /\ AllPledged
  /\ Remembered
  /\ EvaluatorWaits
  /\ ClosedAfterAllPassed
  /\ WorkFollowsPasses

-----------------------------------------------------------------------------
(* A line of the file has the fields of its type.                            *)
LEMMA EventFields ==
  ASSUME NEW e \in Events
  PROVE  /\ e.type \in {"created", "attested", "evidence", "resume", "closeout", "lease",
                        "checkpoint", "internal_lease", "internal_checkpoint"}
         /\ e.type = "lease" => e.stage \in Stages /\ e.bound \in 0 .. MaxVersion
         /\ e.type = "checkpoint" => e.stage \in Stages /\ e.status \in StageStatuses
         /\ e.type = "internal_lease" => e.target \in Targets /\ e.bound \in 0 .. MaxVersion
         /\ e.type = "internal_checkpoint" => e.target \in Targets /\ e.status \in TargetStatuses
BY DEF Events

(* A process is idle or about to append a line.                              *)
LEMMA OpFields ==
  ASSUME op \in [Writers -> Ops], NEW w \in Writers
  PROVE  \/ op[w] = Idle /\ op[w].phase = "idle"
         \/ op[w] # Idle /\ op[w].phase = "decided" /\ op[w].event \in Events
         \/ op[w] # Idle /\ op[w].phase = "counted" /\ op[w].event \in Events
            /\ op[w].newest \in BOOLEAN
BY DEF Ops, Idle

LEMMA InitCore == Init => Core
<1> SUFFICES ASSUME Init PROVE Core
  OBVIOUS
<1>1. TypeOK
  <2>1. 0 \in 0 .. MaxVersion
    BY GrantAssumption
  <2>2. /\ stage \in [Stages -> StageStatuses]
        /\ target \in [Targets -> TargetStatuses]
        /\ \A t \in Targets : target[t] = "unavailable" <=> ~resumed
    BY DEF Init, StageStatuses, TargetStatuses
  <2>3. op \in [Writers -> Ops]
    BY DEF Init, Ops
  <2>4. seen \in [passed : SUBSET Stages, web : BOOLEAN, later : BOOLEAN]
    BY DEF Init
  <2>5. /\ plans \subseteq Stages
        /\ leases \subseteq [stage : Stages, bound : 0 .. MaxVersion]
        /\ targetLeases \subseteq [target : Targets, bound : 0 .. MaxVersion]
    BY DEF Init
  <2> QED
    BY <2>1, <2>2, <2>3, <2>4, <2>5 DEF Init, TypeOK
<1>2. AllPledged
  BY DEF Init, AllPledged
<1>3. Remembered
  BY DEF Init, Remembered, Targets
<1>4. EvaluatorWaits /\ ClosedAfterAllPassed /\ WorkFollowsPasses
  BY DEF Init, EvaluatorWaits, ClosedAfterAllPassed, WorkFollowsPasses, Targets
<1> QED
  BY <1>1, <1>2, <1>3, <1>4 DEF Core

-----------------------------------------------------------------------------
(* A step that leaves what readers compute as it is, up to leases that run   *)
(* out, only has to account for what the processes hold.                     *)
LEMMA QuietStep ==
  ASSUME Core,
         UNCHANGED <<attested, canary, stage, plans, version, resumed, target, closed, seen>>,
         file' \in {"absent", "readable", "torn", "forked"},
         leases' \subseteq leases, targetLeases' \subseteq targetLeases,
         l2' \in 0 .. MaxVersion,
         op' \in [Writers -> Ops],
         \A w \in Writers : op'[w] # Idle => Pledged(op'[w].event)
  PROVE  Core'
<1>1. TypeOK'
  BY DEF Core, TypeOK
<1>2. AllPledged'
  BY DEF AllPledged, Pledged
<1>3. Remembered'
  BY DEF Core, Remembered
<1>4. EvaluatorWaits' /\ ClosedAfterAllPassed' /\ WorkFollowsPasses'
  BY DEF Core, EvaluatorWaits, ClosedAfterAllPassed, WorkFollowsPasses
<1> QED
  BY <1>1, <1>2, <1>3, <1>4 DEF Core

LEMMA DecideStep ==
  ASSUME Core, NEW w \in Writers, NEW e \in Events, Pledged(e), Decide(w, e)
  PROVE  Core'
<1> DEFINE held == [phase |-> "decided", event |-> e]
<1>1. op \in [Writers -> Ops] /\ held \in Ops /\ op' = [op EXCEPT ![w] = held]
  BY DEF Core, TypeOK, Ops, Decide
<1>2. \A v \in Writers : op'[v] # Idle => Pledged(op'[v].event)
  BY <1>1 DEF Core, AllPledged
<1>3. op' \in [Writers -> Ops]
  BY <1>1
<1> QED
  BY <1>2, <1>3, QuietStep DEF Decide, log, Core, TypeOK

(* What the commands require is what their lines are pledged to.             *)
LEMMA CommandDecides ==
  ASSUME Core, NEW w \in Writers, Command(w)
  PROVE  \E e \in Events : Decide(w, e) /\ Pledged(e)
<1> USE DEF Core, Remembered
<1>t. /\ version \in 0 .. MaxVersion
      /\ \A t \in Targets : target[t] = "unavailable" <=> ~resumed
      /\ seen.passed \subseteq Stages
      /\ Rebind \in Stages
      /\ "web" \in Targets
  BY GrantAssumption DEF TypeOK, Targets
<1>p. ASSUME NEW s \in Stages, PriorPassed(s)
      PROVE  1 .. s - 1 \subseteq seen.passed
  <2>1. 1 .. s - 1 \subseteq Stages
    BY GrantAssumption DEF Stages
  <2> QED
    BY <1>p, <2>1 DEF PriorPassed
<1>1. CASE CreateState(w) \/ Attest(w) \/ ImportEvidence(w)
  <2>1. PICK type \in {"created", "attested", "evidence"} : Decide(w, [type |-> type])
    BY <1>1 DEF CreateState, Attest, ImportEvidence
  <2>2. [type |-> type] \in Events
    BY DEF Events
  <2>3. Pledged([type |-> type])
    BY DEF Pledged
  <2> QED
    BY <2>1, <2>2, <2>3
<1>5. CASE ResumeRebind(w)
  <2>1. Decide(w, [type |-> "resume"]) /\ stage[Rebind] # "planned"
    BY <1>5 DEF ResumeRebind
  <2>2. [type |-> "resume"] \in Events
    BY DEF Events
  <2>3. Pledged([type |-> "resume"])
    BY <1>t, <2>1 DEF Pledged, WorkFollowsPasses
  <2> QED
    BY <2>1, <2>2, <2>3
<1>2. CASE Closeout(w)
  <2>1. Decide(w, [type |-> "closeout"]) /\ \A s \in Stages : stage[s] = "passed"
    BY <1>2 DEF Closeout, AllPassed
  <2>2. [type |-> "closeout"] \in Events
    BY DEF Events
  <2>3. Pledged([type |-> "closeout"])
    BY <2>1, <1>t DEF Pledged
  <2> QED
    BY <2>1, <2>2, <2>3
<1>3. CASE StageCommand(w)
  <2>1. PICK s \in Stages :
          \/ IssueLease(w, s)
          \/ RecordPlanned(w, s)
          \/ \E status \in StageStatuses : RecordCheckpoint(w, s, status)
    BY <1>3 DEF StageCommand
  <2>2. CASE IssueLease(w, s)
    <3> DEFINE e == [type |-> "lease", stage |-> s, bound |-> version]
    <3>1. e \in Events /\ Pledged(e)
      BY <1>t DEF Events, Pledged
    <3> QED
      BY <2>2, <3>1 DEF IssueLease
  <2>3. CASE RecordPlanned(w, s) \/ \E status \in StageStatuses : RecordCheckpoint(w, s, status)
    <3>1. PICK status \in StageStatuses :
            /\ Decide(w, [type |-> "checkpoint", stage |-> s, status |-> status])
            /\ PriorPassed(s)
      BY <2>3 DEF RecordPlanned, RecordCheckpoint, StageStatuses
    <3> DEFINE e == [type |-> "checkpoint", stage |-> s, status |-> status]
    <3>2. e \in Events /\ Pledged(e)
      BY <1>p, <3>1 DEF Events, Pledged
    <3> QED
      BY <3>1, <3>2
  <2> QED
    BY <2>1, <2>2, <2>3
<1>4. CASE TargetCommand(w)
  <2>1. PICK t \in Targets :
          \/ PlanTarget(w, t)
          \/ LeaseTarget(w, t)
          \/ \E status \in TargetStatuses : RecordTarget(w, t, status)
    BY <1>4 DEF TargetCommand
  <2>2. CASE LeaseTarget(w, t)
    <3> DEFINE e == [type |-> "internal_lease", target |-> t, bound |-> version]
    <3>1. e \in Events /\ Pledged(e)
      BY <1>t DEF Events, Pledged
    <3> QED
      BY <2>2, <3>1 DEF LeaseTarget
  <2>3. CASE PlanTarget(w, t) \/ \E status \in TargetStatuses : RecordTarget(w, t, status)
    <3>1. PICK status \in {"planned", "running", "passed", "failed"} :
            /\ Decide(w, [type |-> "internal_checkpoint", target |-> t, status |-> status])
            /\ resumed /\ TargetReady(t)
      <4>1. CASE PlanTarget(w, t)
        BY <4>1 DEF PlanTarget
      <4>2. ASSUME NEW status \in TargetStatuses, RecordTarget(w, t, status)
            PROVE  status \in {"running", "passed", "failed"} /\ resumed
        <5>1. status \in TargetTransitions(target[t])
          BY <4>2 DEF RecordTarget
        <5>2. target[t] \in {"planned", "running"} /\ status \in {"running", "passed", "failed"}
          BY <5>1 DEF TargetTransitions
        <5> QED
          BY <5>2, <1>t
      <4> QED
        BY <2>3, <4>1, <4>2 DEF RecordTarget
    <3> DEFINE e == [type |-> "internal_checkpoint", target |-> t, status |-> status]
    <3>2. e \in Events
      BY DEF Events, TargetStatuses
    <3>3. Pledged(e)
      BY <3>1, <1>t DEF Pledged, TargetReady
    <3> QED
      BY <3>1, <3>2, <3>3
  <2> QED
    BY <2>1, <2>2, <2>3
<1> QED
  BY <1>1, <1>2, <1>3, <1>4, <1>5 DEF Command

-----------------------------------------------------------------------------
LEMMA CountStep ==
  ASSUME Core, NEW w \in Writers, Count(w)
  PROVE  Core'
<1>1. op \in [Writers -> Ops] /\ op[w] # Idle /\ op[w].event \in Events /\ Pledged(op[w].event)
  BY OpFields DEF Core, TypeOK, Count, AllPledged
<1> DEFINE held == [phase |-> "counted", event |-> op[w].event, newest |-> TRUE]
<1>2. held \in Ops /\ op' = [op EXCEPT ![w] = held]
  BY <1>1 DEF Ops, Count
<1>3. \A v \in Writers : op'[v] # Idle => Pledged(op'[v].event)
  BY <1>1, <1>2 DEF Core, AllPledged
<1>4. op' \in [Writers -> Ops]
  BY <1>1, <1>2
<1> QED
  BY <1>3, <1>4, QuietStep DEF Count, log, Core, TypeOK

LEMMA BreaksStep ==
  ASSUME Core, NEW how \in {"torn", "forked"}, Breaks(how)
  PROVE  Core'
<1>1. op' \in [Writers -> Ops] /\ \A v \in Writers : op'[v] = Idle
  BY DEF Breaks, Ops
<1> QED
  BY <1>1, QuietStep DEF Breaks, Core, TypeOK

LEMMA CrashStep ==
  ASSUME Core, NEW w \in Writers, Crash(w)
  PROVE  Core'
<1>1. op' \in [Writers -> Ops]
  BY DEF Crash, Ops, Core, TypeOK
<1>2. \A v \in Writers : op'[v] # Idle => Pledged(op'[v].event)
  BY DEF Crash, Core, AllPledged, TypeOK
<1> QED
  BY <1>1, <1>2, QuietStep DEF Crash, log, Core, TypeOK

LEMMA EnvironmentStep ==
  ASSUME Core, Expire \/ IssueSupersession
  PROVE  Core'
<1>1. leases' \subseteq leases /\ targetLeases' \subseteq targetLeases /\ l2' \in 0 .. MaxVersion
  BY DEF Expire, IssueSupersession, log, Core, TypeOK
<1> QED
  BY <1>1, QuietStep DEF Expire, IssueSupersession, log, Core, TypeOK, AllPledged

-----------------------------------------------------------------------------
(* Appending a line: what was pledged to any line still holds.               *)
LEMMA AppendTypes ==
  ASSUME Core, NEW e \in Events, Pledged(e), Append(e)
  PROVE  /\ stage' \in [Stages -> StageStatuses]
         /\ target' \in [Targets -> TargetStatuses]
         /\ \A t \in Targets : target'[t] = "unavailable" <=> ~resumed'
         /\ version' \in 0 .. MaxVersion
         /\ leases' \subseteq [stage : Stages, bound : 0 .. MaxVersion]
         /\ targetLeases' \subseteq [target : Targets, bound : 0 .. MaxVersion]
         /\ seen' \in [passed : SUBSET Stages, web : BOOLEAN, later : BOOLEAN]
<1> USE DEF Core
<1>0. TypeOK
  OBVIOUS
<1>1. stage' \in [Stages -> StageStatuses]
  <2>1. stage' = StagesAfter(e) /\ stage \in [Stages -> StageStatuses] /\ "running" \in StageStatuses
    BY DEF Append, TypeOK, StageStatuses
  <2> QED
    BY <2>1, EventFields DEF StagesAfter
<1>2. target' \in [Targets -> TargetStatuses]
  <2>1. target' = TargetsAfter(e) /\ target \in [Targets -> TargetStatuses]
    BY DEF Append, TypeOK
  <2>2. [web |-> "not_planned", evaluator |-> "blocked_pending_canary"] \in [Targets -> TargetStatuses]
    BY DEF Targets, TargetStatuses
  <2> QED
    BY <2>1, <2>2, EventFields DEF TargetsAfter
<1>3. \A t \in Targets : target'[t] = "unavailable" <=> ~resumed'
  <2>1. /\ target' = TargetsAfter(e) /\ target \in [Targets -> TargetStatuses]
        /\ \A t \in Targets : target[t] = "unavailable" <=> ~resumed
        /\ resumed' = (resumed \/ e.type = "resume")
    BY DEF Append, TypeOK
  <2>2. CASE e.type = "internal_checkpoint"
    BY <2>1, <2>2, EventFields DEF TargetsAfter, Pledged
  <2>3. CASE e.type = "resume"
    <3>1. target' = [web |-> "not_planned", evaluator |-> "blocked_pending_canary"]
      BY <2>1, <2>3 DEF TargetsAfter
    <3>2. target'["web"] # "unavailable" /\ target'["evaluator"] # "unavailable"
      BY <3>1
    <3> QED
      BY <2>1, <2>3, <3>2 DEF Targets
  <2>4. CASE e.type \notin {"internal_checkpoint", "resume"}
    BY <2>1, <2>4 DEF TargetsAfter
  <2> QED
    BY <2>2, <2>3, <2>4
<1>4. version' \in 0 .. MaxVersion
  BY GrantAssumption DEF TypeOK, Append
<1>5. leases' \subseteq [stage : Stages, bound : 0 .. MaxVersion]
  BY EventFields DEF TypeOK, Append
<1>6. targetLeases' \subseteq [target : Targets, bound : 0 .. MaxVersion]
  BY EventFields DEF TypeOK, Append
<1>7. seen' \in [passed : SUBSET Stages, web : BOOLEAN, later : BOOLEAN]
  BY DEF TypeOK, Append, SeenAfter
<1> QED
  BY <1>1, <1>2, <1>3, <1>4, <1>5, <1>6, <1>7

(* The history and the flags a pledge speaks of only grow.                   *)
LEMMA AppendGrows ==
  ASSUME Core, NEW e \in Events, Append(e)
  PROVE  /\ resumed => resumed'
         /\ canary => canary'
         /\ seen.web => seen'.web
         /\ seen.passed \subseteq seen'.passed
         /\ seen'.passed \subseteq Stages
BY DEF Append, SeenAfter, Core, TypeOK

LEMMA WriteStep ==
  ASSUME Core, NEW w \in Writers, Write(w)
  PROVE  Core'
<1> DEFINE e == op[w].event
<1>1. /\ op \in [Writers -> Ops] /\ op[w] # Idle /\ e \in Events /\ Pledged(e)
      /\ Append(e) /\ op' = Finished(w)
  BY OpFields DEF Core, TypeOK, Write, AllPledged
<1> HIDE DEF e
<1>2. op' \in [Writers -> Ops]
  <2>1. ASSUME NEW v \in Writers
        PROVE  Finished(w)[v] \in Ops
    <3>1. CASE v = w
      BY <3>1 DEF Finished, Ops
    <3>2. CASE v # w /\ op[v].phase = "counted"
      <4>1. op[v] \in [phase : {"counted"}, event : Events, newest : BOOLEAN]
        BY <1>1, <3>2 DEF Ops, Idle
      <4>2. [op[v] EXCEPT !.newest = FALSE] \in [phase : {"counted"}, event : Events, newest : BOOLEAN]
        BY <4>1
      <4> QED
        BY <3>2, <4>2 DEF Finished, Ops
    <3>3. CASE v # w /\ op[v].phase # "counted"
      BY <1>1, <3>3 DEF Finished
    <3> QED
      BY <3>1, <3>2, <3>3
  <2> QED
    BY <1>1, <2>1 DEF Finished
<1>3. TypeOK'
  BY <1>1, <1>2, AppendTypes DEF TypeOK, Core, Append, Write
<1>4. AllPledged'
  <2>1. ASSUME NEW v \in Writers, op'[v] # Idle
        PROVE  op[v] # Idle /\ op'[v].event = op[v].event
    <3>1. v # w /\ op'[v] = (IF op[v].phase = "counted" THEN [op[v] EXCEPT !.newest = FALSE] ELSE op[v])
      BY <1>1, <2>1 DEF Finished
    <3>2. CASE op[v].phase = "counted"
      <4>1. op[v] \in [phase : {"counted"}, event : Events, newest : BOOLEAN]
        BY <1>1, <3>2 DEF Ops, Idle
      <4> QED
        BY <3>1, <3>2, <4>1 DEF Idle
    <3> QED
      BY <2>1, <3>1, <3>2
  <2>2. ASSUME NEW v \in Writers, op'[v] # Idle
        PROVE  Pledged(op[v].event)'
    <3>1. Pledged(op[v].event) /\ op'[v].event = op[v].event
      BY <2>1, <2>2 DEF Core, AllPledged
    <3> QED
      BY <1>1, <3>1, AppendGrows DEF Pledged
  <2> QED
    BY <2>2 DEF AllPledged
<1>5. Remembered'
  <2>1. /\ stage' = StagesAfter(e) /\ target' = TargetsAfter(e) /\ seen' = SeenAfter(e)
        /\ stage \in [Stages -> StageStatuses] /\ target \in [Targets -> TargetStatuses]
        /\ seen.passed \subseteq seen'.passed /\ (seen.web => seen'.web)
    BY <1>1, AppendGrows DEF Append, Core, TypeOK
  <2>2. ASSUME NEW s \in Stages, stage'[s] = "passed"
        PROVE  s \in seen'.passed
    <3>1. stage[s] = "passed" \/ (e.type = "checkpoint" /\ e.stage = s /\ e.status = "passed")
      BY <2>1, <2>2, <1>1, EventFields DEF StagesAfter
    <3> QED
      BY <2>1, <3>1 DEF Core, Remembered, SeenAfter
  <2>3. ASSUME target'["web"] = "passed"
        PROVE  seen'.web
    <3>1. \/ target["web"] = "passed"
          \/ e.type = "internal_checkpoint" /\ e.target = "web" /\ e.status = "passed"
      BY <2>1, <2>3, <1>1, EventFields DEF TargetsAfter, Targets
    <3> QED
      BY <2>1, <3>1 DEF Core, Remembered, SeenAfter
  <2> QED
    BY <2>2, <2>3 DEF Remembered
<1>6. EvaluatorWaits'
  <2>1. /\ target' = TargetsAfter(e) /\ target \in [Targets -> TargetStatuses]
        /\ (canary => canary') /\ (seen.web => seen'.web)
    BY <1>1, AppendGrows DEF Append, Core, TypeOK
  <2>2. CASE e.type = "internal_checkpoint"
    BY <1>1, <2>1, <2>2, EventFields DEF TargetsAfter, Pledged, EvaluatorWaits, Core, Targets
  <2>3. CASE e.type # "internal_checkpoint"
    BY <2>1, <2>3 DEF TargetsAfter, EvaluatorWaits, Core
  <2> QED
    BY <2>2, <2>3
<1>7. ClosedAfterAllPassed'
  BY <1>1, AppendGrows DEF Append, ClosedAfterAllPassed, Core, Pledged
<1>8. WorkFollowsPasses'
  <2>1. /\ stage' = StagesAfter(e) /\ stage \in [Stages -> StageStatuses]
        /\ seen.passed \subseteq seen'.passed
    BY <1>1, AppendGrows DEF Append, Core, TypeOK
  <2>2. ASSUME NEW s \in Stages, stage'[s] # "planned"
        PROVE  1 .. s - 1 \subseteq seen.passed
    <3>1. CASE stage[s] # "planned"
      BY <3>1 DEF Core, WorkFollowsPasses
    <3>2. CASE e.type = "checkpoint" /\ e.stage = s /\ e.status # "planned"
      BY <1>1, <3>2 DEF Pledged
    <3>3. CASE e.type = "resume" /\ s = Rebind
      BY <1>1, <3>3 DEF Pledged
    <3> QED
      BY <1>1, <2>1, <2>2, <3>1, <3>2, <3>3, EventFields DEF StagesAfter
  <2> QED
    BY <2>1, <2>2 DEF WorkFollowsPasses
<1> QED
  BY <1>3, <1>4, <1>5, <1>6, <1>7, <1>8 DEF Core

-----------------------------------------------------------------------------
LEMMA CoreNext ==
  ASSUME Core, [Next]_vars
  PROVE  Core'
<1>1. ASSUME NEW w \in Writers, Command(w)
      PROVE  Core'
  BY <1>1, CommandDecides, DecideStep
<1>2. ASSUME NEW w \in Writers, Count(w) \/ Write(w) \/ Crash(w)
      PROVE  Core'
  BY <1>2, CountStep, WriteStep, CrashStep
<1>3. ASSUME NEW w \in Writers, WriteStale(w) \/ Tear(w)
      PROVE  Core'
  BY <1>3, BreaksStep DEF WriteStale, Tear
<1>4. CASE Expire \/ IssueSupersession
  BY <1>4, EnvironmentStep
<1>5. CASE UNCHANGED vars
  <2>1. UNCHANGED <<log, l2, op>>
    BY <1>5 DEF vars
  <2> QED
    BY <2>1, QuietStep DEF log, Core, TypeOK, AllPledged
<1> QED
  BY <1>1, <1>2, <1>3, <1>4, <1>5 DEF Next

(* Pledges, history and the properties below hold together in every state    *)
(* the commands of any number of processes can reach.                        *)
THEOREM CoreInvariant == Spec => []Core
BY InitCore, CoreNext, PTL DEF Spec

(* Whatever processes append, what a reader of the file computes is a status *)
(* the code knows.                                                           *)
THEOREM TypeCorrect == Spec => []TypeOK
<1>1. Core => TypeOK
  BY DEF Core
<1> QED
  BY <1>1, CoreInvariant, PTL

(* However many processes append lines they decided on long ago, the         *)
(* evaluator target leaves its block only after the web target passed and    *)
(* with a canary imported (record_internal_planned_checkpoint and the others *)
(* check both).                                                              *)
THEOREM EvaluatorKeepsWaiting == Spec => []EvaluatorWaits
<1>1. Core => EvaluatorWaits
  BY DEF Core
<1> QED
  BY <1>1, CoreInvariant, PTL

(* However many processes append lines they decided on long ago, a stage is  *)
(* worked on only after every stage before it passed at some time            *)
(* (record_checkpoint and resume_bounded_rebind_internal).                   *)
THEOREM WorkAlwaysFollows == Spec => []WorkFollowsPasses
<1>1. Core => WorkFollowsPasses
  BY DEF Core
<1> QED
  BY <1>1, CoreInvariant, PTL

(* However many processes append, closeout ends a grant only after every     *)
(* stage had passed.                                                         *)
THEOREM ClosesAfterAllPassed == Spec => []ClosedAfterAllPassed
<1>1. Core => ClosedAfterAllPassed
  BY DEF Core
<1> QED
  BY <1>1, CoreInvariant, PTL
=============================================================================
