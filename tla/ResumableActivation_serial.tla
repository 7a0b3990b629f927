--------------------- MODULE ResumableActivation_serial --------------------
(***************************************************************************)
(* What the control plane promises when one process at a time works on the *)
(* file: the stages keep their order and StageLine is implemented.  What a *)
(* line was decided on is then still so when it is appended (Standing),    *)
(* and a lease that fits the file names the stage that is next, which no   *)
(* passed stage is.  The assumption is needed: run activation_race.        *)
(***************************************************************************)
EXTENDS ResumableActivation_proof

OneWriter == \A v, w \in Writers : v = w

(* What a line about to be appended was decided on.                          *)
Standing(e) ==
  /\ e.type = "checkpoint" =>
       /\ ~closed /\ PriorPassed(e.stage)
       /\ \/ e.status = "planned" /\ stage[e.stage] = "planned"
          \/ e.status \in Transitions[stage[e.stage]] /\ stage[e.stage] # "passed"
  /\ e.type = "resume" => ~closed /\ stage[Rebind] = "failed"
  /\ e.type = "closeout" => ~closed /\ AllPassed
  /\ e.type = "lease" => e.bound = version /\ NextStage(e.stage)

AllStanding == \A w \in Writers : op[w] # Idle => Standing(op[w].event)

(* A lease bound to the file as it is names the stage that is next.          *)
LeasesFit ==
  \A l \in leases : l.bound <= version /\ (l.bound = version => NextStage(l.stage))

Serial ==
  /\ Core
  /\ AllStanding
  /\ LeasesFit
  /\ StagesInOrder

-----------------------------------------------------------------------------
(* The transition table without its way back from passed.                    *)
LEMMA Forward ==
  ASSUME NEW old \in StageStatuses \ {"passed"}, NEW new \in Transitions[old]
  PROVE  \/ old \in {"planned", "failed", "rolled_back"} /\ new = "running"
         \/ old \in {"planned", "running"} /\ new = "failed"
         \/ old \in {"running", "failed"} /\ new = "rolled_back"
         \/ old = "running" /\ new = "passed"
<1>1. old \in {"planned", "running", "failed", "rolled_back"}
  BY DEF StageStatuses
<1>2. CASE old = "planned"
  BY <1>2 DEF Transitions
<1>3. CASE old = "running"
  BY <1>3 DEF Transitions
<1>4. CASE old = "failed"
  BY <1>4 DEF Transitions
<1>5. CASE old = "rolled_back"
  BY <1>5 DEF Transitions
<1> QED
  BY <1>1, <1>2, <1>3, <1>4, <1>5

LEMMA SerialInit == Init => Serial
<1> SUFFICES ASSUME Init PROVE Serial
  OBVIOUS
<1>1. AllStanding /\ LeasesFit
  BY DEF Init, AllStanding, LeasesFit
<1>2. StagesInOrder
  BY DEF Init, StagesInOrder
<1> QED
  BY <1>1, <1>2, InitCore DEF Serial

-----------------------------------------------------------------------------
(* What the commands require is what their lines rest on.                    *)
LEMMA CommandStands ==
  ASSUME Serial, NEW w \in Writers, Command(w)
  PROVE  \E e \in Events : Decide(w, e) /\ Standing(e)
<1>1. CASE CreateState(w) \/ Attest(w) \/ ImportEvidence(w)
  <2>1. PICK type \in {"created", "attested", "evidence"} : Decide(w, [type |-> type])
    BY <1>1 DEF CreateState, Attest, ImportEvidence
  <2>2. [type |-> type] \in Events
    BY DEF Events
  <2>3. Standing([type |-> type])
    BY DEF Standing
  <2> QED
    BY <2>1, <2>2, <2>3
<1>2. CASE ResumeRebind(w) \/ Closeout(w)
  <2>1. PICK type \in {"resume", "closeout"} :
          /\ Decide(w, [type |-> type]) /\ ~closed
          /\ type = "resume" => stage[Rebind] = "failed"
          /\ type = "closeout" => AllPassed
    BY <1>2 DEF ResumeRebind, Closeout
  <2>2. [type |-> type] \in Events
    BY DEF Events
  <2>3. Standing([type |-> type])
    BY <2>1 DEF Standing
  <2> QED
    BY <2>1, <2>2, <2>3
<1>3. CASE StageCommand(w)
  <2>1. PICK s \in Stages :
          \/ IssueLease(w, s)
          \/ RecordPlanned(w, s)
          \/ \E status \in StageStatuses : RecordCheckpoint(w, s, status)
    BY <1>3 DEF StageCommand
  <2>2. CASE IssueLease(w, s)
    <3> DEFINE e == [type |-> "lease", stage |-> s, bound |-> version]
    <3>1. e \in Events
      BY DEF Events, Serial, Core, TypeOK
    <3>2. Standing(e)
      BY <2>2 DEF Standing, IssueLease
    <3> QED
      BY <2>2, <3>1, <3>2 DEF IssueLease
  <2>3. CASE RecordPlanned(w, s)
    <3> DEFINE e == [type |-> "checkpoint", stage |-> s, status |-> "planned"]
    <3>1. e \in Events
      BY DEF Events, StageStatuses
    <3>2. Standing(e)
      BY <2>3 DEF Standing, RecordPlanned
    <3> QED
      BY <2>3, <3>1, <3>2 DEF RecordPlanned
  <2>4. ASSUME NEW status \in StageStatuses, RecordCheckpoint(w, s, status)
        PROVE  \E e \in Events : Decide(w, e) /\ Standing(e)
    <3> DEFINE e == [type |-> "checkpoint", stage |-> s, status |-> status]
    <3>1. e \in Events
      BY DEF Events
    <3>2. stage[s] # "passed"
      BY <2>4 DEF RecordCheckpoint, Leased, Serial, LeasesFit, NextStage
    <3>3. Standing(e)
      BY <2>4, <3>2 DEF Standing, RecordCheckpoint
    <3> QED
      BY <2>4, <3>1, <3>3 DEF RecordCheckpoint
  <2> QED
    BY <2>1, <2>2, <2>3, <2>4
<1>4. CASE TargetCommand(w)
  <2>1. PICK t \in Targets :
          \/ PlanTarget(w, t)
          \/ LeaseTarget(w, t)
          \/ \E status \in TargetStatuses : RecordTarget(w, t, status)
    BY <1>4 DEF TargetCommand
  <2>2. CASE LeaseTarget(w, t)
    <3> DEFINE e == [type |-> "internal_lease", target |-> t, bound |-> version]
    <3>1. e \in Events /\ Standing(e)
      BY DEF Events, Standing, Serial, Core, TypeOK
    <3> QED
      BY <2>2, <3>1 DEF LeaseTarget
  <2>3. CASE PlanTarget(w, t) \/ \E status \in TargetStatuses : RecordTarget(w, t, status)
    <3>1. PICK status \in TargetStatuses :
            Decide(w, [type |-> "internal_checkpoint", target |-> t, status |-> status])
      BY <2>3 DEF PlanTarget, RecordTarget, TargetStatuses
    <3> DEFINE e == [type |-> "internal_checkpoint", target |-> t, status |-> status]
    <3>2. e \in Events /\ Standing(e)
      BY DEF Events, Standing
    <3> QED
      BY <3>1, <3>2
  <2> QED
    BY <2>1, <2>2, <2>3
<1> QED
  BY <1>1, <1>2, <1>3, <1>4 DEF Command

(* A step that leaves stages, version and closing alone only has to account  *)
(* for what the process holds.                                               *)
LEMMA SerialQuiet ==
  ASSUME Serial, Core', UNCHANGED <<stage, version, closed>>, leases' \subseteq leases,
         \A w \in Writers : op'[w] # Idle => Standing(op'[w].event)
  PROVE  Serial'
<1>1. AllStanding'
  BY DEF AllStanding, Standing, PriorPassed, AllPassed, NextStage
<1>2. LeasesFit'
  BY DEF Serial, LeasesFit, NextStage, PriorPassed
<1>3. StagesInOrder'
  BY DEF Serial, StagesInOrder, PriorPassed
<1> QED
  BY <1>1, <1>2, <1>3 DEF Serial

-----------------------------------------------------------------------------
(* One stage moves, while those before it have passed: order is kept, since  *)
(* a stage after it would need it passed.                                    *)
LEMMA OneStageMoves ==
  ASSUME Serial, NEW s \in Stages, NEW status \in StageStatuses,
         PriorPassed(s), stage[s] # "passed",
         stage' = [stage EXCEPT ![s] = status]
  PROVE  StagesInOrder'
<1>1. stage \in [Stages -> StageStatuses] /\ Stages = 1 .. NStages /\ NStages \in Nat
  BY GrantAssumption DEF Serial, Core, TypeOK, Stages
<1>2. SUFFICES ASSUME NEW t \in Stages, stage'[t] # "planned", NEW u \in 1 .. t - 1
               PROVE  stage'[u] = "passed"
  BY DEF StagesInOrder, PriorPassed
<1>3. u \in Stages /\ u < t /\ u \in Nat /\ t \in Nat
  BY <1>1
<1>4. CASE t = s
  BY <1>1, <1>3, <1>4 DEF PriorPassed
<1>5. CASE t # s
  <2>1. stage[t] # "planned"
    BY <1>1, <1>2, <1>5
  <2>2. stage[u] = "passed"
    BY <2>1 DEF Serial, StagesInOrder, PriorPassed
  <2> QED
    BY <1>1, <1>3, <2>2
<1> QED
  BY <1>4, <1>5

(* What appending a line does to stages and closing.                         *)
LEMMA SerialAppend ==
  ASSUME Serial, NEW e \in Events, Standing(e), Append(e)
  PROVE  /\ LeasesFit'
         /\ StagesInOrder'
         /\ \/ UNCHANGED <<stage, closed>>
            \/ ~closed /\ AllPassed /\ closed' /\ UNCHANGED stage
            \/ /\ ~closed /\ UNCHANGED closed
               /\ \E s \in Stages :
                    /\ PriorPassed(s) /\ stage[s] # "passed"
                    /\ \E new \in Transitions[stage[s]] : stage' = [stage EXCEPT ![s] = new]
<1>t. /\ stage \in [Stages -> StageStatuses] /\ version \in Nat /\ Rebind \in Stages
      /\ closed \in BOOLEAN
      /\ \A l \in leases : l.bound \in Nat
      /\ stage' = StagesAfter(e) /\ closed' = (closed \/ e.type = "closeout")
      /\ leases' = leases \cup
           (IF e.type = "lease" THEN {[stage |-> e.stage, bound |-> e.bound]} ELSE {})
      /\ version' = IF IsStatusLine(e) THEN version + 1 ELSE version
  BY GrantAssumption DEF Serial, Core, TypeOK, Append
<1>1. CASE e.type = "checkpoint"
  <2> DEFINE s == e.stage
  <2>1. s \in Stages /\ e.status \in StageStatuses /\ ~closed /\ PriorPassed(s)
    BY <1>1, EventFields DEF Standing
  <2>2. stage' = [stage EXCEPT ![s] = e.status] /\ UNCHANGED closed
    BY <1>t, <1>1 DEF StagesAfter
  <2>3. /\ stage[s] # "passed"
        /\ (e.status # "planned" => e.status \in Transitions[stage[s]])
        /\ (e.status = "planned" => UNCHANGED stage)
    <3>1. CASE e.status = "planned" /\ stage[s] = "planned"
      BY <1>t, <2>1, <2>2, <3>1
    <3>2. CASE e.status \in Transitions[stage[s]] /\ stage[s] # "passed"
      <4>1. e.status # "planned"
        BY <1>t, <2>1, <3>2, Forward
      <4> QED
        BY <3>2, <4>1
    <3> QED
      BY <1>1, <3>1, <3>2 DEF Standing
  <2>4. LeasesFit'
    BY <1>t, <1>1 DEF IsStatusLine, LeasesFit, Serial
  <2>5. StagesInOrder'
    BY <2>1, <2>2, <2>3, OneStageMoves
  <2> QED
    BY <2>1, <2>2, <2>3, <2>4, <2>5
<1>2. CASE e.type = "resume"
  <2>1. ~closed /\ stage[Rebind] = "failed" /\ "running" \in Transitions[stage[Rebind]]
    BY <1>2 DEF Standing, Transitions
  <2>2. PriorPassed(Rebind)
    BY <1>t, <2>1 DEF Serial, StagesInOrder
  <2>3. stage' = [stage EXCEPT ![Rebind] = "running"] /\ UNCHANGED closed
    BY <1>t, <1>2 DEF StagesAfter
  <2>4. LeasesFit'
    BY <1>t, <1>2 DEF IsStatusLine, LeasesFit, Serial
  <2>5. StagesInOrder'
    <3>1. "running" \in StageStatuses
      BY DEF StageStatuses
    <3> QED
      BY <1>t, <2>1, <2>2, <2>3, <3>1, OneStageMoves
  <2> QED
    BY <1>t, <2>1, <2>2, <2>3, <2>4, <2>5
<1>3. CASE e.type \notin {"checkpoint", "resume"}
  <2>1. UNCHANGED stage /\ version' >= version
    BY <1>t, <1>3 DEF StagesAfter
  <2>2. StagesInOrder'
    BY <2>1 DEF Serial, StagesInOrder, PriorPassed
  <2>3. LeasesFit'
    <3>1. CASE e.type = "lease"
      <4>1. version' = version /\ e.bound = version /\ NextStage(e.stage)
        BY <1>t, <3>1 DEF IsStatusLine, Standing
      <4> QED
        BY <1>t, <2>1, <3>1, <4>1 DEF LeasesFit, Serial, NextStage, PriorPassed
    <3>2. CASE e.type # "lease"
      BY <1>t, <2>1, <3>2 DEF LeasesFit, Serial, NextStage, PriorPassed
    <3> QED
      BY <3>1, <3>2
  <2>4. \/ UNCHANGED closed
        \/ ~closed /\ AllPassed /\ closed'
    BY <1>t DEF Standing
  <2> QED
    BY <2>1, <2>2, <2>3, <2>4
<1> QED
  BY <1>1, <1>2, <1>3

-----------------------------------------------------------------------------
(* Every step but the appending of a line is quiet.                          *)
LEMMA OtherSteps ==
  ASSUME Serial, [Next]_vars, \A w \in Writers : ~Write(w)
  PROVE  /\ UNCHANGED <<stage, version, closed>>
         /\ leases' \subseteq leases
         /\ \A v \in Writers : op'[v] # Idle => Standing(op'[v].event)
<1> USE DEF Serial, AllStanding
<1>0. op \in [Writers -> Ops]
  BY DEF Core, TypeOK
<1>1. ASSUME NEW w \in Writers, Command(w)
      PROVE  /\ UNCHANGED log
             /\ \A v \in Writers : op'[v] # Idle => Standing(op'[v].event)
  <2>1. PICK e \in Events : Decide(w, e) /\ Standing(e)
    BY <1>1, CommandStands
  <2> QED
    BY <1>0, <2>1 DEF Decide
<1>2. ASSUME NEW w \in Writers, Count(w)
      PROVE  /\ UNCHANGED log
             /\ \A v \in Writers : op'[v] # Idle => Standing(op'[v].event)
  <2>1. op[w] # Idle
    BY <1>2 DEF Count, Idle
  <2> QED
    BY <1>0, <1>2, <2>1 DEF Count
<1>3. ASSUME NEW w \in Writers, Crash(w)
      PROVE  /\ UNCHANGED log
             /\ \A v \in Writers : op'[v] # Idle => Standing(op'[v].event)
  BY <1>0, <1>3 DEF Crash
<1>4. ASSUME NEW w \in Writers, WriteStale(w) \/ Tear(w)
      PROVE  /\ UNCHANGED <<stage, version, closed, leases>>
             /\ \A v \in Writers : op'[v] # Idle => Standing(op'[v].event)
  BY <1>4 DEF WriteStale, Tear, Breaks
<1>5. CASE Expire
  BY <1>5 DEF Expire
<1>6. CASE IssueSupersession \/ UNCHANGED vars
  BY <1>6 DEF IssueSupersession, vars, log
<1> QED
  BY <1>1, <1>2, <1>3, <1>4, <1>5, <1>6 DEF Next, log

LEMMA SerialNext ==
  ASSUME OneWriter, Serial, [Next]_vars
  PROVE  Serial'
<1>1. Core'
  BY CoreNext DEF Serial
<1>2. CASE \A w \in Writers : ~Write(w)
  BY <1>1, <1>2, OtherSteps, SerialQuiet
<1>3. ASSUME NEW w \in Writers, Write(w)
      PROVE  Serial'
  <2>1. op[w].event \in Events /\ Standing(op[w].event) /\ Append(op[w].event)
    BY <1>3, OpFields DEF Write, Serial, AllStanding, Core, TypeOK
  <2>2. AllStanding'
    BY <1>3 DEF AllStanding, OneWriter, Write, Finished
  <2> QED
    BY <1>1, <2>1, <2>2, SerialAppend DEF Serial
<1> QED
  BY <1>2, <1>3

(* With one process, what its line was decided on stands until it is         *)
(* appended, and leases that fit the file are for the next stage.            *)
THEOREM SerialInvariant == ASSUME OneWriter PROVE Spec => []Serial
BY SerialInit, SerialNext, PTL DEF Spec

(* With one process at a time, a stage is touched only while all the stages  *)
(* before it have passed, whatever lease, repetition, rollback or resume     *)
(* comes (issue_lease, record_checkpoint, resume_bounded_rebind_internal).   *)
THEOREM StagesKeepOrder == ASSUME OneWriter PROVE Spec => []StagesInOrder
<1>1. Serial => StagesInOrder
  BY DEF Serial
<1> QED
  BY <1>1, SerialInvariant, PTL

-----------------------------------------------------------------------------
LEMMA LineInit == Init => Line!Init
BY DEF Init, Line!Init, Stages, Line!Stages

LEMMA LineStep ==
  ASSUME Serial, [Next]_vars
  PROVE  [Line!Next]_(Line!svars)
<1> USE DEF Stages, Line!Stages
<1>1. CASE \A w \in Writers : ~Write(w)
  BY <1>1, OtherSteps DEF Line!svars
<1>2. ASSUME NEW w \in Writers, Write(w)
      PROVE  [Line!Next]_(Line!svars)
  <2>1. op[w].event \in Events /\ Standing(op[w].event) /\ Append(op[w].event)
    BY <1>2, OpFields DEF Write, Serial, AllStanding, Core, TypeOK
  <2>2. CASE UNCHANGED <<stage, closed>>
    BY <2>2 DEF Line!svars
  <2>3. CASE ~closed /\ AllPassed /\ closed' /\ UNCHANGED stage
    <3>1. closed' = TRUE
      BY <2>1, <2>3 DEF Append, Serial, Core, TypeOK
    <3> QED
      BY <2>3, <3>1 DEF AllPassed, Line!Close, Line!Next
  <2>4. ASSUME ~closed, UNCHANGED closed,
               NEW s \in Stages, PriorPassed(s), stage[s] # "passed",
               NEW new \in Transitions[stage[s]], stage' = [stage EXCEPT ![s] = new]
        PROVE  Line!Next
    <3>1. stage[s] \in StageStatuses \ {"passed"}
      BY <2>4 DEF Serial, Core, TypeOK
    <3>2. \/ stage[s] \in {"planned", "failed", "rolled_back"} /\ new = "running"
          \/ stage[s] \in {"planned", "running"} /\ new = "failed"
          \/ stage[s] \in {"running", "failed"} /\ new = "rolled_back"
          \/ stage[s] = "running" /\ new = "passed"
      BY <3>1, Forward
    <3>3. Line!Work(s)
      BY <2>4, <3>2 DEF Line!Work, PriorPassed
    <3> QED
      BY <3>3 DEF Line!Next
  <2> QED
    BY <2>1, <2>2, <2>3, <2>4, SerialAppend
<1> QED
  BY <1>1, <1>2

(* With one process at a time the control plane implements StageLine: a      *)
(* stage that passed stays passed although the transition table of           *)
(* record_checkpoint has a way back, and closing is final.                   *)
THEOREM ActivationRefinesLine == ASSUME OneWriter PROVE Spec => ImplementsStageLine
BY LineInit, LineStep, SerialInvariant, PTL DEF Spec, Line!Spec, ImplementsStageLine

-----------------------------------------------------------------------------
LEMMA TableStep ==
  ASSUME Serial, [Next]_vars, NEW s \in Stages, stage'[s] # stage[s]
  PROVE  stage'[s] \in Transitions[stage[s]]
<1>1. PICK w \in Writers : Write(w)
  BY OtherSteps
<1>2. op[w].event \in Events /\ Standing(op[w].event) /\ Append(op[w].event)
  BY <1>1, OpFields DEF Write, Serial, AllStanding, Core, TypeOK
<1>3. PICK t \in Stages : \E new \in Transitions[stage[t]] : stage' = [stage EXCEPT ![t] = new]
  BY <1>2, SerialAppend
<1>4. stage \in [Stages -> StageStatuses]
  BY DEF Serial, Core, TypeOK
<1> QED
  BY <1>3, <1>4

(* With one process at a time every status moves along the transition table  *)
(* of record_checkpoint, the resume of the failed rebind included; with two  *)
(* a late line steps off it (run activation_race).                           *)
THEOREM TableKept == ASSUME OneWriter PROVE Spec => StagesFollowTable
<1>1. ASSUME Serial, [Next]_vars
      PROVE  [\A s \in Stages :
                stage'[s] # stage[s] => stage'[s] \in Transitions[stage[s]]]_vars
  BY <1>1, TableStep
<1> QED
  BY <1>1, SerialInvariant, PTL DEF Spec, StagesFollowTable
=============================================================================
