------------------------- MODULE StrategyCenter_proof -------------------------
(***************************************************************************)
(* Proofs about StrategyCenter, for any number of users, revisions,        *)
(* sources and times.                                                      *)
(***************************************************************************)
EXTENDS StrategyCenter, TLAPS

(* The shapes of the two runs that are under way.                            *)
TickType ==
  \/ tick = Idle
  \/ /\ tick \in [phase : {"chosen"}, kind : Kinds, queue : SUBSET Ids, rev : Ids,
                  authority : SUBSET Ids, source : Sources, time : Times]
  \/ /\ tick \in [phase : {"planned"}, kind : Kinds, queue : SUBSET Ids, rev : Ids,
                  authority : SUBSET Ids, source : Sources, plan : PlanType]
     /\ tick.plan.rev = tick.rev
  \/ tick \in [phase : {"committed"}, kind : Kinds, queue : SUBSET Ids, rev : Ids,
               authority : SUBSET Ids, source : Sources]

ManualType == manual = Idle \/ manual \in [phase : {"planned"}, plan : PlanType]

(* Revisions are numbered without gaps, and the number of one within its     *)
(* user's line is not above its identifier.                                  *)
Numbered ==
  /\ \A r, q \in Ids : q < r /\ rev[r] # Absent => rev[q] # Absent
  /\ \A r \in Ids : rev[r] # Absent => rev[r].no <= r

RevInv == TypeOK /\ TickType /\ ManualType /\ Numbered /\ OneActive

-----------------------------------------------------------------------------
(* A one-element set's element is the one CHOOSE gives.                      *)
LEMMA Only ==
  ASSUME NEW S, NEW x \in S, \A y \in S : y = x
  PROVE  (CHOOSE r \in S : TRUE) = x
OBVIOUS

LEMMA Shape ==
  ASSUME TypeOK, NEW r \in Ids
  PROVE  /\ rev[r] # Absent => rev[r] \in RevisionType
         /\ rev[r] = Absent <=> rev[r].status = "absent"
         /\ r \in Nat
BY StrategyAssumption DEF TypeOK, Absent, RevisionType, Ids

(* With no revision of its user in use, an active or a pending one is known  *)
(* by its status.                                                            *)
LEMMA WithFacts ==
  ASSUME TypeOK, NEW u, NEW s \in {"active", "pending", "superseded", "abandoned"}
  PROVE  With(u, s) = {r \in Ids : rev[r].status = s /\ rev[r].user = u}
BY Shape DEF With, Of, Absent

LEMMA ActiveOne ==
  ASSUME TypeOK, OneActive, NEW u \in Users, Joined(u)
  PROVE  /\ ActiveOf(u) \in Ids
         /\ rev[ActiveOf(u)] \in RevisionType
         /\ rev[ActiveOf(u)].user = u /\ rev[ActiveOf(u)].status = "active"
         /\ \A r \in Ids : rev[r].status = "active" /\ rev[r].user = u => r = ActiveOf(u)
<1>1. PICK x \in With(u, "active") : TRUE BY DEF OneActive
<1>2. \A y \in With(u, "active") : y = x BY DEF OneActive
<1>3. ActiveOf(u) = x BY <1>1, <1>2, Only DEF ActiveOf
<1>4. QED BY <1>1, <1>2, <1>3, WithFacts, Shape DEF Absent

-----------------------------------------------------------------------------
(* Every way to create a selection inserts the next identifier: for a new    *)
(* user a first active revision, for others a pending successor.             *)
Entering(u, new) ==
  \/ /\ ~Joined(u)
     /\ new = [user |-> u, no |-> 1, status |-> "active", replay |-> "pending",
               prev |-> 0, version |-> "v1"]
  \/ /\ Joined(u)
     /\ \E version \in {"v1", "v2"} : new = Successor(u, version)

LEMMA InsertRev ==
  ASSUME RevInv, NEW u \in Users, NEW new, Entering(u, new), InsertRevision(new)
  PROVE  /\ TypeOK' /\ Numbered' /\ OneActive'
         /\ \A v \in Users : v # u \/ Joined(u) => ActiveOf(v)' = ActiveOf(v)
         /\ ~Joined(u) => ActiveOf(u)' \in Ids /\ rev[ActiveOf(u)'] = Absent
         /\ \A v \in Users : Joined(v)' <=> v = u \/ Joined(v)
         /\ \A q \in Ids : rev[q] # Absent => rev'[q] = rev[q]
         /\ \A q \in Ids : rev[q] = Absent => rev'[q] = Absent \/ rev'[q].replay = "pending"
<1>. USE DEF RevInv
<1>1. PICK i \in Least(Unused) : rev' = [rev EXCEPT ![i] = new] BY DEF InsertRevision
<1>2. i \in Ids /\ rev[i] = Absent /\ \A q \in Ids : rev[q] = Absent => i <= q
  BY <1>1 DEF Least, Unused
<1>3. new.user = u
  BY DEF Entering, Successor
<1>4. new \in RevisionType /\ new.no <= i
  <2>1. CASE ~Joined(u)
    <3>1. i \in 1 .. MaxRevision /\ MaxRevision \in Nat BY <1>2, StrategyAssumption DEF Ids
    <3>2. 1 \in Ids BY <3>1 DEF Ids
    <3>3. new = [user |-> u, no |-> 1, status |-> "active", replay |-> "pending",
                 prev |-> 0, version |-> "v1"] BY <2>1 DEF Entering
    <3>4. QED BY <3>1, <3>2, <3>3 DEF RevisionType
  <2>2. CASE Joined(u)
    <3>. DEFINE a == ActiveOf(u)
    <3>1. a \in Ids /\ rev[a] \in RevisionType /\ rev[a] # Absent
      BY <2>2, ActiveOne, Shape DEF Absent
    <3>2. rev[a].no <= a /\ rev[a].no \in Ids BY <3>1 DEF Numbered, RevisionType
    <3>3. a < i
      BY <1>2, <3>1, StrategyAssumption DEF Numbered, Ids
    <3>4. rev[a].no + 1 <= i /\ rev[a].no + 1 \in Ids
      BY <1>2, <3>1, <3>2, <3>3, StrategyAssumption DEF Ids
    <3>5. PICK version \in {"v1", "v2"} : new = Successor(u, version) BY <2>2 DEF Entering
    <3>6. new = [user |-> u, no |-> rev[a].no + 1, status |-> "pending",
                 replay |-> "pending", prev |-> a, version |-> version]
      BY <3>5 DEF Successor
    <3>. HIDE DEF a
    <3>7. QED BY <3>1, <3>4, <3>6 DEF RevisionType
  <2>3. QED BY <2>1, <2>2
<1>5. new # Absent /\ new.status \in {"active", "pending"}
  BY <1>4 DEF Entering, Successor, Absent, RevisionType
<1>6. rev \in [Ids -> {Absent} \cup RevisionType] BY DEF TypeOK
<1>7. rev'[i] = new /\ \A q \in Ids \ {i} : rev'[q] = rev[q] BY <1>1, <1>2, <1>6
<1>8. TypeOK'
  <2>1. rev' \in [Ids -> {Absent} \cup RevisionType] BY <1>1, <1>4, <1>6
  <2>2. QED BY <2>1 DEF TypeOK, InsertRevision, surfaces
<1>9. Numbered'
  <2>1. \A q \in Ids : q < i => rev[q] # Absent
    BY <1>2, StrategyAssumption DEF Ids
  <2>2. QED BY <1>2, <1>4, <1>5, <1>7, <2>1 DEF Numbered, Ids
<1>10. \A r \in Ids : rev'[r] = Absent <=> rev'[r].status = "absent"
  BY <1>8, <1>6, <1>7, <1>5, <1>4, Shape DEF RevisionType
<1>11. \A v, s : s \in {"active", "pending"} =>
        With(v, s)' = IF v = u /\ s = new.status THEN With(v, s) \cup {i} ELSE With(v, s)
  BY <1>2, <1>3, <1>5, <1>7, Shape DEF With, Of, Absent
<1>12. \A v : Joined(v)' <=> v = u \/ Joined(v)
  BY <1>2, <1>3, <1>5, <1>7 DEF Joined, Of
<1>13. With(u, "pending") = {} BY <1>3 DEF InsertRevision, Insertable
<1>14. ~Joined(u) => With(u, "active") = {} BY DEF Joined, With
<1>15. ASSUME NEW v \in Users
      PROVE  /\ \A r, q \in With(v, "active")' : r = q
             /\ \A r, q \in With(v, "pending")' : r = q
             /\ Joined(v)' => With(v, "active")' # {}
             /\ \A r \in With(v, "pending")' : rev'[r].prev = ActiveOf(v)'
  <2>1. CASE v # u
    <3>1. With(v, "active")' = With(v, "active") /\ With(v, "pending")' = With(v, "pending")
      BY <1>11, <2>1
    <3>2. ActiveOf(v)' = ActiveOf(v) BY <3>1 DEF ActiveOf
    <3>3. \A r \in With(v, "pending") : rev'[r] = rev[r]
      BY <1>2, <1>7 DEF With, Of
    <3>4. QED BY <1>12, <2>1, <3>1, <3>2, <3>3 DEF OneActive
  <2>2. CASE v = u /\ ~Joined(u)
    <3>1. new.status = "active" BY <2>2 DEF Entering
    <3>2. With(u, "active")' = {i} /\ With(u, "pending")' = {}
      BY <1>11, <1>13, <1>14, <2>2, <3>1
    <3>3. QED BY <2>2, <3>2
  <2>3. CASE v = u /\ Joined(u)
    <3>1. new.status = "pending" /\ new.prev = ActiveOf(u) BY <2>3 DEF Entering, Successor
    <3>2. With(u, "active")' = With(u, "active") /\ With(u, "pending")' = {i}
      BY <1>11, <1>13, <3>1
    <3>3. ActiveOf(u)' = ActiveOf(u) BY <3>2 DEF ActiveOf
    <3>4. QED BY <1>7, <2>3, <3>1, <3>2, <3>3 DEF OneActive
  <2>4. QED BY <2>1, <2>2, <2>3
<1>16. OneActive' BY <1>15 DEF OneActive
<1>17. ~Joined(u) => ActiveOf(u)' = i
  <2>1. SUFFICES ASSUME ~Joined(u) PROVE ActiveOf(u)' = i OBVIOUS
  <2>2. With(u, "active")' = {i} BY <1>11, <1>14, <2>1 DEF Entering
  <2>3. QED BY <2>2, Only DEF ActiveOf
<1>18. \A v \in Users : v # u \/ Joined(u) => With(v, "active")' = With(v, "active")
  BY <1>11 DEF Entering, Successor
<1>19. \A v \in Users : v # u \/ Joined(u) => ActiveOf(v)' = ActiveOf(v)
  BY <1>18 DEF ActiveOf
<1>20. \A q \in Ids : rev[q] = Absent => rev'[q] = Absent \/ rev'[q].replay = "pending"
  BY <1>7 DEF Entering, Successor
<1>21. QED BY <1>2, <1>7, <1>8, <1>9, <1>12, <1>16, <1>17, <1>19, <1>20

(* A revision that is marked keeps its user and status: nobody's active or   *)
(* pending revision changes.                                                 *)
LEMMA MarkRev ==
  ASSUME RevInv,
         rev' \in [Ids -> {Absent} \cup RevisionType],
         \A r \in Ids : /\ rev'[r] = Absent <=> rev[r] = Absent
                        /\ rev[r] # Absent => /\ rev'[r].user = rev[r].user
                                              /\ rev'[r].status = rev[r].status
                                              /\ rev'[r].no = rev[r].no
                                              /\ rev'[r].prev = rev[r].prev
  PROVE  /\ Numbered' /\ OneActive'
         /\ \A u \in Users : ActiveOf(u)' = ActiveOf(u) /\ Joined(u)' = Joined(u)
<1>. USE DEF RevInv
<1>1. Numbered' BY DEF Numbered
<1>2. \A r \in Ids : rev[r] = Absent <=> rev[r].status = "absent" BY Shape
<1>3. \A u, s : s \in {"active", "pending"} => With(u, s)' = With(u, s)
  BY <1>2 DEF With, Of, Absent
<1>4. \A u : Of(u)' = Of(u) BY DEF Of
<1>5. \A u : ActiveOf(u)' = ActiveOf(u) BY <1>3 DEF ActiveOf
<1>6. \A u : \A r \in With(u, "pending") : rev'[r].prev = rev[r].prev BY DEF With, Of
<1>7. \A u : Joined(u)' = Joined(u) BY <1>4 DEF Joined
<1>8. OneActive' BY <1>3, <1>5, <1>6, <1>7 DEF OneActive
<1>9. QED BY <1>1, <1>5, <1>7, <1>8

(* Activation: the pending revision of a user takes the place of the active. *)
LEMMA ActivateRev ==
  ASSUME RevInv, NEW r \in Ids, Ranked(r), rev[r].status = "pending", rev' = Activated(r),
         NEW u, u = rev[r].user
  PROVE  /\ rev' \in [Ids -> {Absent} \cup RevisionType]
         /\ Numbered' /\ OneActive'
         /\ ActiveOf(u)' = r
         /\ \A v \in Users : v # u => ActiveOf(v)' = ActiveOf(v)
         /\ \A v \in Users : Joined(v)' = Joined(v)
         /\ \A q \in Ids : rev'[q].status = "active" => q = r \/ rev'[q] = rev[q]
         /\ rev'[r].status = "active" /\ rev'[ActiveOf(u)].status = "superseded"
         /\ \A q \in Ids : q # r /\ q # ActiveOf(u) => rev'[q] = rev[q]
         /\ With(u, "pending") = {r} /\ With(u, "pending")' = {}
         /\ With(u, "active") = {ActiveOf(u)} /\ With(u, "active")' = {r}
         /\ \A v \in Users, s \in {"active", "pending"} : v # u => With(v, s)' = With(v, s)
<1>. USE DEF RevInv
<1>1. rev[r] \in RevisionType /\ u \in Users
  BY Shape DEF Ranked, RevisionType
<1>2. Joined(u) BY <1>1 DEF Joined, Of, Ranked
<1>3. PICK a \in Ids :
        /\ a = ActiveOf(u)
        /\ rev[a] \in RevisionType /\ rev[a].user = u /\ rev[a].status = "active"
        /\ \A q \in Ids : rev[q].status = "active" /\ rev[q].user = u => q = a
  BY <1>1, <1>2, ActiveOne
<1>4. r # a BY <1>3
<1>5. rev \in [Ids -> {Absent} \cup RevisionType] BY DEF TypeOK
<1>6. /\ rev'[a] = [rev[a] EXCEPT !.status = "superseded"]
      /\ rev'[r] = [rev[r] EXCEPT !.status = "active", !.replay = "passed"]
  BY <1>3, <1>4, <1>5 DEF Activated
<1>7. /\ rev'[a] \in RevisionType /\ rev'[a].status = "superseded" /\ rev'[a].user = u
      /\ rev'[a].no = rev[a].no
      /\ rev'[r] \in RevisionType /\ rev'[r].status = "active" /\ rev'[r].user = u
      /\ rev'[r].no = rev[r].no
  BY <1>1, <1>3, <1>6 DEF RevisionType
<1>8. rev' \in [Ids -> {Absent} \cup RevisionType]
  BY <1>1, <1>3, <1>5 DEF Activated, RevisionType
<1>9. \A q \in Ids : q # a /\ q # r => rev'[q] = rev[q]
  BY <1>3, <1>5 DEF Activated
<1>10. rev[r].user = u OBVIOUS
<1>11. /\ \A q \in Ids : rev[q] = Absent <=> rev[q].status = "absent"
       /\ \A q \in Ids : rev'[q] = Absent <=> rev'[q].status = "absent"
  BY <1>7, <1>9, Shape DEF RevisionType, Absent
<1>12. Numbered'
  BY <1>3, <1>7, <1>9, <1>11, <1>1 DEF Numbered, RevisionType
<1>13. \A q \in Ids : rev[q].status = "pending" /\ rev[q].user = u => q = r
  <2>1. r \in With(u, "pending") BY <1>10, WithFacts
  <2>2. \A q \in With(u, "pending") : q = r BY <1>1, <2>1 DEF OneActive
  <2>3. QED BY <2>2, WithFacts
<1>14. \A v, s : s \in {"active", "pending"} /\ v # u => With(v, s)' = With(v, s)
  BY <1>3, <1>7, <1>9, <1>10, <1>11 DEF With, Of
<1>15. With(u, "active")' = {r} /\ With(u, "pending")' = {}
  BY <1>3, <1>7, <1>9, <1>11, <1>13 DEF With, Of
<1>16. \A v : Joined(v)' = Joined(v)
  BY <1>1, <1>3, <1>7, <1>9, <1>10, <1>11 DEF Joined, Of, RevisionType
<1>17. ActiveOf(u)' = r
  BY <1>15, Only DEF ActiveOf
<1>18. \A v : v # u => ActiveOf(v)' = ActiveOf(v) BY <1>14 DEF ActiveOf
<1>19. \A v : v # u => \A q \in With(v, "pending") : rev'[q].prev = rev[q].prev
  BY <1>3, <1>9, <1>10 DEF With, Of
<1>20. OneActive'
  <2>1. ASSUME NEW v \in Users
        PROVE  /\ \A x, y \in With(v, "active")' : x = y
               /\ \A x, y \in With(v, "pending")' : x = y
               /\ Joined(v)' => With(v, "active")' # {}
               /\ \A x \in With(v, "pending")' : rev'[x].prev = ActiveOf(v)'
    <3>1. CASE v = u BY <1>15, <3>1
    <3>2. CASE v # u BY <1>14, <1>16, <1>18, <1>19, <3>2 DEF OneActive
    <3>3. QED BY <3>1, <3>2
  <2>2. QED BY <2>1 DEF OneActive
<1>21. \A q \in Ids : rev'[q].status = "active" => q = r \/ rev'[q] = rev[q]
  BY <1>7, <1>9
<1>22. With(u, "active") = {ActiveOf(u)} /\ With(u, "pending") = {r}
  BY <1>3, <1>10, <1>13, WithFacts
<1>23. QED
  BY <1>3, <1>7, <1>8, <1>9, <1>10, <1>12, <1>14, <1>15, <1>16, <1>17, <1>18, <1>20, <1>21, <1>22

-----------------------------------------------------------------------------
(* What an evaluation gives are rows of the source it was made from.         *)
LEMMA RowsTyped ==
  ASSUME NEW plan \in PlanType
  PROVE  RowsOf(plan) \in RowsType
<1>1. plan.source \in {0} \cup Sources BY DEF PlanType
<1>2. QED BY <1>1 DEF RowsOf, RowsType

(* A commit leaves everything but the state file in its type.                *)
LEMMA ApplyRev ==
  ASSUME RevInv, NEW plan \in PlanType, Apply(plan), file' = file
  PROVE  TypeOK' /\ Numbered' /\ OneActive'
<1>. USE DEF RevInv
<1>. DEFINE r == plan.rev
            new == RowsOf(plan)
<1>1. r \in Ids /\ plan.source \in Sources /\ plan.time \in Times BY DEF PlanType
<1>2. rev[r] \in RevisionType /\ rev[r] # Absent /\ rev[r].user \in Users
  BY <1>1, Shape DEF Apply, Ranked, RevisionType
<1>3. new \in RowsType BY RowsTyped
<1>4. shown' \in [Ids -> RowsType]
  <2>1. shown' = [shown EXCEPT ![r] = new] BY DEF Apply
  <2>2. QED BY <1>1, <1>3, <2>1 DEF TypeOK
<1>5. evaluated' \in [Ids -> {0} \cup Sources]
  BY <1>1 DEF Apply, TypeOK
<1>. HIDE DEF new
<1>6. Changes(view[rev[r].user], shown[r], new) \in RowsType
  BY <1>1, <1>2, <1>3 DEF Changes, RowsType, TypeOK
<1>7. view' \in [Users -> RowsType]
  <2>1. \/ view' = [view EXCEPT ![rev[r].user] = new]
        \/ view' = [view EXCEPT ![rev[r].user] = Changes(view[rev[r].user], shown[r], new)]
    BY DEF Apply, new
  <2>2. QED BY <1>2, <1>3, <1>6, <2>1 DEF TypeOK
<1>8. rev' \in [Ids -> {Absent} \cup RevisionType] /\ Numbered' /\ OneActive'
  <2>1. CASE rev[r].status = "pending"
    <3>1. rev' = Activated(r) /\ Ranked(r) BY <2>1 DEF Apply
    <3>. HIDE DEF r
    <3>2. QED BY <1>1, <2>1, <3>1, ActivateRev
  <2>2. CASE rev[r].status # "pending"
    <3>1. rev' = [rev EXCEPT ![r].replay = "passed"] BY <2>2 DEF Apply
    <3>. HIDE DEF r
    <3>2. rev \in [Ids -> {Absent} \cup RevisionType] BY DEF TypeOK
    <3>3. rev' \in [Ids -> {Absent} \cup RevisionType]
      BY <1>1, <1>2, <3>1, <3>2 DEF RevisionType
    <3>4. \A q \in Ids \ {r} : rev'[q] = rev[q]
      BY <1>1, <3>1, <3>2
    <3>5. rev'[r] \in RevisionType /\ rev'[r].user = rev[r].user /\ rev'[r].status = rev[r].status
          /\ rev'[r].no = rev[r].no /\ rev'[r].prev = rev[r].prev
      BY <1>1, <1>2, <3>1, <3>2 DEF RevisionType
    <3>6. rev'[r] # Absent BY <1>2, <3>5 DEF Absent, RevisionType
    <3>7. QED BY <1>2, <3>3, <3>4, <3>5, <3>6, MarkRev
  <2>3. QED BY <2>1, <2>2
<1>9. TypeOK' BY <1>4, <1>5, <1>7, <1>8 DEF Apply, TypeOK
<1>10. QED BY <1>8, <1>9

LEMMA AbandonRev ==
  ASSUME RevInv, NEW u \in Users, Abandon(u)
  PROVE  /\ TypeOK' /\ Numbered' /\ OneActive'
         /\ \A v \in Users : ActiveOf(v)' = ActiveOf(v) /\ Joined(v)' = Joined(v)
         /\ \A q \in Ids : rev'[q] = Absent <=> rev[q] = Absent
         /\ \A q \in Ids : rev'[q].status = "active" => rev'[q] = rev[q]
<1>. USE DEF RevInv
<1>1. PICK r \in With(u, "pending") : rev' = [rev EXCEPT ![r].status = "abandoned", ![r].replay = "failed"]
  BY DEF Abandon
<1>2. r \in Ids /\ rev[r].status = "pending" /\ rev[r].user = u BY WithFacts
<1>3. rev[r] \in RevisionType BY <1>2, Shape
<1>4. rev \in [Ids -> {Absent} \cup RevisionType] BY DEF TypeOK
<1>5. rev' \in [Ids -> {Absent} \cup RevisionType] BY <1>1, <1>2, <1>3, <1>4 DEF RevisionType
<1>6. /\ rev'[r] \in RevisionType /\ rev'[r].status = "abandoned" /\ rev'[r].user = u
      /\ rev'[r].no = rev[r].no
  BY <1>1, <1>2, <1>3, <1>4 DEF RevisionType
<1>7. \A q \in Ids : q # r => rev'[q] = rev[q] BY <1>1, <1>2, <1>4
<1>8. /\ \A q \in Ids : rev[q] = Absent <=> rev[q].status = "absent"
      /\ \A q \in Ids : rev'[q] = Absent <=> rev'[q].status = "absent"
  BY <1>6, <1>7, Shape DEF RevisionType, Absent
<1>9. Numbered' BY <1>2, <1>3, <1>6, <1>7, <1>8 DEF Numbered
<1>10. \A v : With(v, "active")' = With(v, "active")
  BY <1>2, <1>6, <1>7, <1>8 DEF With, Of
<1>11. \A v : With(v, "pending")' \subseteq With(v, "pending")
  BY <1>2, <1>6, <1>7, <1>8 DEF With, Of
<1>12. \A v : Joined(v)' = Joined(v)
  BY <1>2, <1>3, <1>6, <1>7, <1>8 DEF Joined, Of
<1>13. \A v : ActiveOf(v)' = ActiveOf(v) BY <1>10 DEF ActiveOf
<1>14. \A v : \A q \in With(v, "pending")' : rev'[q].prev = rev[q].prev
  BY <1>6, <1>7 DEF With, Of
<1>15. OneActive' BY <1>10, <1>11, <1>12, <1>13, <1>14 DEF OneActive
<1>16. TypeOK' BY <1>5 DEF TypeOK, Abandon, surfaces
<1>17. QED BY <1>2, <1>6, <1>7, <1>8, <1>9, <1>12, <1>13, <1>15, <1>16

LEMMA FailRev ==
  ASSUME RevInv, NEW r \in Ids, rev[r].status = "pending",
         rev' = [rev EXCEPT ![r].replay = "failed"]
  PROVE  /\ rev' \in [Ids -> {Absent} \cup RevisionType]
         /\ Numbered' /\ OneActive'
         /\ \A u \in Users : ActiveOf(u)' = ActiveOf(u) /\ Joined(u)' = Joined(u)
         /\ \A q \in Ids : q # r => rev'[q] = rev[q]
         /\ rev'[r].status = "pending"
<1>. USE DEF RevInv
<1>1. rev[r] \in RevisionType /\ rev[r] # Absent BY Shape DEF Absent
<1>2. rev \in [Ids -> {Absent} \cup RevisionType] BY DEF TypeOK
<1>3. rev' \in [Ids -> {Absent} \cup RevisionType] BY <1>1, <1>2 DEF RevisionType
<1>4. \A q \in Ids : q # r => rev'[q] = rev[q] BY <1>2
<1>5. rev'[r] \in RevisionType /\ rev'[r].user = rev[r].user /\ rev'[r].status = rev[r].status
      /\ rev'[r].no = rev[r].no /\ rev'[r].prev = rev[r].prev
  BY <1>1, <1>2 DEF RevisionType
<1>6. rev'[r] # Absent BY <1>5 DEF Absent, RevisionType
<1>7. QED BY <1>1, <1>3, <1>4, <1>5, <1>6, MarkRev

(* What a run reads: a queue of identifiers, and a plan of two revisions.    *)
LEMMA ChoiceType ==
  ASSUME RevInv
  PROVE  /\ Choice.kind \in Kinds /\ Choice.queue \in SUBSET Ids
         /\ Active \in SUBSET Ids /\ Pending \in SUBSET Ids
<1>1. Pending \in SUBSET Ids /\ Active \in SUBSET Ids /\ ReplayPending \in SUBSET Ids
  BY DEF Pending, Active, ReplayPending
<1>2. file.scopes.remaining \in SUBSET Ids
  BY DEF RevInv, TypeOK, FileType, QueueType
<1>3. Unfinished \in SUBSET Ids /\ RoundRobin \in SUBSET Ids
  BY <1>1, <1>2 DEF Unfinished, RoundRobin
<1>4. QED BY <1>1, <1>3 DEF Choice, Kinds

LEMMA PlanIsTyped ==
  ASSUME RevInv, NEW r \in Ids, Ranked(r), NEW time \in Times
  PROVE  PlanOf(r, time) \in PlanType /\ PlanOf(r, time).rev = r
<1>. USE DEF RevInv
<1>1. rev[r] \in RevisionType /\ rev[r].user \in Users
  BY Shape DEF Ranked, RevisionType
<1>2. Joined(rev[r].user) BY <1>1 DEF Joined, Of, Ranked
<1>3. rev[ActiveOf(rev[r].user)] \in RevisionType BY <1>1, <1>2, ActiveOne
<1>4. Lifecycle(r) \in RevisionType \X RevisionType BY <1>1, <1>3 DEF Lifecycle
<1>5. source \in Sources BY DEF TypeOK
<1>6. Frozen(r) \in RowsType
  <2>1. NoRows \in RowsType BY DEF NoRows, RowsType
  <2>2. shown[r] \in RowsType BY DEF TypeOK
  <2>3. QED BY <2>1, <2>2 DEF Frozen
<1>. HIDE DEF RevInv
<1>7. QED BY <1>4, <1>5, <1>6 DEF PlanOf, PlanType

(* A failed attempt is written to the file.                                  *)
LEMMA FailedFileType ==
  ASSUME TypeOK, NEW attempt \in {SourceState} \cup (Kinds \X Ids \X Sources)
  PROVE  /\ FailedFile(attempt) \in FileType
         /\ FailedFile(attempt).cursor = file.cursor /\ FailedFile(attempt).scopes = file.scopes
<1>1. file \in FileType /\ clock \in Times BY DEF TypeOK
<1>2. (IF clock + Backoff < MaxClock THEN clock + Backoff ELSE MaxClock) \in Times
  BY <1>1, StrategyAssumption DEF Times
<1>3. PICK time \in Times : time = IF clock + Backoff < MaxClock THEN clock + Backoff ELSE MaxClock
  BY <1>2
<1>4. FailedFile(attempt) = [cursor |-> file.cursor, scopes |-> file.scopes,
                             failed |-> attempt, retry |-> time]
  BY <1>3 DEF FailedFile
<1>5. QED BY <1>1, <1>3, <1>4 DEF FileType

-----------------------------------------------------------------------------
(* The evaluator.                                                            *)
LEMMA AutoRev == RevInv /\ AutoRun => RevInv'
<1>. SUFFICES ASSUME RevInv, AutoRun PROVE RevInv' OBVIOUS
<1>. USE DEF RevInv
<1>0. /\ rev' = rev => rev' \in [Ids -> {Absent} \cup RevisionType] /\ Numbered' /\ OneActive'
  BY DEF TypeOK, Numbered, OneActive, With, Of, Joined, ActiveOf
<1>1. CASE Begin
  <2>1. PICK r \in Least(Choice.queue) :
          tick' = [phase |-> "chosen", kind |-> Choice.kind, queue |-> Choice.queue, rev |-> r,
                   authority |-> Active, source |-> source, time |-> clock]
    BY <1>1 DEF Begin
  <2>2. r \in Ids BY <2>1, ChoiceType DEF Least
  <2>3. source \in Sources /\ clock \in Times BY DEF TypeOK
  <2>4. tick' \in [phase : {"chosen"}, kind : Kinds, queue : SUBSET Ids, rev : Ids,
                   authority : SUBSET Ids, source : Sources, time : Times]
    BY <2>1, <2>2, <2>3, ChoiceType
  <2>5. TickType' BY <2>4 DEF TickType
  <2>6. QED BY <1>0, <1>1, <2>5 DEF Begin, TypeOK, ManualType, selections, surfaces
<1>2. CASE LoadFails
  <2>1. file' \in FileType BY <1>2, FailedFileType DEF LoadFails
  <2>2. QED BY <1>0, <1>2, <2>1 DEF LoadFails, TypeOK, TickType, ManualType, selections, surfaces
<1>3. CASE Recovers
  <2>1. file' \in FileType BY <1>3 DEF Recovers, TypeOK, FileType
  <2>2. QED BY <1>0, <1>3, <2>1 DEF Recovers, TypeOK, TickType, ManualType, selections, surfaces
<1>4. CASE MakePlan
  <2>1. /\ tick \in [phase : {"chosen"}, kind : Kinds, queue : SUBSET Ids, rev : Ids,
                     authority : SUBSET Ids, source : Sources, time : Times]
    BY <1>4 DEF MakePlan, TickType, Idle
  <2>2. Chosen \in Ids /\ tick.time \in Times BY <2>1 DEF Chosen
  <2>3. PlanOf(Chosen, tick.time) \in PlanType /\ PlanOf(Chosen, tick.time).rev = Chosen
    BY <1>4, <2>2, PlanIsTyped DEF MakePlan
  <2>4. tick' \in [phase : {"planned"}, kind : Kinds, queue : SUBSET Ids, rev : Ids,
                   authority : SUBSET Ids, source : Sources, plan : PlanType]
        /\ tick'.plan.rev = tick'.rev
    BY <1>4, <2>1, <2>2, <2>3 DEF MakePlan
  <2>5. TickType' BY <2>4 DEF TickType
  <2>6. QED BY <1>0, <1>4, <2>5 DEF MakePlan, TypeOK, ManualType, selections, surfaces
<1>5. CASE EndsQuietly
  BY <1>0, <1>5 DEF EndsQuietly, TypeOK, TickType, ManualType, selections, surfaces
<1>6. CASE CommitPlan
  <2>1. tick \in [phase : {"planned"}, kind : Kinds, queue : SUBSET Ids, rev : Ids,
                  authority : SUBSET Ids, source : Sources, plan : PlanType]
    BY <1>6 DEF CommitPlan, TickType, Idle
  <2>2. TypeOK' /\ Numbered' /\ OneActive'
    BY <1>6, <2>1, ApplyRev DEF CommitPlan
  <2>3. tick' \in [phase : {"committed"}, kind : Kinds, queue : SUBSET Ids, rev : Ids,
                   authority : SUBSET Ids, source : Sources]
    BY <1>6, <2>1 DEF CommitPlan, Chosen
  <2>4. TickType' BY <2>3 DEF TickType
  <2>5. ManualType' BY <1>6 DEF CommitPlan, ManualType
  <2>6. QED BY <2>2, <2>4, <2>5
<1>7. CASE Fails
  <2>1. /\ Chosen \in Ids /\ tick.kind \in Kinds /\ tick.source \in Sources
    BY <1>7 DEF Fails, TickType, Idle, Chosen
  <2>2. Attempt(tick.kind, Chosen, tick.source) \in Kinds \X Ids \X Sources
    BY <2>1 DEF Attempt
  <2>3. file' \in FileType BY <1>7, <2>2, FailedFileType DEF Fails
  <2>4. rev' \in [Ids -> {Absent} \cup RevisionType] /\ Numbered' /\ OneActive'
    BY <1>0, <1>7, <2>1, FailRev DEF Fails
  <2>5. TypeOK' BY <1>7, <2>3, <2>4 DEF Fails, TypeOK, surfaces
  <2>6. TickType' /\ ManualType' BY <1>7 DEF Fails, TickType, ManualType
  <2>7. QED BY <2>4, <2>5, <2>6
<1>8. CASE SaveState
  <2>1. tick \in [phase : {"committed"}, kind : Kinds, queue : SUBSET Ids, rev : Ids,
                  authority : SUBSET Ids, source : Sources]
    BY <1>8 DEF SaveState, TickType, Idle
  <2>2. CursorAfter \in {0} \cup Sources
    BY <2>1 DEF CursorAfter, TypeOK, FileType
  <2>3. ScopesAfter \in QueueType
    <3>1. file.scopes \in QueueType BY DEF TypeOK, FileType
    <3>2. NoQueue \in QueueType BY DEF NoQueue, QueueType
    <3>3. [at |-> tick.source, authority |-> tick.authority, remaining |-> Remaining] \in QueueType
      BY <2>1 DEF QueueType, Remaining
    <3>4. QED BY <3>1, <3>2, <3>3 DEF ScopesAfter
  <2>4. 0 \in Times BY StrategyAssumption DEF Times
  <2>5. file' \in FileType BY <1>8, <2>2, <2>3, <2>4 DEF SaveState, FileType
  <2>6. QED BY <1>0, <1>8, <2>5 DEF SaveState, TypeOK, TickType, ManualType, selections, surfaces
<1>9. QED BY <1>1, <1>2, <1>3, <1>4, <1>5, <1>6, <1>7, <1>8 DEF AutoRun, Running

LEMMA InitRev == Init => RevInv
<1>. SUFFICES ASSUME Init PROVE RevInv OBVIOUS
<1>1. 1 \in Sources /\ 0 \in Times BY StrategyAssumption DEF Sources, Times
<1>2. NoRows \in RowsType BY DEF NoRows, RowsType
<1>3. NewFile \in FileType BY <1>1 DEF NewFile, NoQueue, FileType, QueueType
<1>4. TypeOK BY <1>1, <1>2, <1>3 DEF Init, TypeOK
<1>5. TickType /\ ManualType /\ Numbered BY DEF Init, TickType, ManualType, Numbered
<1>6. \A u : Of(u) = {} BY DEF Init, Of
<1>7. OneActive BY <1>6 DEF OneActive, With, Joined
<1>8. QED BY <1>4, <1>5, <1>7 DEF RevInv

(* The selections that are created.                                          *)
LEMMA Creations ==
  ASSUME NEW u \in Users,
         Provision(u) \/ Put(u) \/ Migrate(u) \/ OwnerCreate(u) \/ Compensate(u)
  PROVE  \E new : Entering(u, new) /\ InsertRevision(new)
<1>1. CASE Provision(u) BY <1>1 DEF Provision, Entering
<1>2. CASE Put(u) BY <1>2 DEF Put, Entering
<1>3. CASE Migrate(u) BY <1>3 DEF Migrate, Entering
<1>4. CASE OwnerCreate(u) BY <1>4 DEF OwnerCreate, Entering
<1>5. CASE Compensate(u) BY <1>5 DEF Compensate, Entering
<1>6. QED BY <1>1, <1>2, <1>3, <1>4, <1>5

LEMMA NextRev == RevInv /\ [Next]_vars => RevInv'
<1>. SUFFICES ASSUME RevInv, [Next]_vars PROVE RevInv' OBVIOUS
<1>. USE DEF RevInv
<1>0. /\ rev' = rev => Numbered' /\ OneActive'
      /\ tick' = tick => TickType'
      /\ manual' = manual => ManualType'
  BY DEF Numbered, OneActive, With, Of, Joined, ActiveOf, TickType, ManualType
<1>1. ASSUME NEW u \in Users, Provision(u) \/ Put(u) \/ Migrate(u) \/ OwnerCreate(u) \/ Compensate(u)
      PROVE  RevInv'
  <2>1. PICK new : Entering(u, new) /\ InsertRevision(new) BY <1>1, Creations
  <2>2. TypeOK' /\ Numbered' /\ OneActive' BY <2>1, InsertRev
  <2>3. QED BY <1>0, <2>1, <2>2 DEF InsertRevision
<1>2. ASSUME NEW u \in Users, Abandon(u) PROVE RevInv'
  <2>1. TypeOK' /\ Numbered' /\ OneActive' BY <1>2, AbandonRev
  <2>2. QED BY <1>0, <1>2, <2>1 DEF Abandon
<1>3. ASSUME NEW u \in Users, EventsArrive(u) PROVE RevInv'
  <2>1. source' \in Sources /\ natural' \subseteq Users
    BY <1>3, StrategyAssumption DEF EventsArrive, TypeOK, Sources
  <2>2. QED BY <1>0, <1>3, <2>1 DEF EventsArrive, TypeOK, surfaces
<1>4. CASE SourceMoves
  <2>1. source' \in Sources BY <1>4, StrategyAssumption DEF SourceMoves, TypeOK, Sources
  <2>2. QED BY <1>0, <1>4, <2>1 DEF SourceMoves, TypeOK, surfaces
<1>5. CASE Advance
  <2>1. clock' \in Times BY <1>5, StrategyAssumption DEF Advance, TypeOK, Times
  <2>2. QED BY <1>0, <1>5, <2>1 DEF Advance, TypeOK, selections, surfaces
<1>6. ASSUME NEW r \in Ids, ManualPlan(r) PROVE RevInv'
  <2>1. PlanOf(r, clock) \in PlanType BY <1>6, PlanIsTyped DEF ManualPlan, TypeOK
  <2>2. ManualType' BY <1>6, <2>1 DEF ManualPlan, ManualType
  <2>3. QED BY <1>0, <1>6, <2>2 DEF ManualPlan, TypeOK, selections, surfaces
<1>7. CASE ManualCommit
  <2>1. manual.plan \in PlanType BY <1>7 DEF ManualCommit, ManualType
  <2>2. TypeOK' /\ Numbered' /\ OneActive' BY <1>7, <2>1, ApplyRev DEF ManualCommit
  <2>3. ManualType' BY <1>7 DEF ManualCommit, ManualType
  <2>4. QED BY <1>0, <1>7, <2>2, <2>3 DEF ManualCommit
<1>8. CASE ManualEnds
  BY <1>0, <1>8 DEF ManualEnds, ManualType, TypeOK, selections, surfaces
<1>9. CASE AutoRun BY <1>9, AutoRev
<1>10. CASE UNCHANGED vars
  BY <1>0, <1>10 DEF vars, TypeOK
<1>11. QED
  BY <1>1, <1>2, <1>3, <1>4, <1>5, <1>6, <1>7, <1>8, <1>9, <1>10 DEF Next, Selection, Manual

(* Every variable keeps its type: an identifier is left for the number of a  *)
(* new revision, and the state file and the rows name sources there are.     *)
THEOREM StrategyTypesAlways == Spec => []TypeOK
<1>1. Spec => []RevInv BY InitRev, NextRev, PTL DEF Spec
<1>2. RevInv => TypeOK BY DEF RevInv
<1>3. QED BY <1>1, <1>2, PTL

(* A user has one active revision and at most one pending one, which follows *)
(* it, whatever the web, the operator, the evaluator and a run by hand do to *)
(* the selections in between.                                                *)
THEOREM OneActiveAlways == Spec => []OneActive
<1>1. Spec => []RevInv BY InitRev, NextRev, PTL DEF Spec
<1>2. RevInv => OneActive BY DEF RevInv
<1>3. QED BY <1>1, <1>2, PTL

-----------------------------------------------------------------------------
(* What a client shows.  A user that has not joined and a revision that is   *)
(* not in use have no rows, so a first selection starts with an empty view.  *)
FeedInv ==
  /\ FeedShowsRows
  /\ \A u \in Users : ~Joined(u) => view[u] = NoRows
  /\ \A r \in Ids : rev[r] = Absent => shown[r] = NoRows

(* A step that leaves the rows, the views and who is active leaves the feed. *)
LEMMA FeedFrame ==
  ASSUME FeedInv, UNCHANGED <<shown, view>>,
         \A u \in Users : ActiveOf(u)' = ActiveOf(u) /\ Joined(u)' = Joined(u),
         \A r \in Ids : rev'[r] = Absent => rev[r] = Absent
  PROVE  FeedInv'
BY DEF FeedInv, FeedShowsRows

LEMMA FeedInsert ==
  ASSUME RevInv, FeedInv, NEW u \in Users, NEW new, Entering(u, new), InsertRevision(new)
  PROVE  FeedInv'
<1>1. shown' = shown /\ view' = view BY DEF InsertRevision, surfaces
<1>2. \A r \in Ids : rev'[r] = Absent => rev[r] = Absent BY InsertRev
<1>3. ASSUME NEW v \in Users, Joined(v)' PROVE view[v] = shown[ActiveOf(v)']
  <2>1. CASE v = u /\ ~Joined(u)
    <3>1. ActiveOf(u)' \in Ids /\ rev[ActiveOf(u)'] = Absent BY <2>1, InsertRev
    <3>2. QED BY <2>1, <3>1 DEF FeedInv
  <2>2. CASE v # u \/ Joined(u)
    <3>1. ActiveOf(v)' = ActiveOf(v) /\ Joined(v) BY <1>3, <2>2, InsertRev
    <3>2. QED BY <3>1 DEF FeedInv, FeedShowsRows
  <2>3. QED BY <2>1, <2>2
<1>4. \A v \in Users : ~Joined(v)' => ~Joined(v) BY InsertRev
<1>5. FeedShowsRows' BY <1>1, <1>3 DEF FeedShowsRows
<1>6. QED BY <1>1, <1>2, <1>4, <1>5 DEF FeedInv

(* A commit: an activation's client loads everything, an evaluation's client *)
(* had the old rows and is told every one that changed.                      *)
LEMMA FeedApply ==
  ASSUME RevInv, FeedInv, NEW plan \in PlanType, Apply(plan)
  PROVE  FeedInv'
<1>. USE DEF RevInv
<1>1. PICK r \in Ids : r = plan.rev BY DEF PlanType
<1>2. PICK u \in Users : u = rev[r].user
  BY <1>1, Shape DEF Apply, Ranked, RevisionType
<1>3. rev[r] \in RevisionType /\ rev[r] # Absent /\ Ranked(r)
  BY <1>1, Shape DEF Apply, Ranked
<1>4. PICK new : new = RowsOf(plan) OBVIOUS
<1>5. new \in [Tables -> {0} \cup Sources]
  BY <1>4, RowsTyped DEF RowsType
<1>6. shown' = [shown EXCEPT ![r] = new] BY <1>1, <1>4 DEF Apply
<1>7. /\ shown \in [Ids -> RowsType] /\ view \in [Users -> RowsType] BY DEF TypeOK
<1>8. shown'[r] = new /\ \A q \in Ids : q # r => shown'[q] = shown[q] BY <1>6, <1>7
<1>9. Joined(u) BY <1>2, <1>3 DEF Joined, Of
<1>10. CASE rev[r].status = "pending"
  <2>1. rev' = Activated(r) /\ view' = [view EXCEPT ![u] = new]
    BY <1>1, <1>2, <1>4, <1>10 DEF Apply
  <2>2. /\ ActiveOf(u)' = r
        /\ \A v \in Users : v # u => ActiveOf(v)' = ActiveOf(v)
        /\ \A v \in Users : Joined(v)' = Joined(v)
    BY <1>2, <1>3, <1>10, <2>1, ActivateRev
  <2>3. view'[u] = new /\ \A v \in Users : v # u => view'[v] = view[v] BY <1>7, <2>1
  <2>4. \A v \in Users : v # u /\ Joined(v) => ActiveOf(v) \in Ids /\ ActiveOf(v) # r
    BY <1>2, ActiveOne
  <2>5. FeedShowsRows' BY <1>8, <2>2, <2>3, <2>4 DEF FeedInv, FeedShowsRows
  <2>6. \A v \in Users : ~Joined(v)' => view'[v] = NoRows BY <1>9, <2>2, <2>3 DEF FeedInv
  <2>7. \A q \in Ids : rev'[q] = Absent => rev[q] = Absent /\ q # r
    <3>1. rev' \in [Ids -> {Absent} \cup RevisionType] BY <1>2, <1>3, <1>10, <2>1, ActivateRev
    <3>2. PICK a \in Ids : a = ActiveOf(u) /\ rev[a] \in RevisionType BY <1>9, ActiveOne
    <3>3. rev \in [Ids -> {Absent} \cup RevisionType] BY DEF TypeOK
    <3>4. \A q \in Ids : q # a /\ q # r => rev'[q] = rev[q] BY <1>2, <2>1, <3>2, <3>3 DEF Activated
    <3>5. rev'[r].status = "active"
      BY <1>2, <1>3, <2>1, <3>2, <3>3 DEF Activated, RevisionType
    <3>6. rev[a] # Absent BY <3>2 DEF Absent, RevisionType
    <3>7. r # a => rev'[a].status = "superseded"
      BY <1>2, <2>1, <3>2, <3>3 DEF Activated, RevisionType
    <3>8. QED BY <1>3, <3>4, <3>5, <3>6, <3>7 DEF Absent
  <2>8. QED BY <1>8, <2>5, <2>6, <2>7 DEF FeedInv
<1>11. CASE rev[r].status # "pending"
  <2>1. /\ rev' = [rev EXCEPT ![r].replay = "passed"]
        /\ view' = [view EXCEPT ![u] = Changes(view[u], shown[r], new)]
    BY <1>1, <1>2, <1>4, <1>11 DEF Apply
  <2>2. rev[r].status = "active" BY <1>3, <1>11 DEF Ranked
  <2>3. r = ActiveOf(u) BY <1>2, <1>9, <2>2, ActiveOne
  <2>4. view[u] = shown[r] BY <1>9, <2>3 DEF FeedInv, FeedShowsRows
  <2>5. Changes(view[u], shown[r], new) = new BY <1>5, <2>4 DEF Changes
  <2>6. view'[u] = new /\ \A v \in Users : v # u => view'[v] = view[v] BY <1>7, <2>1, <2>5
  <2>7. rev' \in [Ids -> {Absent} \cup RevisionType] /\ \A q \in Ids : q # r => rev'[q] = rev[q]
    <3>1. rev \in [Ids -> {Absent} \cup RevisionType] BY DEF TypeOK
    <3>2. QED BY <1>3, <2>1, <3>1 DEF RevisionType
  <2>8. rev'[r] \in RevisionType /\ rev'[r].user = rev[r].user /\ rev'[r].status = rev[r].status
        /\ rev'[r].no = rev[r].no /\ rev'[r].prev = rev[r].prev
    <3>1. rev \in [Ids -> {Absent} \cup RevisionType] BY DEF TypeOK
    <3>2. QED BY <1>3, <2>1, <3>1 DEF RevisionType
  <2>9. rev'[r] # Absent BY <2>8 DEF Absent, RevisionType
  <2>10. \A v \in Users : ActiveOf(v)' = ActiveOf(v) /\ Joined(v)' = Joined(v)
    BY <1>3, <2>7, <2>8, <2>9, MarkRev
  <2>11. \A v \in Users : v # u /\ Joined(v) => ActiveOf(v) \in Ids /\ ActiveOf(v) # r
    BY <1>2, ActiveOne
  <2>12. FeedShowsRows' BY <1>8, <2>3, <2>6, <2>10, <2>11 DEF FeedInv, FeedShowsRows
  <2>13. \A v \in Users : ~Joined(v)' => view'[v] = NoRows BY <1>9, <2>6, <2>10 DEF FeedInv
  <2>14. QED BY <1>8, <2>7, <2>9, <2>12, <2>13 DEF FeedInv
<1>12. QED BY <1>10, <1>11

LEMMA FeedNext == RevInv /\ FeedInv /\ [Next]_vars => FeedInv'
<1>. SUFFICES ASSUME RevInv, FeedInv, [Next]_vars PROVE FeedInv' OBVIOUS
<1>1. ASSUME UNCHANGED <<rev, shown, view>> PROVE FeedInv'
  <2>1. \A u \in Users : ActiveOf(u)' = ActiveOf(u) /\ Joined(u)' = Joined(u)
    BY <1>1 DEF ActiveOf, Joined, With, Of
  <2>2. QED BY <1>1, <2>1, FeedFrame
<1>2. ASSUME NEW u \in Users, Provision(u) \/ Put(u) \/ Migrate(u) \/ OwnerCreate(u) \/ Compensate(u)
      PROVE  FeedInv'
  BY <1>2, Creations, FeedInsert
<1>3. ASSUME NEW u \in Users, Abandon(u) PROVE FeedInv'
  BY <1>3, AbandonRev, FeedFrame DEF Abandon, surfaces
<1>4. ASSUME NEW u \in Users, EventsArrive(u) PROVE FeedInv'
  BY <1>1, <1>4 DEF EventsArrive, surfaces
<1>5. CASE SourceMoves BY <1>1, <1>5 DEF SourceMoves, surfaces
<1>6. CASE Advance BY <1>1, <1>6 DEF Advance, selections, surfaces
<1>7. CASE \E r \in Ids : ManualPlan(r) BY <1>1, <1>7 DEF ManualPlan, selections, surfaces
<1>8. CASE ManualCommit
  <2>1. manual.plan \in PlanType /\ Apply(manual.plan)
    BY <1>8 DEF ManualCommit, RevInv, ManualType
  <2>2. QED BY <2>1, FeedApply
<1>9. CASE ManualEnds BY <1>1, <1>9 DEF ManualEnds, selections, surfaces
<1>10. CASE Begin BY <1>1, <1>10 DEF Begin, selections, surfaces
<1>11. CASE LoadFails BY <1>1, <1>11 DEF LoadFails, selections, surfaces
<1>12. CASE Recovers BY <1>1, <1>12 DEF Recovers, selections, surfaces
<1>13. CASE MakePlan BY <1>1, <1>13 DEF MakePlan, selections, surfaces
<1>14. CASE CommitPlan
  <2>1. tick.plan \in PlanType /\ Apply(tick.plan)
    BY <1>14 DEF CommitPlan, RevInv, TickType, Idle
  <2>2. QED BY <2>1, FeedApply
<1>15. CASE SaveState BY <1>1, <1>15 DEF SaveState, selections, surfaces
<1>16. CASE Fails
  <2>1. CASE UNCHANGED rev BY <1>1, <1>16, <2>1 DEF Fails, surfaces
  <2>2. CASE rev' # rev
    <3>1. PICK r \in Ids : r = Chosen BY <1>16 DEF Fails, RevInv, TickType, Idle, Chosen
    <3>2. rev[r].status = "pending" /\ rev' = [rev EXCEPT ![r].replay = "failed"]
      BY <1>16, <2>2, <3>1 DEF Fails
    <3>3. rev[r].status # Absent.status BY <3>2 DEF Absent
    <3>4. \A q \in Ids : rev'[q] = Absent => rev[q] = Absent
      BY <3>1, <3>2, FailRev DEF Absent
    <3>5. QED BY <1>16, <3>1, <3>2, <3>4, FailRev, FeedFrame DEF Fails, surfaces
  <2>3. QED BY <2>1, <2>2
<1>17. CASE EndsQuietly BY <1>1, <1>17 DEF EndsQuietly, selections, surfaces
<1>18. CASE UNCHANGED vars BY <1>1, <1>18 DEF vars
<1>19. QED
  BY <1>2, <1>3, <1>4, <1>5, <1>6, <1>7, <1>8, <1>9, <1>10, <1>11, <1>12, <1>13, <1>14, <1>15,
     <1>16, <1>17, <1>18 DEF Next, Selection, Manual, AutoRun, Running

(* A client that only applies the changes it is sent shows the rows of its   *)
(* user's active revision, however evaluations, activations, failures and    *)
(* new selections interleave.                                                *)
THEOREM FeedAlways == Spec => []FeedShowsRows
<1>1. Init => FeedInv
  BY DEF Init, FeedInv, FeedShowsRows, Joined, Of
<1>2. Spec => []RevInv BY InitRev, NextRev, PTL DEF Spec
<1>3. FeedInv => FeedShowsRows BY DEF FeedInv
<1>4. QED BY <1>1, <1>2, <1>3, FeedNext, PTL DEF Spec

-----------------------------------------------------------------------------
(* What the evaluator knows.  A source only moves on and an evaluation is    *)
(* committed at the present one; whoever was taken off a queue, in the file  *)
(* or in the run under way, was evaluated at the source of the queue; and    *)
(* what became active since the run began was evaluated when it did.         *)
InUse(r) == rev[r] # Absent /\ rev[r].status = "active" /\ rev[r].replay = "passed"

Bounds ==
  /\ file.cursor <= source
  /\ tick # Idle => tick.source <= source
  /\ \A r \in Ids : evaluated[r] <= source

FileDone ==
  \A r \in file.scopes.authority \ file.scopes.remaining : evaluated[r] >= file.scopes.at

TickDone ==
  tick # Idle =>
    /\ tick.kind \in {"source_changed", "time_tick"} =>
         \A r \in tick.authority \ tick.queue : evaluated[r] >= tick.source
    /\ tick.kind = "time_tick" => file.cursor = tick.source
    /\ tick.kind = "source_changed" =>
         \A r \in Ids : InUse(r) => r \in tick.authority \/ evaluated[r] >= tick.source
    /\ tick.phase = "committed" => evaluated[tick.rev] >= tick.source

CoverInv == CursorCovers /\ Bounds /\ FileDone /\ TickDone

LEMMA Numbers ==
  ASSUME TypeOK
  PROVE  /\ source \in Nat /\ file.cursor \in Nat /\ file.scopes.at \in Nat
         /\ \A r \in Ids : evaluated[r] \in Nat
         /\ file.scopes.authority \subseteq Ids /\ file.scopes.remaining \subseteq Ids
<1>1. {0} \cup Sources \subseteq Nat BY StrategyAssumption DEF Sources
<1>2. file.cursor \in {0} \cup Sources /\ file.scopes \in QueueType BY DEF TypeOK, FileType
<1>3. QED BY <1>1, <1>2 DEF TypeOK, QueueType

LEMMA TickNumbers ==
  ASSUME TickType, tick # Idle
  PROVE  /\ tick.source \in Nat /\ tick.rev \in Ids /\ tick.kind \in Kinds
         /\ tick.authority \subseteq Ids /\ tick.queue \subseteq Ids
<1>1. Sources \subseteq Nat BY StrategyAssumption DEF Sources
<1>2. tick.source \in Sources /\ tick.rev \in Ids /\ tick.kind \in Kinds
      /\ tick.authority \in SUBSET Ids /\ tick.queue \in SUBSET Ids
  BY DEF TickType
<1>3. QED BY <1>1, <1>2

(* A step that saves nothing, ends the run or takes it on, and after which   *)
(* what is newly in use was evaluated at the present source.                 *)
LEMMA CoverFrame ==
  ASSUME RevInv, RevInv', CoverInv,
         file'.cursor = file.cursor, file'.scopes = file.scopes, source' >= source,
         \A r \in Ids : evaluated'[r] >= evaluated[r] /\ evaluated'[r] <= source',
         \A r \in Ids : InUse(r)' => InUse(r) \/ evaluated'[r] >= source,
         \/ tick' = Idle
         \/ /\ tick # Idle /\ tick'.kind = tick.kind /\ tick'.queue = tick.queue
            /\ tick'.authority = tick.authority /\ tick'.source = tick.source
            /\ tick'.phase = "committed" =>
                 evaluated'[tick'.rev] >= tick.source
  PROVE  CoverInv'
<1>. USE DEF RevInv, CoverInv
<1>1. /\ source \in Nat /\ source' \in Nat /\ file.cursor \in Nat /\ file.scopes.at \in Nat
      /\ \A r \in Ids : evaluated[r] \in Nat /\ evaluated'[r] \in Nat
      /\ file.scopes.authority \subseteq Ids
  <2>1. TypeOK /\ TypeOK' OBVIOUS
  <2>2. source' \in Nat /\ \A r \in Ids : evaluated'[r] \in Nat
    <3>1. {0} \cup Sources \subseteq Nat BY StrategyAssumption DEF Sources
    <3>2. QED BY <2>1, <3>1 DEF TypeOK
  <2>3. QED BY <2>1, <2>2, Numbers
<1>2. tick # Idle => tick.source \in Nat /\ tick.authority \subseteq Ids BY TickNumbers
<1>3. CursorCovers'
  <2>1. SUFFICES ASSUME NEW r \in Ids, InUse(r)' PROVE evaluated'[r] >= file.cursor
    BY DEF CursorCovers, InUse
  <2>2. CASE InUse(r)
    <3>1. evaluated[r] >= file.cursor BY <2>2 DEF CursorCovers, InUse
    <3>2. QED BY <1>1, <3>1
  <2>3. CASE evaluated'[r] >= source BY <1>1, <2>3 DEF Bounds
  <2>4. QED BY <2>1, <2>2, <2>3
<1>4. Bounds' BY <1>1, <1>2 DEF Bounds
<1>5. FileDone' BY <1>1 DEF FileDone
<1>6. TickDone'
  <2>1. CASE tick' = Idle BY <2>1 DEF TickDone
  <2>2. CASE /\ tick # Idle /\ tick'.kind = tick.kind /\ tick'.queue = tick.queue
             /\ tick'.authority = tick.authority /\ tick'.source = tick.source
             /\ tick'.phase = "committed" => evaluated'[tick'.rev] >= tick.source
    <3>1. \A r \in Ids : evaluated[r] >= tick.source => evaluated'[r] >= tick.source
      BY <1>1, <1>2, <2>2
    <3>2. \A r \in Ids : evaluated'[r] >= source => evaluated'[r] >= tick.source
      BY <1>1, <1>2, <2>2 DEF Bounds
    <3>3. tick.kind \in {"source_changed", "time_tick"} =>
            \A r \in tick.authority \ tick.queue : evaluated'[r] >= tick.source
      BY <1>2, <2>2, <3>1 DEF TickDone
    <3>4. tick.kind = "source_changed" =>
            \A r \in Ids : InUse(r)' => r \in tick.authority \/ evaluated'[r] >= tick.source
      BY <2>2, <3>1, <3>2 DEF TickDone
    <3>5. QED BY <2>2, <3>3, <3>4 DEF TickDone
  <2>3. QED BY <2>1, <2>2
<1>7. QED BY <1>3, <1>4, <1>5, <1>6

LEMMA CoverApply ==
  ASSUME RevInv, Bounds, NEW plan \in PlanType, Apply(plan)
  PROVE  /\ source' = source
         /\ \A r \in Ids : evaluated'[r] >= evaluated[r] /\ evaluated'[r] <= source'
         /\ \A r \in Ids : InUse(r)' => InUse(r) \/ evaluated'[r] >= source
         /\ evaluated'[plan.rev] >= source
<1>. USE DEF RevInv
<1>1. PICK p \in Ids : p = plan.rev BY DEF PlanType
<1>2. source \in Nat /\ \A r \in Ids : evaluated[r] \in Nat BY Numbers
<1>3. source' = source /\ evaluated' = [evaluated EXCEPT ![p] = source]
  BY <1>1 DEF Apply, Stands
<1>4. evaluated'[p] = source /\ \A r \in Ids : r # p => evaluated'[r] = evaluated[r]
  BY <1>3 DEF TypeOK
<1>5. \A r \in Ids : evaluated'[r] >= evaluated[r] /\ evaluated'[r] <= source
  BY <1>2, <1>4 DEF Bounds
<1>6. ASSUME NEW r \in Ids, InUse(r)', r # p PROVE InUse(r)
  <2>1. CASE rev[p].status = "pending"
    <3>1. rev' = Activated(p) /\ Ranked(p) BY <1>1, <2>1 DEF Apply
    <3>2. rev'[r].status = "active" => rev'[r] = rev[r]
      BY <1>6, <2>1, <3>1, ActivateRev
    <3>3. QED BY <1>6, <3>2 DEF InUse
  <2>2. CASE rev[p].status # "pending"
    <3>1. rev' = [rev EXCEPT ![p].replay = "passed"] BY <1>1, <2>2 DEF Apply
    <3>2. rev'[r] = rev[r] BY <1>6, <3>1 DEF TypeOK
    <3>3. QED BY <1>6, <3>2 DEF InUse
  <2>3. QED BY <2>1, <2>2
<1>7. QED BY <1>1, <1>2, <1>3, <1>4, <1>5, <1>6

(* A run that begins: with no pending revision every active one is among the *)
(* evaluator's, and a queue that is worked off goes on from the file.        *)
LEMMA CoverBegin == ASSUME RevInv, CoverInv, Begin PROVE CoverInv'
<1>. USE DEF RevInv, CoverInv
<1>1. PICK r \in Least(Choice.queue) :
        tick' = [phase |-> "chosen", kind |-> Choice.kind, queue |-> Choice.queue, rev |-> r,
                 authority |-> Active, source |-> source, time |-> clock]
  BY DEF Begin
<1>2. PICK k, queue : k = Choice.kind /\ queue = Choice.queue OBVIOUS
<1>3. /\ tick'.kind = k /\ tick'.queue = queue /\ tick'.authority = Active
      /\ tick'.source = source /\ tick'.phase = "chosen"
  BY <1>1, <1>2
<1>4. queue # {} BY <1>1, <1>2 DEF Least
<1>5. /\ k = "source_changed" => Pending = {} /\ queue = Unfinished
      /\ k = "time_tick" => file.cursor = source /\ queue = RoundRobin
  BY <1>2, <1>4 DEF Choice
<1>6. source \in Nat BY Numbers
<1>7. QueueStands => \A q \in Active \ file.scopes.remaining : evaluated[q] >= source
  BY DEF QueueStands, FileDone
<1>8. \A q \in Active \ Unfinished : evaluated[q] >= source BY <1>7 DEF Unfinished
<1>9. \A q \in Active \ RoundRobin : evaluated[q] >= source BY <1>7 DEF RoundRobin
<1>10. Pending = {} => \A q \in Ids : InUse(q) => q \in Active
  <2>1. SUFFICES ASSUME Pending = {}, NEW q \in Ids, InUse(q) PROVE q \in Active OBVIOUS
  <2>2. rev[q] \in RevisionType BY <2>1, Shape DEF InUse
  <2>3. With(rev[q].user, "pending") = {}
    <3>1. \A p \in With(rev[q].user, "pending") : p \in Pending
      BY DEF With, Of, Pending, Ranked
    <3>2. QED BY <2>1, <3>1
  <2>4. QED BY <2>1, <2>3 DEF Active, Ranked, InUse
<1>11. /\ UNCHANGED <<rev, source, evaluated, file>>
  BY DEF Begin, selections, surfaces
<1>12. CursorCovers' BY <1>11 DEF CursorCovers
<1>13. Bounds' BY <1>3, <1>6, <1>11 DEF Bounds
<1>14. FileDone' BY <1>11 DEF FileDone
<1>15. TickDone'
  <2>1. \A q : InUse(q)' <=> InUse(q) BY <1>11 DEF InUse
  <2>2. k \in {"source_changed", "time_tick"} =>
          \A q \in Active \ queue : evaluated[q] >= source
    BY <1>5, <1>8, <1>9
  <2>3. k = "source_changed" => \A q \in Ids : InUse(q) => q \in Active BY <1>5, <1>10
  <2>4. Active' = Active BY <1>11 DEF Active, Ranked, With, Of
  <2>5. QED BY <1>3, <1>5, <1>11, <2>1, <2>2, <2>3 DEF TickDone
<1>16. QED BY <1>12, <1>13, <1>14, <1>15

(* A run that is saved: the cursor moves on only when nothing is left of the *)
(* queue, and then all of its authority has been evaluated.                  *)
LEMMA CoverSave == ASSUME RevInv, CoverInv, SaveState PROVE CoverInv'
<1>. USE DEF RevInv, CoverInv
<1>1. tick # Idle /\ tick.phase = "committed" BY DEF SaveState, Idle
<1>2. /\ tick.source \in Nat /\ tick.rev \in Ids /\ tick.kind \in Kinds
      /\ tick.authority \subseteq Ids /\ tick.queue \subseteq Ids
  BY <1>1, TickNumbers
<1>3. source \in Nat /\ file.cursor \in Nat /\ \A r \in Ids : evaluated[r] \in Nat BY Numbers
<1>4. /\ UNCHANGED <<rev, source, evaluated>> /\ tick' = Idle
      /\ file'.cursor = CursorAfter /\ file'.scopes = ScopesAfter
  BY DEF SaveState, selections, surfaces
<1>5. evaluated[tick.rev] >= tick.source BY <1>1 DEF TickDone
<1>6. tick.kind \in {"source_changed", "time_tick"} =>
        \A r \in tick.authority \ Remaining : evaluated[r] >= tick.source
  BY <1>1, <1>5 DEF TickDone, Remaining, Chosen
<1>7. CursorCovers'
  <2>1. SUFFICES ASSUME NEW r \in Ids, InUse(r) PROVE evaluated[r] >= CursorAfter
    BY <1>4 DEF CursorCovers, InUse
  <2>2. evaluated[r] >= file.cursor BY <2>1 DEF CursorCovers, InUse
  <2>3. CASE tick.kind = "time_tick" BY <1>1, <2>2, <2>3 DEF CursorAfter, TickDone
  <2>4. CASE tick.kind = "source_changed" /\ Remaining = {}
    <3>1. r \in tick.authority => evaluated[r] >= tick.source BY <1>6, <2>4
    <3>2. r \in tick.authority \/ evaluated[r] >= tick.source BY <1>1, <2>1, <2>4 DEF TickDone
    <3>3. QED BY <2>4, <3>1, <3>2 DEF CursorAfter
  <2>5. QED BY <2>2, <2>3, <2>4 DEF CursorAfter
<1>8. CursorAfter <= source BY <1>1, <1>2, <1>3 DEF CursorAfter, Bounds
<1>9. Bounds' BY <1>4, <1>8 DEF Bounds
<1>10. FileDone'
  <2>1. \A r \in ScopesAfter.authority \ ScopesAfter.remaining : evaluated[r] >= ScopesAfter.at
    <3>1. CASE tick.kind \in {"pending_selection", "active_replay_pending"}
      BY <3>1 DEF ScopesAfter, FileDone
    <3>2. CASE tick.kind = "source_changed" /\ Remaining = {}
      BY <3>2 DEF ScopesAfter, NoQueue
    <3>3. CASE tick.kind = "time_tick" \/ (tick.kind = "source_changed" /\ Remaining # {})
      <4>1. ScopesAfter = [at |-> tick.source, authority |-> tick.authority,
                           remaining |-> Remaining]
        BY <3>3 DEF ScopesAfter
      <4>2. QED BY <1>6, <3>3, <4>1
    <3>4. QED BY <1>2, <3>1, <3>2, <3>3 DEF Kinds
  <2>2. QED BY <1>4, <2>1 DEF FileDone
<1>11. TickDone' BY <1>4 DEF TickDone
<1>12. QED BY <1>7, <1>9, <1>10, <1>11

LEMMA CoverNext == RevInv /\ RevInv' /\ CoverInv /\ [Next]_vars => CoverInv'
<1>. SUFFICES ASSUME RevInv, RevInv', CoverInv, [Next]_vars PROVE CoverInv' OBVIOUS
<1>1. source \in Nat /\ \A r \in Ids : evaluated[r] \in Nat BY Numbers DEF RevInv
<1>2. \A r \in Ids : evaluated[r] >= evaluated[r] /\ evaluated[r] <= source
  BY <1>1 DEF CoverInv, Bounds
<1>3. ASSUME tick # Idle, tick' = tick, tick.phase = "committed"
      PROVE  evaluated[tick'.rev] >= tick.source
  BY <1>3 DEF CoverInv, TickDone
<1>4. ASSUME UNCHANGED <<source, evaluated>>, file'.cursor = file.cursor, file'.scopes = file.scopes,
             \A r \in Ids : InUse(r)' => InUse(r),
             tick' = tick \/ tick' = Idle
      PROVE  CoverInv'
  BY <1>1, <1>2, <1>3, <1>4, CoverFrame DEF CoverInv
<1>5. rev' = rev => \A r \in Ids : InUse(r)' => InUse(r) BY DEF InUse
<1>6. ASSUME NEW u \in Users, Provision(u) \/ Put(u) \/ Migrate(u) \/ OwnerCreate(u) \/ Compensate(u)
      PROVE  CoverInv'
  <2>1. PICK new : Entering(u, new) /\ InsertRevision(new) BY <1>6, Creations
  <2>2. \A r \in Ids : InUse(r)' => InUse(r) BY <2>1, InsertRev DEF InUse
  <2>3. QED BY <1>4, <2>1, <2>2 DEF InsertRevision, surfaces
<1>7. ASSUME NEW u \in Users, Abandon(u) PROVE CoverInv'
  <2>1. \A r \in Ids : InUse(r)' => InUse(r) BY <1>7, AbandonRev DEF InUse
  <2>2. QED BY <1>4, <1>7, <2>1 DEF Abandon, surfaces
<1>8. ASSUME source' = source + 1, UNCHANGED <<rev, evaluated, file, tick>> PROVE CoverInv'
  <2>1. source' >= source /\ \A r \in Ids : evaluated[r] <= source' BY <1>1, <1>2, <1>8
  <2>2. QED BY <1>1, <1>2, <1>3, <1>5, <1>8, <2>1, CoverFrame DEF CoverInv
<1>9. ASSUME NEW u \in Users, EventsArrive(u) PROVE CoverInv'
  BY <1>8, <1>9 DEF EventsArrive, surfaces
<1>10. CASE SourceMoves BY <1>8, <1>10 DEF SourceMoves, surfaces
<1>11. CASE Advance BY <1>4, <1>5, <1>11 DEF Advance, selections, surfaces
<1>12. CASE \E r \in Ids : ManualPlan(r) BY <1>4, <1>5, <1>12 DEF ManualPlan, selections, surfaces
<1>13. CASE ManualEnds BY <1>4, <1>5, <1>13 DEF ManualEnds, selections, surfaces
<1>14. CASE ManualCommit
  <2>1. manual.plan \in PlanType /\ Apply(manual.plan) /\ UNCHANGED <<file, tick>>
    BY <1>14 DEF ManualCommit, RevInv, ManualType
  <2>2. /\ source' = source
        /\ \A r \in Ids : evaluated'[r] >= evaluated[r] /\ evaluated'[r] <= source'
        /\ \A r \in Ids : InUse(r)' => InUse(r) \/ evaluated'[r] >= source
    BY <2>1, CoverApply DEF CoverInv
  <2>3. tick # Idle /\ tick.phase = "committed" => evaluated'[tick.rev] >= tick.source
    <3>1. SUFFICES ASSUME tick # Idle, tick.phase = "committed"
                   PROVE  evaluated'[tick.rev] >= tick.source
      OBVIOUS
    <3>2. evaluated[tick.rev] >= tick.source BY <3>1 DEF CoverInv, TickDone
    <3>3. tick.rev \in Ids /\ tick.source \in Nat BY <3>1, TickNumbers DEF RevInv
    <3>4. evaluated'[tick.rev] \in Nat BY <3>3, StrategyAssumption DEF RevInv, TypeOK, Sources
    <3>5. QED BY <1>1, <2>2, <3>2, <3>3, <3>4
  <2>4. QED BY <1>1, <2>1, <2>2, <2>3, CoverFrame DEF CoverInv
<1>15. CASE CommitPlan
  <2>1. /\ tick # Idle /\ tick.phase = "planned"
        /\ tick.plan \in PlanType /\ Apply(tick.plan) /\ tick.plan.rev = tick.rev
    BY <1>15 DEF CommitPlan, RevInv, TickType, Idle
  <2>2. /\ source' = source
        /\ \A r \in Ids : evaluated'[r] >= evaluated[r] /\ evaluated'[r] <= source'
        /\ \A r \in Ids : InUse(r)' => InUse(r) \/ evaluated'[r] >= source
        /\ evaluated'[tick.rev] >= source
    BY <2>1, CoverApply DEF CoverInv
  <2>3. tick.source <= source /\ tick.source \in Nat /\ tick.rev \in Ids
    BY <2>1, TickNumbers DEF CoverInv, Bounds, RevInv
  <2>4. evaluated'[tick.rev] \in Nat BY <2>3, StrategyAssumption DEF RevInv, TypeOK, Sources
  <2>5. evaluated'[tick.rev] >= tick.source BY <1>1, <2>2, <2>3, <2>4
  <2>6. /\ tick'.kind = tick.kind /\ tick'.queue = tick.queue /\ tick'.rev = tick.rev
        /\ tick'.authority = tick.authority /\ tick'.source = tick.source /\ file' = file
    BY <1>15 DEF CommitPlan, Chosen
  <2>7. QED BY <1>1, <2>1, <2>2, <2>5, <2>6, CoverFrame DEF CoverInv
<1>16. CASE MakePlan
  <2>1. /\ tick # Idle
        /\ tick'.kind = tick.kind /\ tick'.queue = tick.queue /\ tick'.phase = "planned"
        /\ tick'.authority = tick.authority /\ tick'.source = tick.source
        /\ UNCHANGED <<rev, source, evaluated, file>>
    BY <1>16 DEF MakePlan, Idle, selections, surfaces
  <2>2. QED BY <1>1, <1>2, <1>5, <2>1, CoverFrame DEF CoverInv
<1>17. CASE Begin BY <1>17, CoverBegin
<1>18. CASE SaveState BY <1>18, CoverSave
<1>19. CASE LoadFails BY <1>4, <1>5, <1>19 DEF LoadFails, FailedFile, selections, surfaces
<1>20. CASE Recovers
  <2>1. file'.cursor = file.cursor /\ file'.scopes = file.scopes
    BY <1>20 DEF Recovers, RevInv, TypeOK, FileType
  <2>2. QED BY <1>4, <1>5, <1>20, <2>1 DEF Recovers, selections, surfaces
<1>21. CASE Fails
  <2>1. file'.cursor = file.cursor /\ file'.scopes = file.scopes BY <1>21 DEF Fails, FailedFile
  <2>2. \A r \in Ids : InUse(r)' => InUse(r)
    <3>1. CASE rev' = rev BY <1>5, <3>1
    <3>2. CASE rev' # rev
      <4>1. PICK r \in Ids : r = Chosen BY <1>21 DEF Fails, RevInv, TickType, Idle, Chosen
      <4>2. rev[r].status = "pending" /\ rev' = [rev EXCEPT ![r].replay = "failed"]
        BY <1>21, <3>2, <4>1 DEF Fails
      <4>3. QED BY <4>1, <4>2, FailRev DEF InUse
    <3>3. QED BY <3>1, <3>2
  <2>3. QED BY <1>4, <1>21, <2>1, <2>2 DEF Fails, surfaces
<1>22. CASE EndsQuietly BY <1>4, <1>5, <1>22 DEF EndsQuietly, selections, surfaces
<1>23. CASE UNCHANGED vars BY <1>4, <1>5, <1>23 DEF vars
<1>24. QED
  BY <1>6, <1>7, <1>9, <1>10, <1>11, <1>12, <1>13, <1>14, <1>15, <1>16, <1>17, <1>18, <1>19,
     <1>20, <1>21, <1>22, <1>23 DEF Next, Selection, Manual, AutoRun, Running

(* The state file never claims a source that an active revision has not been *)
(* evaluated at, whatever is put, abandoned, activated by hand or fails      *)
(* while the queue of a source is worked off over many runs.                 *)
THEOREM CursorAlways == Spec => []CursorCovers
<1>1. Init => CoverInv
  BY StrategyAssumption DEF Init, CoverInv, CursorCovers, Bounds, FileDone, TickDone, NewFile,
     NoQueue
<1>2. Spec => []RevInv BY InitRev, NextRev, PTL DEF Spec
<1>3. CoverInv => CursorCovers BY DEF CoverInv
<1>4. QED BY <1>1, <1>2, <1>3, CoverNext, PTL DEF Spec
-----------------------------------------------------------------------------
(* The refinement of SelectionLine.  Its selections are known by who has     *)
(* which revisions under which status.                                       *)
LEMMA LineFrame ==
  ASSUME \A u \in Users, s \in {"active", "pending"} : With(u, s)' = With(u, s),
         Past' = Past, view' = view
  PROVE  UNCHANGED Line!lvars
<1>1. Current' = Current BY DEF Current
<1>2. Following' = Following BY DEF Following
<1>3. QED BY <1>1, <1>2 DEF Line!lvars

LEMMA OnlyOne ==
  ASSUME NEW S, NEW x \in S, \A y \in S : y = x
  PROVE  TheOne(S) = x
BY Only DEF TheOne

LEMMA OneOf ==
  ASSUME NEW S
  PROVE  S # {} => TheOne(S) \in S
BY DEF TheOne

(* A revision nobody has used is new to the line.                            *)
LEMMA UnusedIsNew ==
  ASSUME RevInv, NEW i \in Ids, rev[i] = Absent
  PROVE  Line!New(i)
<1>1. rev[i].status = "absent" BY DEF Absent
<1>2. i \notin Past BY <1>1 DEF Past
<1>3. i # 0 BY DEF Ids
<1>4. ASSUME NEW u \in Users, NEW s PROVE i # TheOne(With(u, s))
  <2>1. i \notin With(u, s) BY DEF With, Of
  <2>2. CASE With(u, s) = {} BY <1>3, <2>2 DEF TheOne
  <2>3. CASE With(u, s) # {}
    <3>1. TheOne(With(u, s)) \in With(u, s) BY <2>3, OneOf
    <3>2. QED BY <2>1, <3>1
  <2>4. QED BY <2>2, <2>3
<1>5. QED BY <1>2, <1>4 DEF Line!New, Current, Following

(* An insertion adds one revision, of its user, and touches no other.        *)
LEMMA Inserted ==
  ASSUME RevInv, NEW u \in Users, NEW new, Entering(u, new), InsertRevision(new)
  PROVE  /\ new.user = u /\ new.status = IF Joined(u) THEN "pending" ELSE "active"
         /\ new # Absent
         /\ \E i \in Ids :
              /\ rev[i] = Absent /\ rev'[i] = new
              /\ \A q \in Ids : q # i => rev'[q] = rev[q]
              /\ \A v, s : With(v, s)' = IF v = u /\ s = new.status THEN With(v, s) \cup {i}
                                                                 ELSE With(v, s)
<1>1. PICK i \in Least(Unused) : rev' = [rev EXCEPT ![i] = new] BY DEF InsertRevision
<1>2. i \in Ids /\ rev[i] = Absent BY <1>1 DEF Least, Unused
<1>3. rev \in [Ids -> {Absent} \cup RevisionType] BY DEF RevInv, TypeOK
<1>4. rev'[i] = new /\ \A q \in Ids : q # i => rev'[q] = rev[q] BY <1>1, <1>2, <1>3
<1>5. /\ new.user = u /\ new.status = IF Joined(u) THEN "pending" ELSE "active"
      /\ new # Absent
  BY DEF Entering, Successor, Absent
<1>6. \A v, s : With(v, s)' = IF v = u /\ s = new.status THEN With(v, s) \cup {i} ELSE With(v, s)
  BY <1>2, <1>4, <1>5 DEF With, Of
<1>7. QED BY <1>2, <1>4, <1>5, <1>6

(* A created selection joins its user to the line or is to follow.           *)
LEMMA InsertLine ==
  ASSUME RevInv, NEW u \in Users, NEW new, Entering(u, new), InsertRevision(new)
  PROVE  Line!Next
<1>1. /\ new.user = u /\ new.status = IF Joined(u) THEN "pending" ELSE "active"
      /\ new # Absent
  BY Inserted
<1>2. PICK i \in Ids :
        /\ rev[i] = Absent /\ rev'[i] = new
        /\ \A q \in Ids : q # i => rev'[q] = rev[q]
        /\ \A v, s : With(v, s)' = IF v = u /\ s = new.status THEN With(v, s) \cup {i}
                                                           ELSE With(v, s)
  BY Inserted
<1>. USE DEF RevInv
<1>3. Past' = Past BY <1>2, <1>1 DEF Past, Absent
<1>4. view' = view BY DEF InsertRevision, surfaces
<1>5. Line!New(i) BY <1>2, UnusedIsNew
<1>6. CASE Joined(u)
  <2>1. With(u, "pending") = {} BY <1>1 DEF InsertRevision, Insertable
  <2>2. With(u, "pending")' = {i} BY <1>1, <1>2, <1>6, <2>1
  <2>3. TheOne(With(u, "pending")) = 0 BY <2>1 DEF TheOne
  <2>4. TheOne(With(u, "pending")') = i BY <2>2, OnlyOne
  <2>5. Following[u] = 0 BY <2>3 DEF Following
  <2>6. Current[u] # 0
    <3>1. TheOne(With(u, "active")) \in With(u, "active") BY <1>6, OneOf DEF OneActive
    <3>2. TheOne(With(u, "active")) # 0 BY <3>1 DEF With, Of, Ids
    <3>3. QED BY <3>2 DEF Current
  <2>7. \A v \in Users : With(v, "active")' = With(v, "active") BY <1>1, <1>2, <1>6
  <2>8. \A v \in Users : v # u => With(v, "pending")' = With(v, "pending") BY <1>2
  <2>9. Current' = Current BY <2>7 DEF Current
  <2>10. Following' = [Following EXCEPT ![u] = i] BY <2>4, <2>8 DEF Following
  <2>11. Line!Follow(u, i) BY <1>3, <1>4, <1>5, <2>5, <2>6, <2>9, <2>10 DEF Line!Follow
  <2>12. QED BY <1>2, <2>11 DEF Line!Next
<1>7. CASE ~Joined(u)
  <2>1. With(u, "active") = {} BY <1>7 DEF Joined, With
  <2>2. With(u, "active")' = {i} BY <1>1, <1>2, <1>7, <2>1
  <2>3. TheOne(With(u, "active")) = 0 BY <2>1 DEF TheOne
  <2>4. TheOne(With(u, "active")') = i BY <2>2, OnlyOne
  <2>5. Current[u] = 0 BY <2>3 DEF Current
  <2>6. \A v \in Users : With(v, "pending")' = With(v, "pending") BY <1>1, <1>2, <1>7
  <2>7. \A v \in Users : v # u => With(v, "active")' = With(v, "active") BY <1>2
  <2>8. Following' = Following BY <2>6 DEF Following
  <2>9. Current' = [Current EXCEPT ![u] = i] BY <2>4, <2>7 DEF Current
  <2>10. Line!Join(u, i) BY <1>3, <1>4, <1>5, <2>5, <2>8, <2>9 DEF Line!Join
  <2>11. QED BY <1>2, <2>10 DEF Line!Next
<1>8. QED BY <1>6, <1>7

(* What was put is given up, not the revision it was to follow.              *)
LEMMA AbandonLine ==
  ASSUME RevInv, NEW u \in Users, Abandon(u)
  PROVE  Line!Next
<1>. USE DEF RevInv
<1>1. PICK r \in With(u, "pending") :
        rev' = [rev EXCEPT ![r].status = "abandoned", ![r].replay = "failed"]
  BY DEF Abandon
<1>2. r \in Ids /\ rev[r].status = "pending" /\ rev[r].user = u BY WithFacts
<1>3. rev[r] \in RevisionType BY <1>2, Shape
<1>4. rev \in [Ids -> {Absent} \cup RevisionType] BY DEF TypeOK
<1>5. /\ rev'[r].status = "abandoned" /\ rev'[r].user = u
      /\ \A q \in Ids : q # r => rev'[q] = rev[q]
  BY <1>1, <1>2, <1>3, <1>4 DEF RevisionType
<1>7. /\ \A q \in Ids : rev[q] = Absent <=> rev[q].status = "absent"
      /\ \A q \in Ids : rev'[q] = Absent <=> rev'[q].status = "absent"
  BY <1>2, <1>5, Shape DEF Absent
<1>8. \A v : With(v, "active")' = With(v, "active")
  BY <1>2, <1>5, <1>7 DEF With, Of
<1>9. \A v : v # u => With(v, "pending")' = With(v, "pending")
  BY <1>2, <1>5, <1>7 DEF With, Of
<1>10. With(u, "pending") = {r} BY DEF OneActive
<1>11. With(u, "pending")' = {}
  <2>1. \A q \in Ids : q # r => ~(rev[q] # Absent /\ rev[q].user = u /\ rev[q].status = "pending")
    BY <1>10 DEF With, Of
  <2>2. QED BY <1>5, <2>1 DEF With, Of
<1>12. TheOne(With(u, "pending")) = r /\ TheOne(With(u, "pending")') = 0
  BY <1>10, <1>11, OnlyOne DEF TheOne
<1>13. Following[u] = r /\ r # 0 BY <1>2, <1>12 DEF Following, Ids
<1>14. Current' = Current BY <1>8 DEF Current
<1>15. Following' = [Following EXCEPT ![u] = 0] BY <1>9, <1>12 DEF Following
<1>16. Past' = Past \cup {r} BY <1>2, <1>5 DEF Past
<1>17. view' = view BY DEF Abandon, surfaces
<1>18. Line!GiveUp(u) BY <1>13, <1>14, <1>15, <1>16, <1>17 DEF Line!GiveUp
<1>19. QED BY <1>18 DEF Line!Next

(* A commit replaces the active revision by the one that follows it, or      *)
(* refreshes what the user of an active one is shown.                        *)
LEMMA ApplyLine ==
  ASSUME RevInv, NEW plan \in PlanType, Apply(plan)
  PROVE  Line!Next
<1>. USE DEF RevInv
<1>1. PICK r \in Ids : r = plan.rev BY DEF PlanType
<1>2. Ranked(r) /\ rev[r] \in RevisionType /\ rev[r].user \in Users
  BY <1>1, Shape DEF Apply, Ranked, RevisionType
<1>3. PICK u \in Users : u = rev[r].user BY <1>2
<1>4. PICK new \in RowsType : new = RowsOf(plan) BY RowsTyped
<1>5. CASE rev[r].status = "pending"
  <2>1. rev' = Activated(r) /\ view' = [view EXCEPT ![u] = new]
    BY <1>1, <1>3, <1>4, <1>5 DEF Apply
  <2>2. /\ rev'[r].status = "active" /\ rev'[ActiveOf(u)].status = "superseded"
        /\ \A q \in Ids : q # r /\ q # ActiveOf(u) => rev'[q] = rev[q]
        /\ With(u, "pending") = {r} /\ With(u, "pending")' = {}
        /\ With(u, "active") = {ActiveOf(u)} /\ With(u, "active")' = {r}
        /\ \A v \in Users, s \in {"active", "pending"} : v # u => With(v, s)' = With(v, s)
    <3>1. Ranked(r) /\ rev[r].status = "pending" /\ rev' = Activated(r) /\ u = rev[r].user
      BY <1>2, <1>3, <1>5, <2>1
    <3>. HIDE DEF RevInv
    <3>2. rev'[r].status = "active" /\ rev'[ActiveOf(u)].status = "superseded" BY <3>1, ActivateRev
    <3>3. \A q \in Ids : q # r /\ q # ActiveOf(u) => rev'[q] = rev[q] BY <3>1, ActivateRev
    <3>4. With(u, "pending") = {r} /\ With(u, "pending")' = {} BY <3>1, ActivateRev
    <3>5. With(u, "active") = {ActiveOf(u)} /\ With(u, "active")' = {r} BY <3>1, ActivateRev
    <3>6. \A v \in Users, s \in {"active", "pending"} : v # u => With(v, s)' = With(v, s)
      BY <3>1, ActivateRev
    <3>7. QED BY <3>2, <3>3, <3>4, <3>5, <3>6
  <2>3. ActiveOf(u) \in Ids /\ rev[ActiveOf(u)].status = "active" BY <2>2, WithFacts
  <2>4. /\ TheOne(With(u, "pending")) = r /\ TheOne(With(u, "active")) = ActiveOf(u)
        /\ TheOne(With(u, "active")') = r
    BY <2>2, OnlyOne
  <2>5. TheOne(With(u, "pending")') = 0 BY <2>2 DEF TheOne
  <2>6. Following[u] = r /\ Current[u] = ActiveOf(u) BY <2>4 DEF Following, Current
  <2>7. r # 0 BY DEF Ids
  <2>8. Current' = [Current EXCEPT ![u] = r] BY <2>2, <2>4 DEF Current
  <2>9. Following' = [Following EXCEPT ![u] = 0] BY <2>2, <2>5 DEF Following
  <2>10. Past' = Past \cup {ActiveOf(u)} BY <1>5, <2>2, <2>3 DEF Past
  <2>11. Line!Replace(u) BY <2>1, <2>6, <2>7, <2>8, <2>9, <2>10 DEF Line!Replace
  <2>12. QED BY <2>11 DEF Line!Next
<1>6. CASE rev[r].status # "pending"
  <2>1. /\ rev[r].status = "active" /\ rev' = [rev EXCEPT ![r].replay = "passed"]
        /\ view' = [view EXCEPT ![u] = Changes(@, shown[r], new)]
    BY <1>1, <1>2, <1>3, <1>4, <1>6 DEF Apply, Ranked
  <2>2. PICK rows \in RowsType : view' = [view EXCEPT ![u] = rows]
    <3>1. Changes(view[u], shown[r], new) \in RowsType BY DEF Changes, RowsType, TypeOK
    <3>2. view' = [view EXCEPT ![u] = Changes(view[u], shown[r], new)] BY <2>1
    <3>3. QED BY <3>1, <3>2
  <2>3. /\ \A q \in Ids : q # r => rev'[q] = rev[q]
        /\ rev'[r].status = "active" /\ rev'[r].user = u /\ rev'[r] # Absent
    BY <1>2, <1>3, <2>1 DEF TypeOK, RevisionType, Absent
  <2>4. \A v, s : With(v, s)' = With(v, s)
    BY <1>2, <1>3, <2>1, <2>3 DEF With, Of, Ranked
  <2>5. Past' = Past BY <2>1, <2>3 DEF Past
  <2>6. Current' = Current BY <2>4 DEF Current
  <2>7. Following' = Following BY <2>4 DEF Following
  <2>8. Current[u] # 0
    <3>1. r \in With(u, "active") BY <1>3, <2>1, WithFacts
    <3>2. TheOne(With(u, "active")) \in With(u, "active") BY <3>1, OneOf
    <3>3. TheOne(With(u, "active")) # 0 BY <3>2 DEF With, Of, Ids
    <3>4. QED BY <3>3 DEF Current
  <2>9. Line!Refresh(u) BY <2>2, <2>5, <2>6, <2>7, <2>8 DEF Line!Refresh
  <2>10. QED BY <2>9 DEF Line!Next
<1>7. QED BY <1>5, <1>6

LEMMA LineNext == RevInv /\ [Next]_vars => [Line!Next]_(Line!lvars)
<1>. SUFFICES ASSUME RevInv, [Next]_vars PROVE Line!Next \/ UNCHANGED Line!lvars OBVIOUS
<1>1. ASSUME UNCHANGED <<rev, view>> PROVE UNCHANGED Line!lvars
  <2>1. \A u, s : With(u, s)' = With(u, s) BY <1>1 DEF With, Of
  <2>2. Past' = Past BY <1>1 DEF Past
  <2>3. QED BY <1>1, <2>1, <2>2, LineFrame
<1>2. ASSUME NEW u \in Users, Provision(u) \/ Put(u) \/ Migrate(u) \/ OwnerCreate(u) \/ Compensate(u)
      PROVE  Line!Next
  BY <1>2, Creations, InsertLine
<1>3. ASSUME NEW u \in Users, Abandon(u) PROVE Line!Next BY <1>3, AbandonLine
<1>4. CASE \E u \in Users : EventsArrive(u) BY <1>1, <1>4 DEF EventsArrive, surfaces
<1>5. CASE SourceMoves BY <1>1, <1>5 DEF SourceMoves, surfaces
<1>6. CASE Advance BY <1>1, <1>6 DEF Advance, selections, surfaces
<1>7. CASE \E r \in Ids : ManualPlan(r) BY <1>1, <1>7 DEF ManualPlan, selections, surfaces
<1>8. CASE ManualCommit
  <2>1. manual.plan \in PlanType /\ Apply(manual.plan)
    BY <1>8 DEF ManualCommit, RevInv, ManualType
  <2>2. QED BY <2>1, ApplyLine
<1>9. CASE ManualEnds BY <1>1, <1>9 DEF ManualEnds, selections, surfaces
<1>10. CASE Begin BY <1>1, <1>10 DEF Begin, selections, surfaces
<1>11. CASE LoadFails BY <1>1, <1>11 DEF LoadFails, selections, surfaces
<1>12. CASE Recovers BY <1>1, <1>12 DEF Recovers, selections, surfaces
<1>13. CASE MakePlan BY <1>1, <1>13 DEF MakePlan, selections, surfaces
<1>14. CASE CommitPlan
  <2>1. tick.plan \in PlanType /\ Apply(tick.plan)
    BY <1>14 DEF CommitPlan, RevInv, TickType, Idle
  <2>2. QED BY <2>1, ApplyLine
<1>15. CASE SaveState BY <1>1, <1>15 DEF SaveState, selections, surfaces
<1>16. CASE Fails
  <2>1. CASE UNCHANGED rev BY <1>1, <1>16, <2>1 DEF Fails, surfaces
  <2>2. CASE rev' # rev
    <3>1. PICK r \in Ids : r = Chosen BY <1>16 DEF Fails, RevInv, TickType, Idle, Chosen
    <3>2. rev[r].status = "pending" /\ rev' = [rev EXCEPT ![r].replay = "failed"]
      BY <1>16, <2>2, <3>1 DEF Fails
    <3>3. /\ \A q \in Ids : q # r => rev'[q] = rev[q]
          /\ rev'[r].status = "pending" /\ rev'[r].user = rev[r].user
          /\ rev'[r] # Absent /\ rev[r] # Absent
      BY <3>2, Shape DEF RevInv, TypeOK, Absent, RevisionType
    <3>4. \A u, s : With(u, s)' = With(u, s) BY <3>2, <3>3 DEF With, Of
    <3>5. Past' = Past BY <3>2, <3>3 DEF Past
    <3>6. QED BY <1>16, <3>4, <3>5, LineFrame DEF Fails, surfaces
  <2>3. QED BY <2>1, <2>2
<1>17. CASE EndsQuietly BY <1>1, <1>17 DEF EndsQuietly, selections, surfaces
<1>18. CASE UNCHANGED vars BY <1>1, <1>18 DEF vars
<1>19. QED
  BY <1>2, <1>3, <1>4, <1>5, <1>6, <1>7, <1>8, <1>9, <1>10, <1>11, <1>12, <1>13, <1>14, <1>15,
     <1>16, <1>17, <1>18 DEF Next, Selection, Manual, AutoRun, Running

(* The strategy center is a line of selections: whoever commits and whatever *)
(* fails, a user's selection is replaced only by the one made to follow it,  *)
(* together with what the user is shown, and what is past stays past.        *)
THEOREM SelectionsImplemented == Spec => ImplementsLine
<1>1. Init => Line!Init
  <2>1. SUFFICES ASSUME Init PROVE Line!Init OBVIOUS
  <2>0. \A r \in Ids : rev[r] = Absent BY <2>1 DEF Init
  <2>2. \A u, s : With(u, s) = {} BY <2>0 DEF With, Of
  <2>3. TheOne({}) = 0 BY DEF TheOne
  <2>4. Current = [u \in Users |-> 0] /\ Following = [u \in Users |-> 0]
    BY <2>2, <2>3 DEF Current, Following
  <2>5. Past = {} BY <2>0 DEF Past, Absent
  <2>6. view \in [Users -> RowsType] BY <2>1 DEF Init, NoRows, RowsType
  <2>7. QED BY <2>4, <2>5, <2>6 DEF Line!Init
<1>2. Spec => []RevInv BY InitRev, NextRev, PTL DEF Spec
<1>3. QED BY <1>1, <1>2, LineNext, PTL DEF Spec, ImplementsLine, Line!Spec
-----------------------------------------------------------------------------
(* No evaluation puts an episode in both tables.                             *)
OneTable == \A r \in Ids : shown[r]["match"] = 0 \/ shown[r]["observation"] = 0

LEMMA ApplyOneTable ==
  ASSUME RevInv, OneTable, NEW plan \in PlanType, Apply(plan)
  PROVE  OneTable'
<1>1. PICK p \in Ids : p = plan.rev BY DEF PlanType
<1>2. shown' = [shown EXCEPT ![p] = RowsOf(plan)] BY <1>1 DEF Apply
<1>3. shown \in [Ids -> RowsType] BY DEF RevInv, TypeOK
<1>4. \A r \in Ids : r # p => shown'[r] = shown[r] BY <1>2, <1>3
<1>5. shown'[p] = RowsOf(plan) BY <1>2, <1>3
<1>6. rev[p].version \in {"v1", "v2"}
  BY <1>1, Shape DEF RevInv, Apply, Ranked, RevisionType
<1>7. "match" \notin TablesOf(plan) \/ "observation" \notin TablesOf(plan)
  <2>1. CASE rev[p].version = "v1"
    <3>1. TablesOf(plan) = {t \in {"match"} : Supported(plan)} BY <1>1, <2>1 DEF TablesOf
    <3>2. QED BY <3>1
  <2>2. CASE rev[p].version = "v2"
    <3>1. TablesOf(plan) = {t \in Tables : Found(plan) /\ (t = "observation" <=> Stale(plan))}
      BY <1>1, <2>2 DEF TablesOf
    <3>2. QED BY <3>1
  <2>3. QED BY <1>6, <2>1, <2>2
<1>8. RowsOf(plan)["match"] = 0 \/ RowsOf(plan)["observation"] = 0
  BY <1>7 DEF RowsOf, Tables
<1>9. QED BY <1>4, <1>5, <1>8 DEF OneTable

(* A commit that stands was made from the rows of its v2 revision, and with  *)
(* an observation among them the evaluation finds no match.                  *)
LEMMA ApplySticky ==
  ASSUME RevInv, OneTable, NEW plan \in PlanType, Apply(plan), NEW r \in Ids
  PROVE  Sticky(r)
<1>1. shown' = [shown EXCEPT ![plan.rev] = RowsOf(plan)] BY DEF Apply
<1>2. plan.rev \in Ids BY DEF PlanType
<1>3. shown \in [Ids -> RowsType] BY DEF RevInv, TypeOK
<1>4. SUFFICES ASSUME rev[r].version = "v2", shown[r]["observation"] # 0
               PROVE  shown'[r]["match"] = 0
  BY DEF Sticky
<1>5. CASE r = plan.rev
  <2>1. plan.frozen = shown[r] BY <1>4, <1>5 DEF Apply, Stands, Frozen
  <2>2. Stale(plan) BY <1>4, <2>1 DEF Stale
  <2>3. TablesOf(plan) = {t \in Tables : Found(plan) /\ (t = "observation" <=> Stale(plan))}
    BY <1>4, <1>5 DEF TablesOf
  <2>4. "match" \notin TablesOf(plan) BY <2>2, <2>3
  <2>5. RowsOf(plan)["match"] = 0 BY <2>4 DEF RowsOf, Tables
  <2>6. QED BY <1>1, <1>2, <1>3, <1>5, <2>5
<1>6. CASE r # plan.rev
  <2>1. shown'[r] = shown[r] BY <1>1, <1>3, <1>6
  <2>2. QED BY <2>1, <1>4 DEF OneTable
<1>7. QED BY <1>5, <1>6

LEMMA StickyNext ==
  RevInv /\ OneTable /\ [Next]_vars => OneTable' /\ \A r \in Ids : Sticky(r)
<1>. SUFFICES ASSUME RevInv, OneTable, [Next]_vars
              PROVE  OneTable' /\ \A r \in Ids : Sticky(r)
  OBVIOUS
<1>1. shown' = shown => OneTable' /\ \A r \in Ids : Sticky(r) BY DEF OneTable, Sticky
<1>2. ASSUME NEW plan \in PlanType, Apply(plan) PROVE OneTable' /\ \A r \in Ids : Sticky(r)
  BY <1>2, ApplyOneTable, ApplySticky
<1>3. CASE ManualCommit
  <2>1. manual.plan \in PlanType /\ Apply(manual.plan)
    BY <1>3 DEF ManualCommit, RevInv, ManualType
  <2>2. QED BY <1>2, <2>1
<1>4. CASE CommitPlan
  <2>1. tick.plan \in PlanType /\ Apply(tick.plan)
    BY <1>4 DEF CommitPlan, RevInv, TickType, Idle
  <2>2. QED BY <1>2, <2>1
<1>5. ASSUME NEW u \in Users, Provision(u) \/ Put(u) \/ Migrate(u) \/ OwnerCreate(u) \/ Compensate(u)
      PROVE  shown' = shown
  BY <1>5 DEF Provision, Put, Migrate, OwnerCreate, Compensate, InsertRevision, surfaces
<1>6. ASSUME NEW u \in Users, Abandon(u) \/ EventsArrive(u) PROVE shown' = shown
  BY <1>6 DEF Abandon, EventsArrive, surfaces
<1>7. CASE SourceMoves \/ Advance \/ ManualEnds \/ \E r \in Ids : ManualPlan(r)
  BY <1>1, <1>7 DEF SourceMoves, Advance, ManualEnds, ManualPlan, surfaces
<1>8. CASE Begin \/ LoadFails \/ Recovers \/ MakePlan \/ SaveState \/ Fails \/ EndsQuietly
  BY <1>1, <1>8 DEF Begin, LoadFails, Recovers, MakePlan, SaveState, Fails, EndsQuietly, surfaces
<1>9. CASE UNCHANGED vars BY <1>1, <1>9 DEF vars
<1>10. QED
  BY <1>1, <1>3, <1>4, <1>5, <1>6, <1>7, <1>8, <1>9 DEF Next, Selection, Manual, AutoRun, Running

(* Whatever the sources say and whenever an evaluation was planned, an       *)
(* observation of a v2 revision never turns back into a match.               *)
THEOREM StaleStaysStale == Spec => StaleForGood
<1>1. Init => OneTable BY DEF Init, NoRows, OneTable, Tables
<1>2. RevInv /\ OneTable /\ [Next]_vars => OneTable' /\ [\A r \in Ids : Sticky(r)]_vars
  BY StickyNext
<1>3. Spec => []RevInv BY InitRev, NextRev, PTL DEF Spec
<1>4. QED BY <1>1, <1>2, <1>3, PTL DEF Spec, StaleForGood

-----------------------------------------------------------------------------
(* A pending revision that is abandoned keeps its number, which is the one   *)
(* after its user's active revision: the user can never be given another.    *)
LockedOut(u) ==
  /\ Joined(u) /\ With(u, "pending") = {}
  /\ \E r \in Of(u) : rev[r].no = rev[ActiveOf(u)].no + 1

PendingIsNext ==
  \A u \in Users : \A r \in With(u, "pending") : rev[r].no = rev[ActiveOf(u)].no + 1

(* The revisions of a user keep their numbers and statuses in this step.     *)
Keeps(u) ==
  \A q \in Ids :
    /\ rev'[q] # Absent /\ rev'[q].user = u <=> rev[q] # Absent /\ rev[q].user = u
    /\ rev[q] # Absent /\ rev[q].user = u =>
         rev'[q].no = rev[q].no /\ rev'[q].status = rev[q].status

LEMMA Kept ==
  ASSUME RevInv, NEW u \in Users, Keeps(u)
  PROVE  /\ LockedOut(u)' <=> LockedOut(u)
         /\ With(u, "pending")' = With(u, "pending")
         /\ \A r \in With(u, "pending") :
              rev'[r].no = rev'[ActiveOf(u)'].no + 1 <=> rev[r].no = rev[ActiveOf(u)].no + 1
<1>1. Of(u)' = Of(u) BY DEF Keeps, Of
<1>2. \A s : With(u, s)' = With(u, s) BY <1>1 DEF Keeps, With, Of
<1>3. ActiveOf(u)' = ActiveOf(u) BY <1>2 DEF ActiveOf
<1>4. \A r \in Of(u) : rev'[r].no = rev[r].no BY DEF Keeps, Of
<1>5. Joined(u) => ActiveOf(u) \in Of(u) BY ActiveOne DEF RevInv, Of, Absent, RevisionType
<1>6. \A r \in With(u, "pending") : r \in Of(u) /\ Joined(u) BY DEF With, Joined
<1>7. Joined(u)' = Joined(u) BY <1>1 DEF Joined
<1>8. QED BY <1>1, <1>2, <1>3, <1>4, <1>5, <1>6, <1>7 DEF LockedOut

LockInv == RevInv /\ PendingIsNext

LEMMA InsertLock ==
  ASSUME LockInv, NEW u \in Users, NEW new, Entering(u, new), InsertRevision(new)
  PROVE  PendingIsNext' /\ ~LockedOut(u) /\ \A v \in Users : v # u => Keeps(v)
<1>. USE DEF LockInv
<1>1. /\ new.user = u /\ new.status = IF Joined(u) THEN "pending" ELSE "active"
      /\ new # Absent
  BY Inserted
<1>2. PICK i \in Ids :
        /\ rev[i] = Absent /\ rev'[i] = new
        /\ \A q \in Ids : q # i => rev'[q] = rev[q]
        /\ \A v, s : With(v, s)' = IF v = u /\ s = new.status THEN With(v, s) \cup {i}
                                                           ELSE With(v, s)
  BY Inserted
<1>3. \A v \in Users : v # u => Keeps(v) BY <1>1, <1>2 DEF Keeps
<1>4. With(u, "pending") = {} BY <1>1 DEF InsertRevision, Insertable
<1>5. Joined(u) => new.no = rev[ActiveOf(u)].no + 1 BY DEF Entering, Successor
<1>6. ~LockedOut(u) BY <1>1, <1>5 DEF LockedOut, InsertRevision, Insertable
<1>7. ASSUME NEW r \in With(u, "pending")' PROVE rev'[r].no = rev'[ActiveOf(u)'].no + 1
  <2>1. Joined(u) /\ r = i BY <1>1, <1>2, <1>4
  <2>2. ActiveOf(u)' = ActiveOf(u) BY <2>1, InsertRev
  <2>3. ActiveOf(u) \in Ids /\ rev[ActiveOf(u)] # Absent
    BY <2>1, ActiveOne DEF RevInv, Absent, RevisionType
  <2>4. rev'[ActiveOf(u)] = rev[ActiveOf(u)] BY <1>2, <2>3
  <2>5. QED BY <1>2, <1>5, <2>1, <2>2, <2>4
<1>8. ASSUME NEW v \in Users, v # u, NEW r \in With(v, "pending")'
      PROVE  rev'[r].no = rev'[ActiveOf(v)'].no + 1
  BY <1>3, <1>8, Kept DEF PendingIsNext
<1>9. QED BY <1>3, <1>6, <1>7, <1>8 DEF PendingIsNext

LEMMA AbandonLock ==
  ASSUME LockInv, NEW u \in Users, Abandon(u)
  PROVE  PendingIsNext' /\ LockedOut(u)' /\ \A v \in Users : v # u => Keeps(v)
<1>. USE DEF LockInv
<1>1. PICK r \in With(u, "pending") :
        rev' = [rev EXCEPT ![r].status = "abandoned", ![r].replay = "failed"]
  BY DEF Abandon
<1>2. /\ r \in Ids /\ rev[r] # Absent /\ rev[r].status = "pending" /\ rev[r].user = u
      /\ rev[r] \in RevisionType
  BY Shape DEF RevInv, With, Of
<1>3. /\ \A q \in Ids : q # r => rev'[q] = rev[q]
      /\ rev'[r].status = "abandoned" /\ rev'[r].user = u /\ rev'[r].no = rev[r].no
      /\ rev'[r] # Absent
  BY <1>1, <1>2 DEF RevInv, TypeOK, RevisionType, Absent
<1>4. \A v \in Users : v # u => Keeps(v) BY <1>2, <1>3 DEF Keeps
<1>5. \A q \in With(u, "pending") : q = r BY DEF RevInv, OneActive
<1>6. With(u, "pending")' = {} BY <1>3, <1>5 DEF With, Of
<1>7. LockedOut(u)'
  <2>1. Joined(u) /\ Joined(u)' /\ ActiveOf(u)' = ActiveOf(u) BY AbandonRev DEF Abandon
  <2>2. /\ ActiveOf(u) \in Ids /\ ActiveOf(u) # r
    BY <1>2, <2>1, ActiveOne DEF RevInv
  <2>3. rev'[r].no = rev'[ActiveOf(u)'].no + 1 BY <1>3, <2>1, <2>2 DEF PendingIsNext
  <2>4. r \in Of(u)' BY <1>2, <1>3 DEF Of
  <2>5. QED BY <1>6, <2>1, <2>3, <2>4 DEF LockedOut
<1>8. ASSUME NEW v \in Users, v # u, NEW q \in With(v, "pending")'
      PROVE  rev'[q].no = rev'[ActiveOf(v)'].no + 1
  BY <1>4, <1>8, Kept DEF PendingIsNext
<1>9. QED BY <1>4, <1>6, <1>7, <1>8 DEF PendingIsNext

(* An activation takes the pending revision away; any other commit keeps     *)
(* everybody's numbers and statuses.                                         *)
LEMMA ApplyLock ==
  ASSUME LockInv, NEW plan \in PlanType, Apply(plan)
  PROVE  PendingIsNext' /\ \A u \in Users : LockedOut(u) => LockedOut(u)'
<1>. USE DEF LockInv
<1>1. PICK r \in Ids : r = plan.rev BY DEF PlanType
<1>2. Ranked(r) /\ rev[r] # Absent /\ rev[r] \in RevisionType /\ rev[r].user \in Users
  BY <1>1, Shape DEF RevInv, Apply, Ranked, RevisionType
<1>3. PICK u \in Users : u = rev[r].user BY <1>2
<1>4. CASE rev[r].status = "pending"
  <2>1. rev' = Activated(r) BY <1>1, <1>4 DEF Apply
  <2>2. With(u, "pending") = {r} /\ With(u, "pending")' = {} BY <1>2, <1>3, <1>4, <2>1, ActivateRev
  <2>3. With(u, "active") = {ActiveOf(u)} BY <1>2, <1>3, <1>4, <2>1, ActivateRev
  <2>4. PICK a \in Ids : a = ActiveOf(u) /\ rev[a] \in RevisionType /\ rev[a].user = u
    BY <2>3, WithFacts, Shape DEF RevInv, With, Of
  <2>5. rev' = [rev EXCEPT ![a].status = "superseded", ![r].status = "active", ![r].replay = "passed"]
    BY <1>3, <2>1, <2>4 DEF Activated
  <2>6. \A q \in Ids : q # r /\ q # a => rev'[q] = rev[q] BY <2>5 DEF RevInv, TypeOK
  <2>7. rev'[r].user = u /\ rev'[a].user = u
    BY <1>2, <1>3, <2>4, <2>5 DEF RevInv, TypeOK, RevisionType
  <2>8. \A v \in Users : v # u => Keeps(v) BY <1>2, <1>3, <2>4, <2>6, <2>7 DEF Keeps
  <2>9. ~LockedOut(u) BY <2>2 DEF LockedOut
  <2>10. QED BY <2>2, <2>8, <2>9, Kept DEF PendingIsNext
<1>5. CASE rev[r].status # "pending"
  <2>1. rev' = [rev EXCEPT ![r].replay = "passed"] BY <1>1, <1>5 DEF Apply
  <2>2. \A v \in Users : Keeps(v)
    BY <1>2, <2>1 DEF Keeps, RevInv, TypeOK, RevisionType, Absent
  <2>3. QED BY <2>2, Kept DEF PendingIsNext
<1>6. QED BY <1>4, <1>5

LEMMA LockNext ==
  LockInv /\ [Next]_vars => PendingIsNext' /\ \A u \in Users : LockedOut(u) => LockedOut(u)'
<1>. DEFINE Locks == PendingIsNext' /\ \A u \in Users : LockedOut(u) => LockedOut(u)'
<1>. SUFFICES ASSUME LockInv, [Next]_vars PROVE Locks OBVIOUS
<1>. USE DEF LockInv
<1>1. ASSUME \A u \in Users : Keeps(u) PROVE Locks BY <1>1, Kept DEF PendingIsNext
<1>2. rev' = rev => Locks BY <1>1 DEF Keeps
<1>3. ASSUME NEW u \in Users, Provision(u) \/ Put(u) \/ Migrate(u) \/ OwnerCreate(u) \/ Compensate(u)
      PROVE  Locks
  <2>1. PICK new : Entering(u, new) /\ InsertRevision(new) BY <1>3, Creations
  <2>2. PendingIsNext' /\ ~LockedOut(u) /\ \A v \in Users : v # u => Keeps(v)
    BY <2>1, InsertLock
  <2>3. QED BY <2>2, Kept
<1>4. ASSUME NEW u \in Users, Abandon(u) PROVE Locks
  <2>1. PendingIsNext' /\ LockedOut(u)' /\ \A v \in Users : v # u => Keeps(v)
    BY <1>4, AbandonLock
  <2>2. QED BY <2>1, Kept
<1>5. CASE ManualCommit
  <2>1. manual.plan \in PlanType /\ Apply(manual.plan)
    BY <1>5 DEF ManualCommit, RevInv, ManualType
  <2>2. QED BY <2>1, ApplyLock
<1>6. CASE CommitPlan
  <2>1. tick.plan \in PlanType /\ Apply(tick.plan)
    BY <1>6 DEF CommitPlan, RevInv, TickType, Idle
  <2>2. QED BY <2>1, ApplyLock
<1>7. CASE Fails
  <2>1. CASE UNCHANGED rev BY <1>2, <2>1
  <2>2. CASE rev' # rev
    <3>1. PICK r \in Ids : r = Chosen BY <1>7 DEF Fails, RevInv, TickType, Idle, Chosen
    <3>2. rev[r].status = "pending" /\ rev' = [rev EXCEPT ![r].replay = "failed"]
      BY <1>7, <2>2, <3>1 DEF Fails
    <3>3. /\ \A q \in Ids : q # r => rev'[q] = rev[q]
          /\ rev'[r].status = "pending" /\ rev'[r].user = rev[r].user /\ rev'[r].no = rev[r].no
          /\ rev'[r] # Absent /\ rev[r] # Absent
      BY <3>2, Shape DEF RevInv, TypeOK, Absent, RevisionType
    <3>4. \A u \in Users : Keeps(u) BY <3>2, <3>3 DEF Keeps
    <3>5. QED BY <1>1, <3>4
  <2>3. QED BY <2>1, <2>2
<1>8. ASSUME NEW u \in Users, EventsArrive(u) PROVE Locks BY <1>2, <1>8 DEF EventsArrive
<1>9. CASE SourceMoves \/ Advance \/ ManualEnds \/ \E r \in Ids : ManualPlan(r)
  BY <1>2, <1>9 DEF SourceMoves, Advance, ManualEnds, ManualPlan, selections
<1>10. CASE Begin \/ LoadFails \/ Recovers \/ MakePlan \/ SaveState \/ EndsQuietly
  BY <1>2, <1>10 DEF Begin, LoadFails, Recovers, MakePlan, SaveState, EndsQuietly, selections
<1>11. CASE UNCHANGED vars BY <1>2, <1>11 DEF vars
<1>12. QED
  BY <1>3, <1>4, <1>5, <1>6, <1>7, <1>8, <1>9, <1>10, <1>11
     DEF Next, Selection, Manual, AutoRun, Running

(* Abandoning a pending revision is for good: its user can never be given    *)
(* another selection, whatever else happens.                                 *)
THEOREM AbandonedForGood ==
  Spec => /\ [](\A u \in Users : LockedOut(u) =>
                    \A version \in {"v1", "v2"} : ~Insertable(Successor(u, version)))
          /\ [][\A u \in Users : Abandon(u) \/ LockedOut(u) => LockedOut(u)']_vars
<1>. DEFINE Closed == \A u \in Users : LockedOut(u) =>
                        \A version \in {"v1", "v2"} : ~Insertable(Successor(u, version))
            Stays  == \A u \in Users : Abandon(u) \/ LockedOut(u) => LockedOut(u)'
<1>1. Init => PendingIsNext
  <2>1. SUFFICES ASSUME Init PROVE PendingIsNext OBVIOUS
  <2>2. \A u, s : With(u, s) = {} BY <2>1 DEF Init, With, Of
  <2>3. QED BY <2>2 DEF PendingIsNext
<1>2. RevInv /\ PendingIsNext /\ [Next]_vars => PendingIsNext' BY LockNext DEF LockInv
<1>3. RevInv /\ PendingIsNext /\ [Next]_vars => [Stays]_vars
  <2>1. SUFFICES ASSUME LockInv, [Next]_vars, NEW u \in Users, Abandon(u) \/ LockedOut(u)
                 PROVE  LockedOut(u)'
    BY DEF LockInv
  <2>2. CASE Abandon(u) BY <2>1, <2>2, AbandonLock
  <2>3. CASE LockedOut(u) BY <2>1, <2>3, LockNext
  <2>4. QED BY <2>1, <2>2, <2>3
<1>4. Closed BY DEF LockedOut, Insertable, Successor
<1>5. Spec => []RevInv BY InitRev, NextRev, PTL DEF Spec
<1>. HIDE DEF Closed, Stays
<1>6. Spec => []Closed /\ [][Stays]_vars BY <1>1, <1>2, <1>3, <1>4, <1>5, PTL DEF Spec
<1>7. QED BY <1>6 DEF Closed, Stays
=============================================================================
