------------------------ MODULE VirtualStopLoss_proof ------------------------
(***************************************************************************)
(* Proofs about VirtualStopLoss, for any number of runs, minutes,          *)
(* proposals and episodes, any prices and any calendar.                    *)
(***************************************************************************)
EXTENDS VirtualStopLoss, WellFoundedInduction, TLAPS

(* The records the variables hold. *)
StopType == {NoStop} \cup [status : {"frozen"}, price : Prices, effective : Nat]

ProposalType ==
  [status : Active \cup Terminal, episode : 1 .. MaxEpisode, expires : Nat,
   confirm : Minutes, stop : Prices, updated : Minutes, quoted : Minutes]

RunType  == [phase : {"freeze", "candidate"}, froze : BOOLEAN, stop : StopType]
ExecType == [phase : {"claimed", "checked"}, proposal : Ids, at : Minutes]

Types ==
  /\ minute \in Minutes /\ insertWorks \in Programs
  /\ quote \in [Minutes -> Prices \cup {NoQuote, NotReady}]
  /\ low \in [Window -> Prices \cup {0}]
  /\ \A m \in Window \cap Passed : low[m] \in Prices
  /\ position \in [episode : 1 .. MaxEpisode, first_open : Nat, stop : StopType]
  /\ proposal \in [Ids -> {Absent} \cup ProposalType]
  /\ run \in [Runs -> {NoRun, LostRun} \cup RunType]
  /\ \/ exec = NoExec
     \/ exec \in ExecType /\ proposal[exec.proposal].status = "processing"

FrozenFor(stop) ==
  /\ stop.effective > position.first_open
  /\ stop.price \in {low[m] : m \in FinalQuotes}

(* The row lock: at most one run froze the position and did not end yet, and *)
(* the position is as that run found it.                                     *)
Locks ==
  /\ \A r, o \in Runs : run[r].froze /\ run[o].froze => r = o
  /\ \A r \in Runs : run[r].froze =>
       /\ position.stop.status = "provisional_first_day"
       /\ run[r].stop.status = "frozen" /\ FrozenFor(run[r].stop)
  /\ FrozenForItsEpisode

(* A proposal of the present episode was made at the stop the position has.  *)
Episodes ==
  \A p \in Ids : proposal[p] # Absent =>
    /\ proposal[p].episode <= position.episode
    /\ proposal[p].episode = position.episode =>
         position.stop.status = "frozen" /\ proposal[p].stop = position.stop.price

(* Proposals fill the table in order, and one is followed by another of its  *)
(* episode only when it came to nothing, and after a recovery.               *)
Order ==
  /\ \A p, q \in Ids : p < q /\ proposal[q] # Absent => proposal[p] # Absent
  /\ \A p, q \in Ids :
       p < q /\ proposal[q] # Absent /\ proposal[p].episode = proposal[q].episode
         => proposal[p].status \in Terminal
  /\ RearmNeedsRecovery

StopInv == Types /\ Locks /\ Episodes /\ StopsFollowBreaches /\ OneStopPerEpisode /\ Order

-----------------------------------------------------------------------------
(* The least and the greatest element of a set of numbers.                   *)
LEMMA LeastExists ==
  ASSUME NEW T \in SUBSET Nat, T # {}
  PROVE  \E x \in T : \A y \in T : x <= y
<1>. DEFINE R == OpToRel(<, Nat)
<1>1. R = {ss \in Nat \X Nat : ss[1] < ss[2]} BY DEF OpToRel
<1>2. IsWellFoundedOn(R, Nat) BY NatLessThanWellFounded
<1>3. \A x, y \in Nat : y < x => <<y, x>> \in R BY <1>1
<1>. HIDE DEF R
<1>4. PICK x \in T : \A y \in T : ~ (<<y, x>> \in R) BY <1>2, WFMin
<1>5. \A y \in T : ~ (y < x) BY <1>3, <1>4
<1>6. QED BY <1>4, <1>5

LEMMA MinFacts ==
  ASSUME NEW T \in SUBSET Nat, T # {}
  PROVE  Min(T) \in T /\ \A y \in T : Min(T) <= y
BY LeastExists DEF Min

LEMMA MaxFacts ==
  ASSUME NEW n \in Nat, NEW T \in SUBSET (0 .. n), T # {}
  PROVE  Max(T) \in T /\ \A y \in T : y <= Max(T)
<1>. DEFINE U == {n - t : t \in T}
<1>1. U \subseteq Nat BY SMT
<1>2. PICK t \in T : TRUE OBVIOUS
<1>3. n - t \in U BY <1>2
<1>4. PICK u \in U : \A v \in U : u <= v BY <1>1, <1>3, LeastExists
<1>5. PICK x \in T : u = n - x BY <1>4
<1>6. \A y \in T : n - x <= n - y BY <1>4, <1>5
<1>7. \A y \in T : x >= y BY <1>6
<1>8. QED BY <1>5, <1>7 DEF Max

-----------------------------------------------------------------------------
(* Facts about the records. *)
LEMMA Apart ==
  /\ Absent \notin ProposalType
  /\ \A p \in ProposalType : p.status \in Active \cup Terminal /\ p # Absent
  /\ Active \cap Terminal = {}
  /\ NoStop.status # "frozen"
  /\ ~NoRun.froze /\ ~LostRun.froze
  /\ Minutes \subseteq Nat /\ Ids \subseteq Nat
BY StopLossAssumption DEF Absent, ProposalType, Active, Terminal, NoStop, NoRun, LostRun, Minutes, Ids

LEMMA Present ==
  ASSUME Types, NEW p \in Ids, proposal[p].status \in Active \cup Terminal \/ proposal[p] # Absent
  PROVE  proposal[p] \in ProposalType /\ proposal[p] # Absent
BY Apart DEF Types, Absent, Active, Terminal

LEMMA RunIs ==
  ASSUME Types, NEW r \in Runs
  PROVE  /\ run[r].phase \in {"freeze", "candidate"} => run[r] \in RunType
         /\ run[r].froze => run[r] \in RunType
         /\ run[r].froze \in BOOLEAN
<1>1. run[r] \in {NoRun, LostRun} \cup RunType BY DEF Types
<1>2. ASSUME run[r] \in {NoRun, LostRun} PROVE run[r].phase \in {"idle", "lost"} /\ run[r].froze = FALSE
  BY <1>2 DEF NoRun, LostRun
<1>3. ASSUME run[r] \in RunType PROVE run[r].froze \in BOOLEAN BY <1>3 DEF RunType
<1>4. QED BY <1>1, <1>2, <1>3

LEMMA LatestIn ==
  ASSUME Types, NEW price, AtOrBelow(Latest, price)
  PROVE  Latest \in Minutes
BY DEF AtOrBelow, Passed

LEMMA SeenIs ==
  ASSUME Types, NEW r \in Runs
  PROVE  StopSeen(r) \in StopType
BY RunIs DEF StopSeen, Types, RunType

(* The last of the proposals of an episode that came to nothing exists.      *)
LEMMA LastIs ==
  ASSUME Types, NEW e, StopsOf(e, Terminal) # {}
  PROVE  /\ LastTerminal(e) \in StopsOf(e, Terminal)
         /\ \A o \in StopsOf(e, Terminal) :
              proposal[o].updated <= proposal[LastTerminal(e)].updated
<1>. DEFINE S == StopsOf(e, Terminal)
            At == {proposal[p].updated : p \in S}
            u == Max(At)
            L == {p \in S : proposal[p].updated = u}
            l == Max(L)
<1>1. S \subseteq Ids /\ S # {} BY DEF StopsOf
<1>2. \A p \in S : proposal[p].updated \in Minutes
  BY Present DEF StopsOf, ProposalType
<1>3. MaxMinute \in Nat /\ MaxProposals \in Nat BY StopLossAssumption
<1>4. At \in SUBSET (0 .. MaxMinute) /\ At # {} BY <1>1, <1>2 DEF Minutes
<1>. HIDE DEF At, L
<1>5. u \in At /\ \A a \in At : a <= u BY <1>3, <1>4, MaxFacts
<1>. HIDE DEF u
<1>6. u \in Nat BY <1>4, <1>5
<1>7. PICK p \in S : proposal[p].updated = u BY <1>5 DEF At
<1>8. L \in SUBSET (0 .. MaxProposals) /\ L # {} BY <1>1, <1>7 DEF L, Ids
<1>9. l \in L /\ \A o \in L : o <= l BY <1>3, <1>8, MaxFacts
<1>. HIDE DEF l
<1>10. l \in S /\ proposal[l].updated = u BY <1>9 DEF L
<1>11. \A o \in S : \/ proposal[o].updated < proposal[l].updated
                    \/ proposal[o].updated = proposal[l].updated /\ o <= l
  <2>1. TAKE o \in S
  <2>2. proposal[o].updated \in At BY <2>1 DEF At
  <2>3. proposal[o].updated \in Nat /\ proposal[o].updated <= u
    <3>1. proposal[o].updated \in Nat BY <1>2, Apart
    <3>2. proposal[o].updated <= u BY <1>5, <2>2
    <3>3. QED BY <3>1, <3>2
  <2>4. CASE proposal[o].updated = u
    <3>1. o \in L BY <2>1, <2>4 DEF L
    <3>2. o <= l BY <3>1, <1>9
    <3>3. QED BY <3>2, <2>4, <1>10
  <2>5. CASE proposal[o].updated # u
    <3>. DEFINE v == proposal[o].updated
    <3>1. v \in Nat /\ v <= u /\ v # u BY <2>3, <2>5
    <3>. HIDE DEF v
    <3>2. v < u BY <3>1, <1>6
    <3>3. QED BY <3>2, <1>10 DEF v
  <2>6. QED BY <2>4, <2>5
<1>12. LastTerminal(e) \in S /\ \A o \in S :
         \/ proposal[o].updated < proposal[LastTerminal(e)].updated
         \/ proposal[o].updated = proposal[LastTerminal(e)].updated /\ o <= LastTerminal(e)
  BY <1>10, <1>11 DEF LastTerminal
<1>13. \A o \in S : proposal[o].updated \in Nat BY <1>2, Apart
<1>14. QED BY <1>12, <1>13

-----------------------------------------------------------------------------
(* Steps. *)

LEMMA StopInit == Init => StopInv
<1>. SUFFICES ASSUME Init PROVE StopInv OBVIOUS
<1>1. 0 \in Minutes /\ 1 \in 1 .. MaxEpisode BY StopLossAssumption DEF Minutes
<1>2. DateOf[0] \in Nat BY <1>1, StopLossAssumption
<1>3. Passed = {} BY StopLossAssumption DEF Init, Passed
<1>4. Types
  <2>1. NoStop \in StopType /\ NoRun \in {NoRun, LostRun} \cup RunType BY DEF StopType
  <2>2. run \in [Runs -> {NoRun, LostRun} \cup RunType] BY <2>1 DEF Init
  <2>3. proposal \in [Ids -> {Absent} \cup ProposalType] BY DEF Init
  <2>4. position \in [episode : 1 .. MaxEpisode, first_open : Nat, stop : StopType]
    BY <1>1, <1>2, <2>1 DEF Init
  <2>5. minute \in Minutes /\ insertWorks \in Programs /\ exec = NoExec
        /\ quote \in [Minutes -> Prices \cup {NoQuote, NotReady}]
        /\ low \in [Window -> Prices \cup {0}]
    BY <1>1 DEF Init
  <2>6. \A m \in Window \cap Passed : low[m] \in Prices BY <1>3
  <2>7. QED BY <2>2, <2>3, <2>4, <2>5, <2>6 DEF Types
<1>5. Locks BY Apart DEF Init, Locks, FrozenForItsEpisode
<1>6. QED BY <1>4, <1>5
  DEF Init, StopInv, Episodes, StopsFollowBreaches, OneStopPerEpisode, Order, RearmNeedsRecovery,
      Absent, Active, Terminal

(* A row that is written stays, and its low with it. *)
LEMMA RecordStep ==
  ASSUME StopInv, Record
  PROVE  StopInv'
<1>. USE DEF StopInv
<1>1. PICK m \in {minute, minute - 1} \cap (Session \cup Window), price \in Prices \cup {NotReady} :
        /\ quote[m] = NoQuote /\ DateOf[m] = Today
        /\ quote' = [quote EXCEPT ![m] = price]
        /\ low' = IF m \in Window /\ price \in Prices
                  THEN [low EXCEPT ![m] = DayLow(price)] ELSE low
  BY DEF Record
<1>2. UNCHANGED <<minute, position, lots, proposal, run, exec, insertWorks>> BY DEF Record
<1>3. m \in Minutes BY <1>1, StopLossAssumption
<1>4. \A k \in Passed : k # m /\ quote'[k] = quote[k] /\ k \in Passed'
  BY <1>1, <1>3, StopLossAssumption DEF Passed, Types
<1>5. \A k \in Passed' : k \in Passed \/ (k = m /\ price \in Prices)
  BY <1>1, <1>3 DEF Passed, Types
<1>6. \A k \in Window : k # m => low'[k] = low[k] BY <1>1 DEF Types
<1>7. ASSUME price \in Prices PROVE DayLow(price) \in Prices
  <2>. DEFINE T == {price} \cup {quote[k] : k \in {k \in Passed : DateOf[k] = Today}}
  <2>1. T \in SUBSET Prices /\ T # {} BY <1>7 DEF Passed
  <2>2. T \in SUBSET Nat BY <2>1, StopLossAssumption
  <2>3. Min(T) \in T BY <2>1, <2>2, MinFacts
  <2>4. QED BY <2>1, <2>3 DEF DayLow
<1>8. Types'
  <2>1. quote' \in [Minutes -> Prices \cup {NoQuote, NotReady}] BY <1>1, <1>3 DEF Types
  <2>2. low' \in [Window -> Prices \cup {0}] BY <1>1, <1>7 DEF Types
  <2>3. ASSUME NEW k \in Window, k \in Passed' PROVE low'[k] \in Prices
    <3>1. CASE k = m /\ price \in Prices BY <1>1, <1>7, <3>1, <2>3 DEF Types
    <3>2. CASE k \in Passed BY <1>4, <1>6, <3>2, <2>3 DEF Types
    <3>3. QED BY <3>1, <3>2, <1>5, <2>3
  <2>4. QED BY <1>2, <2>1, <2>2, <2>3 DEF Types
<1>9. \A k, price_1 : AtOrBelow(k, price_1) => AtOrBelow(k, price_1)' BY <1>4 DEF AtOrBelow
<1>10. \A k, price_1 : Above(k, price_1) => Above(k, price_1)' BY <1>4 DEF Above
<1>11. \A k \in FinalQuotes : k \in FinalQuotes' /\ low'[k] = low[k]
  BY <1>2, <1>4, <1>6 DEF FinalQuotes
<1>12. Locks' BY <1>2, <1>11 DEF Locks, FrozenFor, FrozenForItsEpisode
<1>13. StopsFollowBreaches' BY <1>2, <1>9 DEF StopsFollowBreaches
<1>14. RearmNeedsRecovery' 
  <2>1. SUFFICES ASSUME NEW p \in Ids, NEW q \in Ids, p < q, proposal[q] # Absent,
                        proposal[p].episode = proposal[q].episode
                 PROVE  \E k \in Passed' :
                          /\ k > proposal[p].updated /\ k + 1 < proposal[q].confirm - 1
                          /\ Above(k, proposal[q].stop)' /\ Above(k + 1, proposal[q].stop)'
    BY <1>2 DEF RearmNeedsRecovery
  <2>2. PICK k \in Passed : /\ k > proposal[p].updated /\ k + 1 < proposal[q].confirm - 1
                            /\ Above(k, proposal[q].stop) /\ Above(k + 1, proposal[q].stop)
    BY <2>1 DEF Order, RearmNeedsRecovery
  <2>3. QED BY <1>2, <1>4, <1>10, <2>2 DEF Above
<1>15. Episodes' /\ OneStopPerEpisode' /\ Order'
  BY <1>2, <1>14 DEF Episodes, OneStopPerEpisode, StopsOf, Order
<1>16. QED BY <1>8, <1>12, <1>13, <1>15

(* Steps of a run that leave the position and the proposals.                 *)
LEMMA RunStep ==
  ASSUME StopInv, NEW r \in Runs, NEW new \in {NoRun, LostRun} \cup RunType,
         run' = [run EXCEPT ![r] = new],
         UNCHANGED <<minute, feed, position, lots, proposal, exec, insertWorks>>,
         new.froze => /\ new.stop.status = "frozen" /\ FrozenFor(new.stop)
                      /\ position.stop.status = "provisional_first_day"
                      /\ \A o \in Runs \ {r} : ~run[o].froze
  PROVE  StopInv'
<1>. USE DEF StopInv, feed
<1>1. \A o \in Runs : run'[o] = IF o = r THEN new ELSE run[o] BY DEF Types
<1>2. Types' BY DEF Types, Passed
<1>3. \A stop : FrozenFor(stop) => FrozenFor(stop)' BY DEF FrozenFor, FinalQuotes, Passed
<1>4. Locks'
  <2>1. \A o, q \in Runs : run'[o].froze /\ run'[q].froze => o = q BY <1>1 DEF Locks
  <2>2. \A o \in Runs : run'[o].froze =>
          /\ position.stop.status = "provisional_first_day"
          /\ run'[o].stop.status = "frozen" /\ FrozenFor(run'[o].stop)
    BY <1>1 DEF Locks
  <2>3. FrozenForItsEpisode' BY DEF Locks, FrozenForItsEpisode, FinalQuotes, Passed
  <2>4. QED BY <1>3, <2>1, <2>2, <2>3 DEF Locks
<1>5. Episodes' /\ StopsFollowBreaches' /\ OneStopPerEpisode' /\ Order'
  BY DEF Episodes, StopsFollowBreaches, OneStopPerEpisode, Order, RearmNeedsRecovery, AtOrBelow,
         Above, Passed
<1>6. QED BY <1>2, <1>4, <1>5

LEMMA FreezeStep ==
  ASSUME StopInv, NEW r \in Runs, Freeze(r)
  PROVE  StopInv'
<1>. USE DEF StopInv
<1>1. CASE ~Freezable(r)
  <2>. DEFINE new == [phase |-> "freeze", froze |-> FALSE, stop |-> NoStop]
  <2>1. new \in RunType BY DEF RunType, StopType
  <2>2. run' = [run EXCEPT ![r] = new] BY <1>1 DEF Freeze
  <2>3. ~new.froze OBVIOUS
  <2>. HIDE DEF new
  <2>4. QED BY <2>1, <2>2, <2>3, RunStep DEF Freeze
<1>2. CASE Freezable(r)
  <2>. DEFINE new == [phase |-> "freeze", froze |-> TRUE, stop |-> Frozen]
  <2>1. MaxMinute \in Nat /\ FinalQuotes \in SUBSET (0 .. MaxMinute) /\ FinalQuotes # {}
    BY <1>2, StopLossAssumption DEF Freezable, FinalQuotes, Passed, Minutes
  <2>2. Max(FinalQuotes) \in FinalQuotes BY <2>1, MaxFacts
  <2>3. low[Max(FinalQuotes)] \in Prices BY <2>2 DEF FinalQuotes, Types
  <2>4. LaterDates \in SUBSET Nat /\ LaterDates # {}
    BY <1>2, StopLossAssumption DEF Freezable, LaterDates
  <2>5. Min(LaterDates) \in LaterDates BY <2>4, MinFacts
  <2>6. Min(LaterDates) \in Nat /\ Min(LaterDates) > position.first_open
    BY <2>4, <2>5 DEF LaterDates
  <2>7. Frozen \in StopType /\ Frozen.status = "frozen" BY <2>3, <2>6 DEF Frozen, StopType
  <2>8. FrozenFor(Frozen) BY <2>2, <2>6 DEF FrozenFor, Frozen
  <2>9. new \in RunType /\ new.stop = Frozen BY <2>7 DEF RunType
  <2>10. run' = [run EXCEPT ![r] = new] BY <1>2 DEF Freeze
  <2>11. position.stop.status = "provisional_first_day" /\ \A o \in Runs \ {r} : ~run[o].froze
    BY <1>2 DEF Freezable, PositionFree
  <2>. HIDE DEF new
  <2>12. QED BY <2>7, <2>8, <2>9, <2>10, <2>11, RunStep DEF Freeze
<1>3. QED BY <1>1, <1>2

LEMMA LooksOrEnds ==
  ASSUME StopInv, NEW r \in Runs, Look(r) \/ Raises(r) \/ Dies(r)
  PROVE  StopInv'
<1>. USE DEF StopInv
<1>1. CASE Look(r)
  <2>. DEFINE new == [run[r] EXCEPT !.phase = "candidate"]
  <2>1. run[r] \in RunType BY <1>1, RunIs DEF Look
  <2>2. new \in RunType /\ new.froze = run[r].froze /\ new.stop = run[r].stop
    BY <2>1 DEF RunType
  <2>3. run' = [run EXCEPT ![r] = new] BY <1>1 DEF Look
  <2>4. new.froze => /\ new.stop.status = "frozen" /\ FrozenFor(new.stop)
                     /\ position.stop.status = "provisional_first_day"
                     /\ \A o \in Runs \ {r} : ~run[o].froze
    BY <2>2, RunIs DEF Locks
  <2>. HIDE DEF new
  <2>5. QED BY <1>1, <2>2, <2>3, <2>4, RunStep DEF Look
<1>2. CASE Raises(r) BY <1>2, RunStep, Apart DEF Raises
<1>3. CASE Dies(r) BY <1>3, RunStep, Apart DEF Dies
<1>4. QED BY <1>1, <1>2, <1>3

-----------------------------------------------------------------------------
(* A run that ends: the stop it froze, or the one that was there.            *)
LEMMA Committed ==
  ASSUME StopInv, NEW r \in Runs, run[r] \in RunType, Commit(r),
         UNCHANGED <<minute, feed, exec, insertWorks>>
  PROVE  /\ position' \in [episode : 1 .. MaxEpisode, first_open : Nat, stop : StopType]
         /\ position'.episode = position.episode /\ position'.first_open = position.first_open
         /\ position'.stop = StopSeen(r)
         /\ position.stop.status = "frozen" => position'.stop = position.stop
         /\ run' \in [Runs -> {NoRun, LostRun} \cup RunType]
         /\ Locks'
<1>. USE DEF StopInv, feed
<1>1. position \in [episode : 1 .. MaxEpisode, first_open : Nat, stop : StopType]
  BY DEF Types
<1>2. StopSeen(r) \in StopType BY SeenIs
<1>3. position' = [position EXCEPT !.stop = StopSeen(r)] BY DEF Commit
<1>4. /\ position' \in [episode : 1 .. MaxEpisode, first_open : Nat, stop : StopType]
      /\ position'.episode = position.episode /\ position'.first_open = position.first_open
      /\ position'.stop = StopSeen(r)
  BY <1>1, <1>2, <1>3
<1>5. run[r].froze => position.stop.status # "frozen" BY DEF Locks
<1>6. position.stop.status = "frozen" => position'.stop = position.stop
  BY <1>4, <1>5 DEF StopSeen
<1>7. \A o \in Runs : run'[o] = IF o = r THEN NoRun ELSE run[o] BY DEF Commit, Types
<1>8. run' \in [Runs -> {NoRun, LostRun} \cup RunType] BY DEF Commit, Types
<1>9. \A stop : FrozenFor(stop) => FrozenFor(stop)'
  BY <1>4 DEF FrozenFor, FinalQuotes, Passed
<1>10. ~run[r].froze => position'.stop = position.stop BY <1>4 DEF StopSeen
<1>11. \A o \in Runs : run'[o].froze => run[o].froze /\ o # r /\ run'[o] = run[o]
  BY <1>7, Apart
<1>12. \A o \in Runs : run'[o].froze => position'.stop = position.stop
  BY <1>10, <1>11 DEF Locks
<1>13. FrozenForItsEpisode'
  <2>1. ASSUME NEW stop, FrozenFor(stop), stop = position'.stop PROVE FrozenForItsEpisode'
    <3>1. FrozenFor(stop)' BY <1>9, <2>1
    <3>2. QED BY <2>1, <3>1 DEF FrozenFor, FrozenForItsEpisode
  <2>2. CASE run[r].froze
    <3>1. FrozenFor(run[r].stop) /\ run[r].stop = position'.stop
      BY <1>4, <2>2 DEF Locks, StopSeen
    <3>2. QED BY <2>1, <3>1
  <2>3. CASE ~run[r].froze
    <3>1. CASE position.stop.status = "frozen"
      <4>1. FrozenFor(position.stop) BY <3>1 DEF Locks, FrozenForItsEpisode, FrozenFor
      <4>2. QED BY <1>10, <2>1, <2>3, <4>1
    <3>2. CASE position.stop.status # "frozen"
      BY <1>10, <2>3, <3>2 DEF FrozenForItsEpisode
    <3>3. QED BY <3>1, <3>2
  <2>4. QED BY <2>2, <2>3
<1>14. \A o, q \in Runs : run'[o].froze /\ run'[q].froze => o = q BY <1>11 DEF Locks
<1>15. \A o \in Runs : run'[o].froze =>
         /\ position'.stop.status = "provisional_first_day"
         /\ run'[o].stop.status = "frozen" /\ FrozenFor(run'[o].stop)
  BY <1>11, <1>12 DEF Locks
<1>16. Locks' BY <1>9, <1>13, <1>14, <1>15 DEF Locks
<1>17. QED BY <1>4, <1>6, <1>8, <1>16

LEMMA EndStep ==
  ASSUME StopInv, NEW r \in Runs, NoCandidate(r) \/ GivesUp(r)
  PROVE  StopInv'
<1>. USE DEF StopInv
<1>1. run[r] \in RunType BY RunIs DEF NoCandidate, GivesUp
<1>2. Commit(r) /\ UNCHANGED <<minute, feed, lots, proposal, exec, insertWorks>>
  BY DEF NoCandidate, GivesUp
<1>3. /\ position' \in [episode : 1 .. MaxEpisode, first_open : Nat, stop : StopType]
      /\ position'.episode = position.episode
      /\ position.stop.status = "frozen" => position'.stop = position.stop
      /\ run' \in [Runs -> {NoRun, LostRun} \cup RunType]
      /\ Locks'
  BY <1>1, <1>2, Committed
<1>4. Types' BY <1>2, <1>3 DEF Types, feed, Passed
<1>5. Episodes' BY <1>2, <1>3 DEF Episodes
<1>6. StopsFollowBreaches' /\ OneStopPerEpisode' /\ Order'
  BY <1>2 DEF StopsFollowBreaches, OneStopPerEpisode, Order, RearmNeedsRecovery, AtOrBelow, Above,
              Passed, feed
<1>7. QED BY <1>3, <1>4, <1>5, <1>6

-----------------------------------------------------------------------------
(* A new proposal: the next identifier, no other one of its episode under    *)
(* way, two breaches behind it and a recovery after the last.                *)
LEMMA NextIs ==
  ASSUME Types, HasId
  PROVE  /\ NextId \in Ids /\ proposal[NextId] = Absent
         /\ \A q \in Ids : proposal[q] = Absent => NextId <= q
<1>. DEFINE T == {p \in Ids : proposal[p] = Absent}
<1>1. T \in SUBSET Nat /\ T # {} BY Apart DEF HasId
<1>. HIDE DEF T
<1>2. Min(T) \in T /\ \A q \in T : Min(T) <= q BY <1>1, MinFacts
<1>3. QED BY <1>2 DEF T, NextId

LEMMA InsertStep ==
  ASSUME StopInv, NEW r \in Runs, Insert(r)
  PROVE  StopInv'
<1>. DEFINE n == NextId
            new == StopProposal(r)
            ep == position.episode
<1>. USE DEF StopInv
<1>1. run[r] \in RunType BY RunIs DEF Insert
<1>2. /\ Commit(r) /\ UNCHANGED <<minute, feed, lots, exec, insertWorks>>
      /\ proposal' = [proposal EXCEPT ![n] = new] /\ HasId
      /\ RowQualifies(StopSeen(r)) /\ Due(StopSeen(r))
  BY DEF Insert, Rechecked
<1>3. /\ position' \in [episode : 1 .. MaxEpisode, first_open : Nat, stop : StopType]
      /\ position'.episode = ep /\ position'.stop = StopSeen(r)
      /\ position.stop.status = "frozen" => position'.stop = position.stop
      /\ run' \in [Runs -> {NoRun, LostRun} \cup RunType]
      /\ Locks'
  BY <1>1, <1>2, Committed
<1>4. /\ n \in Ids /\ proposal[n] = Absent
      /\ \A q \in Ids : proposal[q] = Absent => n <= q
  BY <1>2, NextIs
<1>5. /\ AtOrBelow(Latest, StopSeen(r).price) /\ AtOrBelow(Latest - 1, StopSeen(r).price)
      /\ Armed(ep, StopSeen(r).price) /\ StopsOf(ep, Active) = {}
  BY <1>2 DEF Due, Breached
<1>6. StopSeen(r).status = "frozen" /\ StopSeen(r).price \in Prices
  BY <1>2, SeenIs, Apart DEF RowQualifies, StopType
<1>7. ep \in 1 .. MaxEpisode /\ minute \in Minutes /\ minute + Ttl \in Nat /\ 0 \in Minutes
  BY StopLossAssumption DEF Types, Minutes, Ttl
<1>8. /\ new \in ProposalType /\ new.status = "confirmed" /\ new.episode = ep
      /\ new.confirm = Latest /\ new.stop = StopSeen(r).price
  BY <1>5, <1>6, <1>7, LatestIn DEF StopProposal, ProposalType, Active
<1>. HIDE DEF n, new, ep
<1>9. /\ proposal' \in [Ids -> {Absent} \cup ProposalType]
      /\ \A p \in Ids : proposal'[p] = IF p = n THEN new ELSE proposal[p]
  BY <1>2, <1>8 DEF Types
<1>10. new # Absent BY <1>8, Apart
<1>11. Types'
  <2>1. exec = NoExec \/ (exec \in ExecType /\ proposal'[exec.proposal].status = "processing")
    <3>1. ASSUME exec \in ExecType, proposal[exec.proposal].status = "processing"
          PROVE  proposal'[exec.proposal].status = "processing"
      BY <1>4, <1>9, <3>1 DEF ExecType, Absent
    <3>2. QED BY <3>1 DEF Types
  <2>2. QED BY <1>2, <1>3, <1>9, <2>1 DEF Types, feed, Passed
<1>12. Episodes' BY <1>2, <1>3, <1>6, <1>8, <1>9 DEF Episodes, ep
<1>13. \A k, price : AtOrBelow(k, price) <=> AtOrBelow(k, price)'
  BY <1>2 DEF AtOrBelow, Passed, feed
<1>14. StopsFollowBreaches'
  <2>1. SUFFICES ASSUME NEW p \in Ids, proposal'[p] # Absent
                 PROVE  /\ AtOrBelow(proposal'[p].confirm - 1, proposal'[p].stop)
                        /\ AtOrBelow(proposal'[p].confirm, proposal'[p].stop)
                        /\ proposal'[p].status = "executed" =>
                             AtOrBelow(proposal'[p].quoted, proposal'[p].stop)
    BY <1>2 DEF StopsFollowBreaches, AtOrBelow, Passed, feed
  <2>2. CASE p = n BY <1>5, <1>8, <1>9, <2>2
  <2>3. CASE p # n BY <1>9, <2>1, <2>3 DEF StopsFollowBreaches
  <2>4. QED BY <2>2, <2>3
<1>15. \A p \in Ids : p # n /\ proposal[p] # Absent /\ proposal[p].episode = ep
                        => proposal[p].status \in Terminal
  <2>1. TAKE p \in Ids
  <2>2. proposal[p].status \in Active => p \in StopsOf(ep, Active) \/ proposal[p].episode # ep
    BY DEF StopsOf
  <2>3. proposal[p] # Absent => proposal[p].status \in Active \cup Terminal BY Present, Apart
  <2>4. QED BY <1>5, <2>2, <2>3 DEF ep
<1>16. OneStopPerEpisode'
  <2>1. SUFFICES ASSUME NEW p \in Ids, NEW q \in Ids, p # q,
                        proposal'[p].status \in Active, proposal'[q].status \in Active,
                        proposal'[p].episode = proposal'[q].episode
                 PROVE  FALSE
    BY DEF OneStopPerEpisode
  <2>2. ASSUME NEW o \in Ids, o # n, proposal'[o].status \in Active, proposal'[o].episode = ep
        PROVE  FALSE
    BY <1>9, <1>15, <2>2, Apart, Present
  <2>3. CASE p = n \/ q = n BY <1>8, <1>9, <2>1, <2>2, <2>3
  <2>4. CASE p # n /\ q # n BY <1>9, <2>1, <2>4 DEF OneStopPerEpisode
  <2>5. QED BY <2>3, <2>4
<1>17. Order'
  <2>1. \A q \in Ids : n < q => proposal[q] = Absent BY <1>4 DEF Order
  <2>2. \A q \in Ids : q < n => proposal[q] # Absent BY <1>4, Apart
  <2>3. \A p, q \in Ids : p < q /\ proposal'[q] # Absent =>
          p # n /\ proposal[p] # Absent /\ proposal'[p] = proposal[p]
    <3>1. TAKE p \in Ids, q \in Ids
    <3>2. HAVE p < q /\ proposal'[q] # Absent
    <3>3. p \in Nat /\ q \in Nat /\ n \in Nat BY <1>4, Apart
    <3>4. CASE q = n BY <1>9, <2>2, <3>2, <3>3, <3>4
    <3>5. CASE q # n
      <4>1. proposal[q] # Absent BY <1>9, <3>2, <3>5
      <4>2. QED BY <1>9, <2>1, <3>2, <4>1 DEF Order
    <3>6. QED BY <3>4, <3>5
  <2>4. \A p, q \in Ids :
          p < q /\ proposal'[q] # Absent /\ proposal'[p].episode = proposal'[q].episode
            => proposal'[p].status \in Terminal
    BY <1>8, <1>9, <1>15, <2>3 DEF Order
  <2>5. RearmNeedsRecovery'
    <3>1. SUFFICES ASSUME NEW p \in Ids, NEW q \in Ids, p < q, proposal'[q] # Absent,
                          proposal'[p].episode = proposal'[q].episode
                   PROVE  \E k \in Passed :
                            /\ k > proposal'[p].updated /\ k + 1 < proposal'[q].confirm - 1
                            /\ Above(k, proposal'[q].stop) /\ Above(k + 1, proposal'[q].stop)
      BY <1>2 DEF RearmNeedsRecovery, Above, Passed, feed
    <3>2. proposal'[p] = proposal[p] /\ p # n /\ proposal[p] # Absent BY <2>3, <3>1
    <3>3. CASE q # n
      BY <1>9, <3>1, <3>2, <3>3 DEF Order, RearmNeedsRecovery
    <3>4. CASE q = n
      <4>1. proposal'[q] = new BY <1>9, <3>4
      <4>2. proposal[p].episode = ep BY <1>8, <3>1, <3>2, <4>1
      <4>3. p \in StopsOf(ep, Terminal) BY <1>15, <3>2, <4>2 DEF StopsOf
      <4>. DEFINE l == LastTerminal(ep)
      <4>4. l \in StopsOf(ep, Terminal) /\ proposal[p].updated <= proposal[l].updated
        BY <4>3, LastIs
      <4>. HIDE DEF l
      <4>5. proposal[p].updated \in Nat /\ proposal[l].updated \in Nat
        BY <3>2, <4>4, Present, Apart DEF StopsOf, ProposalType
      <4>6. PICK k \in Passed :
              /\ k > proposal[l].updated /\ k + 1 < Latest - 1
              /\ Above(k, StopSeen(r).price) /\ Above(k + 1, StopSeen(r).price)
        BY <1>5, <4>3 DEF Armed, RecoveredSince, l
      <4>7. k \in Nat BY Apart DEF Passed
      <4>8. k > proposal[p].updated BY <4>4, <4>5, <4>6, <4>7
      <4>9. QED BY <1>8, <3>2, <4>1, <4>6, <4>8
    <3>5. QED BY <3>3, <3>4
  <2>6. QED BY <1>10, <2>3, <2>4, <2>5, <1>9 DEF Order
<1>18. QED BY <1>3, <1>11, <1>12, <1>14, <1>16, <1>17

-----------------------------------------------------------------------------
(* A proposal that is under way gets another status: its episode, its stop   *)
(* and its breaches stay.                                                    *)
LEMMA MarkStep ==
  ASSUME StopInv, NEW p \in Ids, NEW new \in ProposalType,
         proposal[p].status \in Active,
         new.episode = proposal[p].episode, new.confirm = proposal[p].confirm,
         new.stop = proposal[p].stop,
         new.status = "executed" => AtOrBelow(new.quoted, new.stop),
         proposal' = [proposal EXCEPT ![p] = new],
         UNCHANGED <<minute, feed, position, run, insertWorks>>,
         \/ exec' = NoExec
         \/ exec' \in ExecType /\ proposal'[exec'.proposal].status = "processing"
  PROVE  StopInv'
<1>. USE DEF StopInv, feed
<1>1. /\ proposal' \in [Ids -> {Absent} \cup ProposalType]
      /\ \A q \in Ids : proposal'[q] = IF q = p THEN new ELSE proposal[q]
  BY DEF Types
<1>2. new # Absent /\ proposal[p] # Absent BY Present, Apart
<1>3. Types' BY <1>1 DEF Types, Passed
<1>4. Locks' BY DEF Locks, FrozenFor, FrozenForItsEpisode, FinalQuotes, Passed
<1>5. Episodes' BY <1>1, <1>2 DEF Episodes
<1>6. StopsFollowBreaches'
  <2>1. SUFFICES ASSUME NEW q \in Ids, proposal'[q] # Absent
                 PROVE  /\ AtOrBelow(proposal'[q].confirm - 1, proposal'[q].stop)
                        /\ AtOrBelow(proposal'[q].confirm, proposal'[q].stop)
                        /\ proposal'[q].status = "executed" =>
                             AtOrBelow(proposal'[q].quoted, proposal'[q].stop)
    BY DEF StopsFollowBreaches, AtOrBelow, Passed
  <2>2. CASE q = p BY <1>1, <1>2, <2>2 DEF StopsFollowBreaches
  <2>3. CASE q # p BY <1>1, <2>1, <2>3 DEF StopsFollowBreaches
  <2>4. QED BY <2>2, <2>3
<1>7. \A q \in Ids : /\ proposal'[q].episode = proposal[q].episode
                     /\ proposal'[q].status \in Active => proposal[q].status \in Active
                     /\ proposal'[q] = Absent <=> proposal[q] = Absent
  BY <1>1, <1>2
<1>8. OneStopPerEpisode'
  <2>1. SUFFICES ASSUME NEW q \in Ids, NEW o \in Ids,
                        proposal'[q].status \in Active, proposal'[o].status \in Active,
                        proposal'[q].episode = proposal'[o].episode
                 PROVE  q = o
    BY DEF OneStopPerEpisode
  <2>2. QED BY <1>7, <2>1 DEF OneStopPerEpisode
<1>9. Order'
  <2>1. \A o, q \in Ids :
          o < q /\ proposal'[q] # Absent /\ proposal'[o].episode = proposal'[q].episode
            => proposal'[o] = proposal[o] /\ proposal[o].status \in Terminal
    BY <1>1, <1>7, Apart DEF Order
  <2>2. \A o, q \in Ids : o < q /\ proposal'[q] # Absent => proposal'[o] # Absent
    BY <1>7 DEF Order
  <2>3. \A q \in Ids : proposal'[q] # Absent =>
          proposal'[q].confirm = proposal[q].confirm /\ proposal'[q].stop = proposal[q].stop
    BY <1>1
  <2>4. RearmNeedsRecovery'
    <3>1. SUFFICES ASSUME NEW o \in Ids, NEW q \in Ids, o < q, proposal'[q] # Absent,
                          proposal'[o].episode = proposal'[q].episode
                   PROVE  \E k \in Passed :
                            /\ k > proposal'[o].updated /\ k + 1 < proposal'[q].confirm - 1
                            /\ Above(k, proposal'[q].stop) /\ Above(k + 1, proposal'[q].stop)
      BY DEF RearmNeedsRecovery, Above, Passed
    <3>2. proposal[q] # Absent /\ proposal[o].episode = proposal[q].episode BY <1>7, <3>1
    <3>3. QED BY <2>1, <2>3, <3>1, <3>2 DEF Order, RearmNeedsRecovery
  <2>5. QED BY <2>1, <2>2, <2>4 DEF Order
<1>10. QED BY <1>3, <1>4, <1>5, <1>6, <1>8, <1>9

LEMMA ProposalStep ==
  ASSUME StopInv, NEW p \in Ids, Cancel(p) \/ Claim(p) \/ Sell(p) \/ Fail(p)
  PROVE  StopInv'
<1>. USE DEF StopInv
<1>1. CASE Cancel(p)
  <2>. DEFINE new == [proposal[p] EXCEPT !.status = "rejected", !.updated = minute]
  <2>1. proposal[p] \in ProposalType /\ proposal[p].status \in Active /\ proposal[p].status = "confirmed"
    BY <1>1, Present DEF Cancel, Active
  <2>2. /\ new \in ProposalType /\ new.status = "rejected" /\ new.episode = proposal[p].episode
        /\ new.confirm = proposal[p].confirm /\ new.stop = proposal[p].stop
    BY <2>1 DEF ProposalType, Terminal, Types
  <2>3. proposal' = [proposal EXCEPT ![p] = new]
    BY <1>1 DEF Cancel
  <2>. HIDE DEF new
  <2>4. exec' = NoExec \/ (exec' \in ExecType /\ proposal'[exec'.proposal].status = "processing")
    BY <1>1, <2>1, <2>3 DEF Cancel, Types, ExecType
  <2>5. UNCHANGED <<minute, feed, position, run, insertWorks>> BY <1>1 DEF Cancel
  <2>6. QED BY <2>1, <2>2, <2>3, <2>4, <2>5, MarkStep
<1>2. CASE Claim(p)
  <2>. DEFINE new == [proposal[p] EXCEPT !.status = "processing"]
  <2>1. proposal[p] \in ProposalType /\ proposal[p].status \in Active /\ proposal[p].status = "confirmed"
    BY <1>2, Present DEF Claim, Active
  <2>2. /\ new \in ProposalType /\ new.status = "processing" /\ new.episode = proposal[p].episode
        /\ new.confirm = proposal[p].confirm /\ new.stop = proposal[p].stop
    BY <2>1 DEF ProposalType, Active
  <2>3. proposal' = [proposal EXCEPT ![p] = new] BY <1>2 DEF Claim
  <2>4. proposal'[p] = new BY <2>3 DEF Types
  <2>. HIDE DEF new
  <2>5. exec' \in ExecType /\ exec'.proposal = p BY <1>2 DEF Claim, ExecType, Types
  <2>6. UNCHANGED <<minute, feed, position, run, insertWorks>> BY <1>2 DEF Claim
  <2>7. QED BY <2>1, <2>2, <2>3, <2>4, <2>5, <2>6, MarkStep
<1>3. ASSUME Applies(p)
      PROVE  /\ proposal[p] \in ProposalType /\ proposal[p].status \in Active
             /\ proposal[p].status = "processing" /\ exec.at \in Minutes /\ exec' = NoExec
  <2>1. exec \in ExecType /\ proposal[p].status = "processing"
    BY <1>3 DEF Applies, Types, NoExec
  <2>2. QED BY <1>3, <2>1, Present DEF Applies, Active, ExecType
<1>4. CASE Sell(p)
  <2>. DEFINE new == [proposal[p] EXCEPT !.status = "executed", !.updated = exec.at, !.quoted = Latest]
  <2>1. Applies(p) /\ StillDue(p) /\ Latest \in Passed BY <1>4 DEF Sell, Applies, LatestFresh
  <2>2. Latest \in Minutes BY <2>1 DEF Passed
  <2>3. /\ new \in ProposalType /\ new.status = "executed" /\ new.episode = proposal[p].episode
        /\ new.confirm = proposal[p].confirm /\ new.stop = proposal[p].stop /\ new.quoted = Latest
    BY <1>3, <2>1, <2>2 DEF ProposalType, Active
  <2>4. proposal' = [proposal EXCEPT ![p] = new] BY <1>4 DEF Sell
  <2>. HIDE DEF new
  <2>5. proposal[p].stop = position.stop.price BY <1>3, <2>1, Present DEF StillDue, Episodes
  <2>6. AtOrBelow(new.quoted, new.stop) BY <2>1, <2>3, <2>5 DEF StillDue, AtOrBelow
  <2>7. UNCHANGED <<minute, feed, position, run, insertWorks>> BY <1>4 DEF Sell
  <2>8. QED BY <1>3, <2>1, <2>3, <2>4, <2>6, <2>7, MarkStep
<1>5. CASE Fail(p)
  <2>. DEFINE new == [proposal[p] EXCEPT !.status = "failed", !.updated = exec.at]
  <2>1. Applies(p) BY <1>5 DEF Fail
  <2>2. /\ new \in ProposalType /\ new.status = "failed" /\ new.episode = proposal[p].episode
        /\ new.confirm = proposal[p].confirm /\ new.stop = proposal[p].stop
    BY <1>3, <2>1 DEF ProposalType, Terminal
  <2>3. proposal' = [proposal EXCEPT ![p] = new] BY <1>5 DEF Fail
  <2>. HIDE DEF new
  <2>4. UNCHANGED <<minute, feed, position, run, insertWorks>> BY <1>5 DEF Fail
  <2>5. QED BY <1>3, <2>1, <2>2, <2>3, <2>4, MarkStep
<1>6. QED BY <1>1, <1>2, <1>4, <1>5

LEMMA CheckStep ==
  ASSUME StopInv, NEW p \in Ids, Check(p)
  PROVE  StopInv'
<1>. USE DEF StopInv, feed
<1>1. exec \in ExecType /\ proposal[exec.proposal].status = "processing"
  BY DEF Check, Types, NoExec
<1>2. exec' \in ExecType /\ proposal'[exec'.proposal].status = "processing"
  BY <1>1 DEF Check, ExecType
<1>3. UNCHANGED <<minute, quote, low, position, lots, proposal, run, insertWorks>> BY DEF Check
<1>4. Types' BY <1>2, <1>3 DEF Types, Passed
<1>5. Locks' BY <1>3 DEF Locks, FrozenFor, FrozenForItsEpisode, FinalQuotes, Passed
<1>6. Episodes' /\ StopsFollowBreaches' /\ OneStopPerEpisode' /\ Order'
  BY <1>3 DEF Episodes, StopsFollowBreaches, OneStopPerEpisode, Order, RearmNeedsRecovery, AtOrBelow,
              Above, Passed
<1>7. QED BY <1>4, <1>5, <1>6

LEMMA UndoStep ==
  ASSUME StopInv, Undo
  PROVE  StopInv'
<1>. DEFINE p == exec.proposal
            new == [proposal[p] EXCEPT !.status = "confirmed"]
<1>. USE DEF StopInv
<1>1. p \in Ids /\ proposal[p].status = "processing" BY DEF Undo, Types, ExecType
<1>2. proposal[p] \in ProposalType /\ proposal[p].status \in Active BY <1>1, Present DEF Active
<1>3. /\ new \in ProposalType /\ new.status = "confirmed" /\ new.episode = proposal[p].episode
      /\ new.confirm = proposal[p].confirm /\ new.stop = proposal[p].stop
  BY <1>2 DEF ProposalType, Active
<1>4. proposal' = [proposal EXCEPT ![p] = new] BY DEF Undo
<1>5. exec' = NoExec /\ UNCHANGED <<minute, feed, position, run, insertWorks>> BY DEF Undo
<1>. HIDE DEF new, p
<1>6. QED BY <1>1, <1>2, <1>3, <1>4, <1>5, MarkStep

-----------------------------------------------------------------------------
(* Time and the other fills.                                                 *)
LEMMA AdvanceStep ==
  ASSUME StopInv, Advance \/ SellFill \/ UNCHANGED vars
  PROVE  StopInv'
<1>. USE DEF StopInv, feed
<1>1. UNCHANGED <<quote, low, position, proposal, run, exec, insertWorks>>
  BY DEF Advance, SellFill, vars
<1>2. minute' \in Minutes BY StopLossAssumption DEF Advance, SellFill, vars, Types, Minutes
<1>3. Types' BY <1>1, <1>2 DEF Types, Passed
<1>4. Locks' BY <1>1 DEF Locks, FrozenFor, FrozenForItsEpisode, FinalQuotes, Passed
<1>5. Episodes' /\ StopsFollowBreaches' /\ OneStopPerEpisode' /\ Order'
  BY <1>1 DEF Episodes, StopsFollowBreaches, OneStopPerEpisode, Order, RearmNeedsRecovery,
              AtOrBelow, Above, Passed
<1>6. QED BY <1>3, <1>4, <1>5

LEMMA BuyStep ==
  ASSUME StopInv, BuyFill
  PROVE  StopInv'
<1>. USE DEF StopInv, feed
<1>1. UNCHANGED <<minute, quote, low, proposal, run, exec, insertWorks>> BY DEF BuyFill
<1>2. CASE position' = position
  <2>1. Types' BY <1>1, <1>2 DEF Types, Passed
  <2>2. Locks' BY <1>1, <1>2 DEF Locks, FrozenFor, FrozenForItsEpisode, FinalQuotes, Passed
  <2>3. Episodes' /\ StopsFollowBreaches' /\ OneStopPerEpisode' /\ Order'
    BY <1>1, <1>2 DEF Episodes, StopsFollowBreaches, OneStopPerEpisode, Order, RearmNeedsRecovery,
                      AtOrBelow, Above, Passed
  <2>4. QED BY <2>1, <2>2, <2>3
<1>3. CASE /\ position.episode < MaxEpisode
           /\ position' = [episode |-> position.episode + 1, first_open |-> Today, stop |-> NoStop]
  <2>1. Today \in Nat BY StopLossAssumption DEF Today, Types
  <2>2. /\ position' \in [episode : 1 .. MaxEpisode, first_open : Nat, stop : StopType]
        /\ position'.episode = position.episode + 1 /\ position'.stop = NoStop
    BY <1>3, <2>1, StopLossAssumption DEF Types, StopType
  <2>3. Types' BY <1>1, <2>2 DEF Types, Passed
  <2>4. \A r \in Runs : ~run'[r].froze BY <1>1 DEF BuyFill, Unlocked
  <2>5. Locks' BY <2>2, <2>4, Apart DEF Locks, FrozenForItsEpisode
  <2>6. \A p \in Ids : proposal[p] # Absent => proposal[p].episode < position'.episode
    <3>1. \A p \in Ids : proposal[p] # Absent => proposal[p].episode \in Nat
      BY Present DEF ProposalType
    <3>2. position.episode \in Nat BY DEF Types
    <3>3. QED BY <2>2, <3>1, <3>2 DEF Episodes
  <2>7. Episodes'
    <3>1. \A p \in Ids : proposal[p] # Absent => proposal[p].episode \in Nat
      BY Present DEF ProposalType
    <3>2. position'.episode \in Nat BY <2>2
    <3>3. QED BY <1>1, <2>6, <3>1, <3>2 DEF Episodes
  <2>8. StopsFollowBreaches' /\ OneStopPerEpisode' /\ Order'
    BY <1>1 DEF StopsFollowBreaches, OneStopPerEpisode, Order, RearmNeedsRecovery, AtOrBelow,
                Above, Passed
  <2>9. QED BY <2>3, <2>5, <2>7, <2>8
<1>4. QED BY <1>2, <1>3 DEF BuyFill, StopReset

LEMMA StopNext == StopInv /\ [Next]_vars => StopInv'
<1>. SUFFICES ASSUME StopInv, [Next]_vars PROVE StopInv' OBVIOUS
<1>1. CASE Advance \/ SellFill \/ UNCHANGED vars BY <1>1, AdvanceStep
<1>2. CASE Record BY <1>2, RecordStep
<1>3. ASSUME NEW r \in Runs, StopLossRun(r) PROVE StopInv'
  BY <1>3, FreezeStep, LooksOrEnds, EndStep, InsertStep DEF StopLossRun
<1>4. CASE BuyFill BY <1>4, BuyStep
<1>5. ASSUME NEW p \in Ids, Cancel(p) \/ Claim(p) \/ Sell(p) \/ Fail(p) PROVE StopInv'
  BY <1>5, ProposalStep
<1>6. CASE Undo BY <1>6, UndoStep
<1>7. ASSUME NEW p \in Ids, Check(p) PROVE StopInv' BY <1>7, CheckStep
<1>8. QED BY <1>1, <1>2, <1>3, <1>4, <1>5, <1>6, <1>7 DEF Next

LEMMA StopAlways == Spec => []StopInv
BY StopInit, StopNext, PTL DEF Spec

-----------------------------------------------------------------------------
LEMMA StopTypes == StopInv => TypeOK
<1>. SUFFICES ASSUME StopInv PROVE TypeOK OBVIOUS
<1>. USE DEF StopInv
<1>1. position.stop \in StopType BY DEF Types
<1>2. position.stop = NoStop \/ (position.stop.status = "frozen" /\ position.stop.price \in Prices)
  BY <1>1 DEF StopType
<1>3. position.stop \in Stops BY <1>1 DEF StopType, Stops, NoStop
<1>4. position \in [episode : 1 .. MaxEpisode, first_open : Nat, stop : Stops]
  BY <1>3 DEF Types
<1>5. \A price \in Prices : price > 0 BY StopLossAssumption
<1>6. \A p \in Ids : proposal[p].status \in {"absent"} \cup Active \cup Terminal
  BY Apart DEF Types, Absent
<1>7. QED BY <1>2, <1>4, <1>5, <1>6, Apart DEF Types, TypeOK

(* Types, for any number of runs, minutes, proposals and episodes.           *)
THEOREM StopTypesAlways == Spec => []TypeOK
BY StopAlways, StopTypes, PTL

(* A frozen stop is the low of the first day of the episode it protects,     *)
(* whatever runs, fills and late quotes race: the run that freezes it holds  *)
(* the row until it commits, and a row of the window never changes.          *)
THEOREM FrozenAlways == Spec => []FrozenForItsEpisode
<1>1. StopInv => FrozenForItsEpisode BY DEF StopInv, Locks
<1>2. QED BY <1>1, StopAlways, PTL

(* One stop proposal of an episode is live or executed, however many runs    *)
(* saw the breach on one snapshot.                                           *)
THEOREM OneStopAlways == Spec => []OneStopPerEpisode
<1>1. StopInv => OneStopPerEpisode BY DEF StopInv
<1>2. QED BY <1>1, StopAlways, PTL

(* Every stop proposal stands on two adjacent breaches and sells at or below *)
(* its stop.                                                                 *)
THEOREM BreachesAlways == Spec => []StopsFollowBreaches
<1>1. StopInv => StopsFollowBreaches BY DEF StopInv
<1>2. QED BY <1>1, StopAlways, PTL

(* Between a stop proposal that came to nothing and the next of its episode  *)
(* the price was above the stop for two adjacent minutes.                    *)
THEOREM RearmAlways == Spec => []RearmNeedsRecovery
<1>1. StopInv => RearmNeedsRecovery BY DEF StopInv, Order
<1>2. QED BY <1>1, StopAlways, PTL

-----------------------------------------------------------------------------
(* The refinement of StopOrder.  A run that froze the position holds its row *)
(* lock, so nobody sells it before the stop is committed.                    *)
HeldInv == \A r \in Runs : run[r].froze => Open

LEMMA HeldNext ==
  StopInv /\ HeldInv /\ [Next]_vars => HeldInv'
<1>. SUFFICES ASSUME StopInv, HeldInv, [Next]_vars PROVE HeldInv' OBVIOUS
<1>. USE DEF StopInv
<1>1. ASSUME run' = run, Open => Open' PROVE HeldInv' BY <1>1 DEF HeldInv
<1>2. ASSUME run' = run, Unlocked PROVE HeldInv' BY <1>2 DEF HeldInv, Unlocked
<1>3. ASSUME NEW r \in Runs, NEW new, run' = [run EXCEPT ![r] = new], lots' = lots,
             new.froze => Open
      PROVE  HeldInv'
  BY <1>3 DEF HeldInv, Types, Open
<1>4. ASSUME NEW r \in Runs, StopLossRun(r) PROVE HeldInv'
  <2>1. CASE Freeze(r)
    <3>1. CASE Freezable(r)
      <4>1. run' = [run EXCEPT ![r] = [phase |-> "freeze", froze |-> TRUE, stop |-> Frozen]]
            /\ lots' = lots /\ Open
        BY <2>1, <3>1 DEF Freeze, Freezable
      <4>2. QED BY <1>3, <4>1
    <3>2. CASE ~Freezable(r)
      <4>1. run' = [run EXCEPT ![r] = [phase |-> "freeze", froze |-> FALSE, stop |-> NoStop]]
            /\ lots' = lots
        BY <2>1, <3>2 DEF Freeze
      <4>2. ~[phase |-> "freeze", froze |-> FALSE, stop |-> NoStop].froze OBVIOUS
      <4>3. QED BY <1>3, <4>1, <4>2
    <3>3. QED BY <3>1, <3>2
  <2>2. CASE Look(r)
    <3>1. [run[r] EXCEPT !.phase = "candidate"].froze = run[r].froze
      BY <2>2, RunIs DEF Look, RunType
    <3>2. run' = [run EXCEPT ![r] = [run[r] EXCEPT !.phase = "candidate"]] /\ lots' = lots
      BY <2>2 DEF Look
    <3>3. QED BY <1>3, <3>1, <3>2 DEF HeldInv
  <2>3. CASE NoCandidate(r) \/ Insert(r) \/ GivesUp(r)
    BY <1>3, <2>3, Apart DEF NoCandidate, Insert, GivesUp, Commit
  <2>4. CASE Raises(r) BY <1>3, <2>4, Apart DEF Raises
  <2>5. CASE Dies(r) BY <1>3, <2>5, Apart DEF Dies
  <2>6. QED BY <1>4, <2>1, <2>2, <2>3, <2>4, <2>5 DEF StopLossRun
<1>5. CASE Advance \/ Record \/ UNCHANGED vars BY <1>1, <1>5 DEF Advance, Record, vars, Open
<1>6. CASE BuyFill BY <1>1, <1>6 DEF BuyFill, Open
<1>7. CASE SellFill BY <1>2, <1>7 DEF SellFill
<1>8. ASSUME NEW p \in Ids, Cancel(p) \/ Claim(p) \/ Sell(p) \/ Fail(p) PROVE HeldInv'
  BY <1>1, <1>2, <1>8 DEF Cancel, Claim, Sell, Fail, Applies, Open
<1>9. CASE Undo BY <1>1, <1>9 DEF Undo, Open
<1>10. ASSUME NEW p \in Ids, Check(p) PROVE HeldInv' BY <1>1, <1>10 DEF Check, Open
<1>11. QED BY <1>4, <1>5, <1>6, <1>7, <1>8, <1>9, <1>10 DEF Next

(* A stop has a price exactly when it is frozen.                             *)
LEMMA PriceOf ==
  ASSUME NEW stop \in StopType
  PROVE  /\ stop.status = "frozen" => stop.price \in Prices /\ stop.price # 0
         /\ stop.status # "frozen" => stop.price = 0
         /\ stop.status \in {"frozen", "provisional_first_day"}
BY StopLossAssumption DEF StopType, NoStop

LEMMA SameOrders ==
  ASSUME UNCHANGED <<position, proposal>>, Open' = Open
  PROVE  UNCHANGED Orders!ovars
<1>1. \A e : OrderOf(e)' = OrderOf(e) BY DEF OrderOf, StopsOf
<1>2. QED BY <1>1 DEF Orders!ovars

(* The order of an episode follows the one proposal of it that is live or    *)
(* executed.                                                                 *)
LEMMA OrderIs ==
  ASSUME StopInv, NEW p \in Ids, proposal[p].status \in Active
  PROVE  OrderOf(proposal[p].episode) =
           IF proposal[p].status = "executed" THEN "sold" ELSE "placed"
<1>1. \A q \in Ids : proposal[q].status \in Active /\ proposal[q].episode = proposal[p].episode
        => q = p
  BY DEF StopInv, OneStopPerEpisode
<1>2. CASE proposal[p].status = "executed"
  BY <1>2 DEF OrderOf, StopsOf
<1>3. CASE proposal[p].status # "executed"
  <2>1. StopsOf(proposal[p].episode, {"executed"}) = {} BY <1>1, <1>3 DEF StopsOf, Active
  <2>2. p \in StopsOf(proposal[p].episode, {"confirmed", "processing"})
    BY <1>3 DEF StopsOf, Active
  <2>3. QED BY <1>3, <2>1, <2>2 DEF OrderOf
<1>4. QED BY <1>2, <1>3

LEMMA MarkOrder ==
  ASSUME StopInv, StopInv', NEW p \in Ids, NEW new, proposal[p].status \in Active,
         new.episode = proposal[p].episode, new.status \in Active \cup Terminal,
         proposal' = [proposal EXCEPT ![p] = new]
  PROVE  \A e \in 1 .. MaxEpisode :
           OrderOf(e)' = IF e # proposal[p].episode THEN OrderOf(e)
                         ELSE IF new.status = "executed" THEN "sold"
                         ELSE IF new.status \in Active THEN "placed" ELSE "none"
<1>1. \A q \in Ids : proposal'[q] = IF q = p THEN new ELSE proposal[q] BY DEF StopInv, Types
<1>2. SUFFICES ASSUME NEW e \in 1 .. MaxEpisode
               PROVE  OrderOf(e)' = IF e # proposal[p].episode THEN OrderOf(e)
                         ELSE IF new.status = "executed" THEN "sold"
                         ELSE IF new.status \in Active THEN "placed" ELSE "none"
  OBVIOUS
<1>3. CASE e # proposal[p].episode
  <2>1. \A statuses : StopsOf(e, statuses)' = StopsOf(e, statuses)
    BY <1>1, <1>3 DEF StopsOf
  <2>2. QED BY <1>3, <2>1 DEF OrderOf
<1>4. CASE e = proposal[p].episode /\ new.status \in Active
  <2>1. \A q \in Ids : proposal'[q].status \in Active /\ proposal'[q].episode = e => q = p
    BY <1>1, <1>4 DEF StopInv, OneStopPerEpisode
  <2>2. proposal'[p].status = new.status /\ proposal'[p].episode = e BY <1>1, <1>4
  <2>3. CASE new.status = "executed"
    <3>1. StopsOf(e, {"executed"})' # {} BY <2>2, <2>3 DEF StopsOf
    <3>2. QED BY <1>4, <2>3, <3>1 DEF OrderOf
  <2>4. CASE new.status # "executed"
    <3>1. StopsOf(e, {"executed"})' = {} BY <2>1, <2>2, <2>4 DEF StopsOf, Active
    <3>2. StopsOf(e, {"confirmed", "processing"})' # {} BY <1>4, <2>2, <2>4 DEF StopsOf, Active
    <3>3. QED BY <1>4, <2>4, <3>1, <3>2 DEF OrderOf
  <2>5. QED BY <2>3, <2>4
<1>5. CASE e = proposal[p].episode /\ new.status \notin Active
  <2>1. \A q \in Ids : proposal[q].status \in Active /\ proposal[q].episode = e => q = p
    BY <1>5 DEF StopInv, OneStopPerEpisode
  <2>2. \A q \in Ids : ~(proposal'[q].status \in Active /\ proposal'[q].episode = e)
    BY <1>1, <1>5, <2>1
  <2>3. StopsOf(e, {"executed"})' = {} /\ StopsOf(e, {"confirmed", "processing"})' = {}
    BY <2>2 DEF StopsOf, Active
  <2>4. new.status # "executed" BY <1>5 DEF Active
  <2>5. QED BY <1>5, <2>3, <2>4 DEF OrderOf
<1>6. QED BY <1>3, <1>4, <1>5

LEMMA EpisodeIs ==
  ASSUME StopInv
  PROVE  /\ position.episode \in 1 .. MaxEpisode /\ position.stop \in StopType
         /\ \A p \in Ids : proposal[p].status \in Active \cup Terminal =>
              proposal[p].episode \in 1 .. MaxEpisode
BY Present DEF StopInv, Types, ProposalType

(* A run that ends without an order commits the stop it froze, if any.       *)
LEMMA EndOrder ==
  ASSUME StopInv, HeldInv, NEW r \in Runs, NoCandidate(r) \/ GivesUp(r)
  PROVE  Orders!Next \/ UNCHANGED Orders!ovars
<1>1. run[r] \in RunType BY RunIs DEF NoCandidate, GivesUp, StopInv
<1>2. Commit(r) /\ UNCHANGED <<minute, feed, lots, proposal, exec, insertWorks>>
  BY DEF NoCandidate, GivesUp
<1>3. position'.episode = position.episode /\ position'.stop = StopSeen(r)
  BY <1>1, <1>2, Committed
<1>4. \A e : OrderOf(e)' = OrderOf(e) BY <1>2 DEF OrderOf, StopsOf
<1>5. Open' = Open BY <1>2 DEF Open
<1>6. CASE run[r].froze
  <2>1. position.stop.status # "frozen" /\ run[r].stop.status = "frozen"
    BY <1>6 DEF StopInv, Locks
  <2>2. position.stop.price = 0 BY <2>1, PriceOf, EpisodeIs
  <2>3. run[r].stop.price \in Prices BY <1>1, <2>1, PriceOf DEF RunType
  <2>4. position'.stop.price = run[r].stop.price BY <1>3, <1>6 DEF StopSeen
  <2>5. Open BY <1>6 DEF HeldInv
  <2>6. Orders!Protect(run[r].stop.price) BY <1>3, <1>4, <1>5, <2>2, <2>4, <2>5 DEF Orders!Protect
  <2>7. QED BY <2>3, <2>6 DEF Orders!Next
<1>7. CASE ~run[r].froze
  BY <1>3, <1>4, <1>5, <1>7 DEF StopSeen, Orders!ovars
<1>8. QED BY <1>6, <1>7

LEMMA InsertOrder ==
  ASSUME StopInv, StopInv', NEW r \in Runs, Insert(r)
  PROVE  Orders!Next
<1>1. run[r] \in RunType BY RunIs DEF Insert, StopInv
<1>2. PICK ep \in 1 .. MaxEpisode : ep = position.episode BY EpisodeIs
<1>3. PICK n \in Ids : n = NextId /\ proposal[n] = Absent BY NextIs DEF StopInv, Insert
<1>p. PICK new, price : new = StopProposal(r) /\ price = StopSeen(r).price OBVIOUS
<1>4. /\ Commit(r) /\ UNCHANGED <<minute, feed, lots, exec, insertWorks>>
      /\ proposal' = [proposal EXCEPT ![n] = new]
      /\ RowQualifies(StopSeen(r)) /\ StopsOf(ep, Active) = {}
  BY <1>2, <1>3, <1>p DEF Insert, Rechecked, Due
<1>5. position'.episode = ep /\ position'.stop = StopSeen(r)
  BY <1>1, <1>2, <1>4, Committed
<1>6. new.status = "confirmed" /\ new.episode = ep BY <1>2, <1>3, <1>p DEF StopProposal
<1>7. price \in Prices BY <1>3, <1>p, <1>4, SeenIs, PriceOf DEF RowQualifies, StopInv
<1>8. position.stop.price \in {0, price}
  <2>1. CASE run[r].froze
    <3>1. position.stop.status # "frozen" BY <2>1 DEF StopInv, Locks
    <3>2. QED BY <3>1, PriceOf, EpisodeIs
  <2>2. CASE ~run[r].froze BY <1>3, <1>p, <2>2 DEF StopSeen
  <2>3. QED BY <2>1, <2>2
<1>9. \A q \in Ids : proposal'[q] = IF q = n THEN new ELSE proposal[q]
  BY <1>4 DEF StopInv, Types
<1>10. proposal[n].status \notin Active BY <1>3, <1>p, Apart DEF Absent, Active
<1>11. ASSUME NEW e, e # ep, NEW statuses \in SUBSET Active
       PROVE  StopsOf(e, statuses)' = StopsOf(e, statuses)
  BY <1>6, <1>9, <1>10, <1>11 DEF StopsOf
<1>12. \A e : e # ep => OrderOf(e)' = OrderOf(e)
  <2>1. {"executed"} \in SUBSET Active /\ {"confirmed", "processing"} \in SUBSET Active
    BY DEF Active
  <2>2. QED BY <1>11, <2>1 DEF OrderOf
<1>13. OrderOf(ep) = "none" BY <1>4 DEF OrderOf, StopsOf, Active
<1>14. OrderOf(ep)' = "placed"
  <2>1. n \in StopsOf(ep, {"confirmed", "processing"})' BY <1>6, <1>9 DEF StopsOf
  <2>2. \A q \in Ids : proposal'[q].status \in Active /\ proposal'[q].episode = ep => q = n
    BY <1>4, <1>9 DEF StopsOf
  <2>3. StopsOf(ep, {"executed"})' = {} BY <1>6, <1>9, <2>2 DEF StopsOf, Active
  <2>4. QED BY <2>1, <2>3 DEF OrderOf
<1>15. Open /\ Open' = Open BY <1>4 DEF RowQualifies, Open
<1>16. Orders!Place(price)
  BY <1>2, <1>3, <1>p, <1>5, <1>8, <1>12, <1>13, <1>14, <1>15 DEF Orders!Place
<1>17. QED BY <1>7, <1>16 DEF Orders!Next

LEMMA FillOrder ==
  ASSUME StopInv, BuyFill \/ SellFill
  PROVE  Orders!Next \/ UNCHANGED Orders!ovars
<1>1. proposal' = proposal BY DEF BuyFill, SellFill
<1>2. \A e : OrderOf(e)' = OrderOf(e) BY <1>1 DEF OrderOf, StopsOf
<1>3. CASE BuyFill /\ Open
  <2>1. Open' /\ position' = position BY <1>3 DEF BuyFill, Open
  <2>2. QED BY <1>2, <1>3, <2>1, SameOrders, <1>1
<1>4. CASE BuyFill /\ ~Open
  <2>1. /\ position.episode < MaxEpisode
        /\ position' = [episode |-> position.episode + 1, first_open |-> Today, stop |-> NoStop]
        /\ Open'
    BY <1>4 DEF BuyFill, StopReset, Open
  <2>2. position.episode + 1 \in 1 .. MaxEpisode
    BY <2>1, EpisodeIs, StopLossAssumption
  <2>3. Orders!Reopen BY <1>2, <1>4, <2>1, <2>2 DEF Orders!Reopen, NoStop, Open
  <2>4. QED BY <2>3 DEF Orders!Next
<1>5. CASE SellFill
  <2>1. Open /\ position' = position BY <1>5 DEF SellFill, Matured, Open
  <2>2. CASE Open' BY <1>1, <2>1, <2>2, SameOrders DEF Open
  <2>3. CASE ~Open'
    <3>1. Orders!Close BY <1>2, <2>1, <2>3 DEF Orders!Close, Open
    <3>2. QED BY <3>1 DEF Orders!Next
  <2>4. QED BY <2>2, <2>3
<1>6. QED BY <1>3, <1>4, <1>5

LEMMA ProposalOrder ==
  ASSUME StopInv, StopInv', NEW p \in Ids, Cancel(p) \/ Claim(p) \/ Sell(p) \/ Fail(p)
  PROVE  Orders!Next \/ UNCHANGED Orders!ovars
<1>. DEFINE ep == proposal[p].episode
<1>1. proposal[p].status \in {"confirmed", "processing"} /\ position' = position
  <2>1. CASE Cancel(p) \/ Claim(p) BY <2>1 DEF Cancel, Claim
  <2>2. CASE Sell(p) \/ Fail(p)
    <3>1. exec \in ExecType /\ exec.proposal = p BY <2>2 DEF Sell, Fail, Applies, StopInv, Types, NoExec
    <3>2. QED BY <2>2, <3>1 DEF Sell, Fail, StopInv, Types, NoExec, ExecType
  <2>3. QED BY <2>1, <2>2
<1>2. proposal[p].status \in Active /\ proposal[p] \in ProposalType
  BY <1>1, Present DEF Active, StopInv
<1>3. ep \in 1 .. MaxEpisode BY <1>2, EpisodeIs
<1>4. OrderOf(ep) = "placed" BY <1>1, <1>2, OrderIs
<1>5. ASSUME NEW new, new.episode = ep, proposal' = [proposal EXCEPT ![p] = new],
             new.status \in Terminal, lots' = lots
      PROVE  Orders!Next
  <2>1. \A e \in 1 .. MaxEpisode : OrderOf(e)' = IF e # ep THEN OrderOf(e) ELSE "none"
    <3>1. new.status \notin Active /\ new.status # "executed" BY <1>5, Apart DEF Terminal
    <3>2. QED BY <1>2, <1>5, <3>1, MarkOrder
  <2>2. Open' = Open BY <1>5 DEF Open
  <2>3. Orders!Withdraw(ep) BY <1>1, <1>3, <1>4, <2>1, <2>2 DEF Orders!Withdraw
  <2>4. QED BY <1>3, <2>3 DEF Orders!Next
<1>6. CASE Cancel(p)
  <2>1. [proposal[p] EXCEPT !.status = "rejected", !.updated = minute].episode = ep
        /\ [proposal[p] EXCEPT !.status = "rejected", !.updated = minute].status \in Terminal
    BY <1>2 DEF ProposalType, Terminal
  <2>2. QED BY <1>5, <1>6, <2>1 DEF Cancel
<1>7. CASE Fail(p)
  <2>1. [proposal[p] EXCEPT !.status = "failed", !.updated = exec.at].episode = ep
        /\ [proposal[p] EXCEPT !.status = "failed", !.updated = exec.at].status \in Terminal
    BY <1>2 DEF ProposalType, Terminal
  <2>2. QED BY <1>5, <1>7, <2>1 DEF Fail
<1>8. CASE Claim(p)
  <2>. DEFINE new == [proposal[p] EXCEPT !.status = "processing"]
  <2>1. new.episode = ep /\ new.status = "processing" BY <1>2 DEF ProposalType
  <2>2. proposal' = [proposal EXCEPT ![p] = new] BY <1>8 DEF Claim
  <2>. HIDE DEF new
  <2>3. \A e \in 1 .. MaxEpisode : OrderOf(e)' = OrderOf(e)
    <3>1. new.status \in Active /\ new.status # "executed" BY <2>1 DEF Active
    <3>2. QED BY <1>2, <1>4, <2>1, <2>2, <3>1, MarkOrder
  <2>4. lots' = lots BY <1>8 DEF Claim
  <2>5. QED BY <1>1, <2>3, <2>4 DEF Orders!ovars, Open
<1>9. CASE Sell(p)
  <2>. DEFINE new == [proposal[p] EXCEPT !.status = "executed", !.updated = exec.at, !.quoted = Latest]
  <2>1. new.episode = ep /\ new.status = "executed" BY <1>2 DEF ProposalType
  <2>2. proposal' = [proposal EXCEPT ![p] = new] BY <1>9 DEF Sell
  <2>. HIDE DEF new
  <2>3. \A e \in 1 .. MaxEpisode : OrderOf(e)' = IF e # ep THEN OrderOf(e) ELSE "sold"
    <3>1. new.status \in Active BY <2>1 DEF Active
    <3>2. QED BY <1>2, <2>1, <2>2, <3>1, MarkOrder
  <2>4. Open /\ ep = position.episode /\ position.stop.status = "frozen" BY <1>9 DEF Sell, StillDue
  <2>5. position.stop.price # 0 BY <2>4, PriceOf, EpisodeIs
  <2>6. Open' \in BOOLEAN BY DEF Open
  <2>7. Orders!Sell BY <1>1, <1>3, <1>4, <2>3, <2>4, <2>5, <2>6 DEF Orders!Sell
  <2>8. QED BY <2>7 DEF Orders!Next
<1>10. QED BY <1>6, <1>7, <1>8, <1>9

LEMMA UndoOrder ==
  ASSUME StopInv, StopInv', Undo
  PROVE  UNCHANGED Orders!ovars
<1>. DEFINE p == exec.proposal
            new == [proposal[p] EXCEPT !.status = "confirmed"]
<1>1. p \in Ids /\ proposal[p].status = "processing" BY DEF Undo, StopInv, Types, ExecType
<1>2. proposal[p].status \in Active /\ proposal[p] \in ProposalType
  BY <1>1, Present DEF Active, StopInv
<1>3. new.episode = proposal[p].episode /\ new.status = "confirmed" BY <1>2 DEF ProposalType
<1>4. proposal' = [proposal EXCEPT ![p] = new] BY DEF Undo
<1>. HIDE DEF new, p
<1>5. OrderOf(proposal[p].episode) = "placed" BY <1>1, <1>2, OrderIs
<1>6. \A e \in 1 .. MaxEpisode : OrderOf(e)' = OrderOf(e)
  <2>1. new.status \in Active /\ new.status # "executed" BY <1>3 DEF Active
  <2>2. QED BY <1>1, <1>2, <1>3, <1>4, <1>5, <2>1, MarkOrder
<1>7. QED BY <1>6 DEF Undo, Orders!ovars, Open

LEMMA OrderNext ==
  StopInv /\ StopInv' /\ HeldInv /\ [Next]_vars => [Orders!Next]_(Orders!ovars)
<1>. SUFFICES ASSUME StopInv, StopInv', HeldInv, [Next]_vars
              PROVE  Orders!Next \/ UNCHANGED Orders!ovars
  OBVIOUS
<1>1. CASE Advance \/ Record \/ UNCHANGED vars
  BY <1>1, SameOrders DEF Advance, Record, vars, Open
<1>2. ASSUME NEW r \in Runs, StopLossRun(r) PROVE Orders!Next \/ UNCHANGED Orders!ovars
  <2>1. CASE Freeze(r) \/ Look(r) \/ Raises(r) \/ Dies(r)
    BY <2>1, SameOrders DEF Freeze, Look, Raises, Dies, Open
  <2>2. QED BY <1>2, <2>1, EndOrder, InsertOrder DEF StopLossRun
<1>3. CASE BuyFill \/ SellFill BY <1>3, FillOrder
<1>4. ASSUME NEW p \in Ids, Cancel(p) \/ Claim(p) \/ Sell(p) \/ Fail(p)
      PROVE  Orders!Next \/ UNCHANGED Orders!ovars
  BY <1>4, ProposalOrder
<1>5. CASE Undo BY <1>5, UndoOrder
<1>6. ASSUME NEW p \in Ids, Check(p) PROVE UNCHANGED Orders!ovars
  BY <1>6, SameOrders DEF Check, Open
<1>7. QED BY <1>1, <1>2, <1>3, <1>4, <1>5, <1>6 DEF Next

(* The stop loss keeps its promise to the holder: one stop price for an      *)
(* episode, set while it is held; one sale by a stop, of the episode its     *)
(* order was placed for; whatever runs, fills, cancellations and claims race.*)
THEOREM OrdersImplemented == Spec => ImplementsOrders
<1>1. Init => Orders!Init
  <2>1. SUFFICES ASSUME Init PROVE Orders!Init OBVIOUS
  <2>2. \A e, statuses : statuses \in {{"executed"}, {"confirmed", "processing"}} =>
          StopsOf(e, statuses) = {}
    BY <2>1 DEF Init, StopsOf, Absent
  <2>3. \A e : OrderOf(e) = "none" BY <2>2 DEF OrderOf
  <2>4. Open /\ position.episode = 1 /\ position.stop.price = 0 BY <2>1 DEF Init, Open, NoStop
  <2>5. Open = TRUE BY <2>4 DEF Open
  <2>6. QED BY <2>3, <2>4, <2>5 DEF Orders!Init
<1>2. Init => HeldInv BY Apart DEF Init, HeldInv
<1>3. QED BY <1>1, <1>2, StopAlways, HeldNext, OrderNext, PTL DEF Spec, ImplementsOrders, Orders!Spec

-----------------------------------------------------------------------------
LEMMA NothingToExecute ==
  ASSUME StopInv, \A p \in Ids : proposal[p] = Absent
  PROVE  exec = NoExec
<1>1. ASSUME exec \in ExecType PROVE proposal[exec.proposal].status # "processing"
  BY <1>1 DEF ExecType, Absent
<1>2. QED BY <1>1 DEF StopInv, Types

LEMMA OnlyRuns ==
  ASSUME Next, run' # run
  PROVE  \E o \in Runs : StopLossRun(o)
BY DEF Next, Advance, Record, BuyFill, SellFill, Cancel, Claim, Check, Sell, Fail, Undo

LEMMA DiesLost ==
  ASSUME StopInv, NEW r \in Runs, Dies(r)
  PROVE  run'[r].phase = "lost"
BY DEF Dies, LostRun, NoRun, StopInv, Types

(* The program as the migrations have it confirms no stop at all: whatever   *)
(* breaches, its evaluation raises before it inserts.                        *)
THEOREM NoStopAsWritten ==
  Spec => [](~insertWorks => \A p \in Ids : proposal[p] = Absent)
<1>. DEFINE None == ~insertWorks => \A p \in Ids : proposal[p] = Absent
<1>1. Init => None BY DEF Init
<1>2. StopInv /\ None /\ [Next]_vars => None'
  <2>1. SUFFICES ASSUME StopInv, None, [Next]_vars PROVE None' OBVIOUS
  <2>2. CASE insertWorks
    <3>1. insertWorks' = insertWorks
      BY <2>1 DEF Next, vars, Advance, Record, StopLossRun, Freeze, Look, NoCandidate, Insert, GivesUp,
                  Raises, Dies, BuyFill, SellFill, Cancel, Claim, Check, Sell, Fail, Undo
    <3>2. QED BY <2>2, <3>1
  <2>3. CASE ~insertWorks
    <3>1. \A p \in Ids : proposal[p].status = "absent" BY <2>1, <2>3 DEF Absent
    <3>2. exec = NoExec BY <2>1, <2>3, NothingToExecute
    <3>3. proposal' = proposal
      BY <2>1, <2>3, <3>1, <3>2
         DEF Next, vars, Advance, Record, StopLossRun, Freeze, Look, NoCandidate, Insert, GivesUp,
             Raises, Dies, BuyFill, SellFill, Cancel, Claim, Check, Sell, Fail, Applies, Undo, NoExec
    <3>4. QED BY <2>1, <2>3, <3>3
  <2>4. QED BY <2>2, <2>3
<1>. HIDE DEF None
<1>3. Spec => []None BY <1>1, <1>2, StopAlways, PTL DEF Spec
<1>4. QED BY <1>3 DEF None

(* With both mistakes corrected the contract 049 holds: a run that ends on a *)
(* breach it may act on leaves a confirmed proposal.                         *)
THEOREM ContractWhenCorrected == Spec /\ []insertWorks => BreachesAreConfirmed
<1>1. StopInv /\ insertWorks /\ [Next]_vars => [BreachIsConfirmed]_vars
  <2>1. SUFFICES ASSUME StopInv, insertWorks, Next, NEW r \in Runs,
                        run[r].phase = "candidate", run'[r].phase = "idle",
                        PositionFree(r), Rechecked(r), HasId
                 PROVE  \E p \in Ids : proposal[p] = Absent /\ proposal'[p].status = "confirmed"
    BY DEF BreachIsConfirmed
  <2>2. run' # run BY <2>1
  <2>3. PICK o \in Runs : StopLossRun(o) BY <2>1, <2>2, OnlyRuns
  <2>4. \A q \in Runs \ {o} : run'[q] = run[q]
    <3>1. run \in [Runs -> {NoRun, LostRun} \cup RunType] BY <2>1 DEF StopInv, Types
    <3>2. PICK new : run' = [run EXCEPT ![o] = new]
      BY <2>3 DEF StopLossRun, Freeze, Look, NoCandidate, Insert, GivesUp, Raises, Dies, Commit
    <3>3. QED BY <3>1, <3>2
  <2>5. o = r BY <2>1, <2>4
  <2>6. Insert(r)
    <3>1. ~Freeze(r) /\ ~Look(r) /\ ~NoCandidate(r)
      BY <2>1 DEF Freeze, Look, NoCandidate
    <3>2. ~GivesUp(r) /\ ~Raises(r) BY <2>1 DEF GivesUp, Raises, Rechecked
    <3>3. ~Dies(r) BY <2>1, DiesLost
    <3>4. QED BY <2>3, <2>5, <3>1, <3>2, <3>3 DEF StopLossRun
  <2>7. NextId \in Ids /\ proposal[NextId] = Absent BY <2>1, NextIs DEF StopInv
  <2>8. proposal' = [proposal EXCEPT ![NextId] = StopProposal(r)] BY <2>6 DEF Insert
  <2>9. StopProposal(r).status = "confirmed" BY DEF StopProposal
  <2>10. proposal'[NextId].status = "confirmed" BY <2>1, <2>7, <2>8, <2>9 DEF StopInv, Types
  <2>11. QED BY <2>7, <2>10
<1>2. QED BY <1>1, StopAlways, PTL DEF Spec, BreachesAreConfirmed
=============================================================================
