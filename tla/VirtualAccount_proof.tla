------------------------ MODULE VirtualAccount_proof ------------------------
(***************************************************************************)
(* The account of VirtualAccount keeps its books, for any stocks, prices,  *)
(* proposals, number of days and calendar, and implements the T+1 account  *)
(* of SettlementAccount.                                                   *)
(***************************************************************************)
EXTENDS VirtualAccount, FiniteSetTheorems, SequenceTheorems, WellFoundedInduction, TLAPS

-----------------------------------------------------------------------------
(* Sums over finite sets.  SumFunctionOnSet is a fold: g is the function it  *)
(* folds with, and Pick the element it takes first.  That two ways to add up *)
(* agree is proved by a smallest set on which they would not.                *)
Pick(T) == CHOOSE x \in T : TRUE
Rest(T) == T \ {Pick(T)}
Sums(f, S, g) == g = [T \in SUBSET S |-> IF T = {} THEN 0 ELSE f[Pick(T)] + g[Rest(T)]]
SumsOf(f, S)  == CHOOSE g : Sums(f, S, g)

LEMMA SumIs ==
  ASSUME NEW f, NEW S
  PROVE  SumFunctionOnSet(f, S) = SumsOf(f, S)[S]
BY DEF SumsOf, Sums, Pick, Rest, SumFunctionOnSet, FoldFunctionOnSet, MapThenFoldSet

LEMMA PickIn ==
  ASSUME NEW T, T # {}
  PROVE  Pick(T) \in T /\ Rest(T) \subseteq T /\ Rest(T) # T
BY DEF Pick, Rest

(* A set of subsets of a finite set has a minimal one. *)
LEMMA MinimalSet ==
  ASSUME NEW S, IsFiniteSet(S), NEW B \in SUBSET (SUBSET S), B # {}
  PROVE  \E T \in B : \A U \in B : U \subseteq T => U = T
<1>1. IsWellFoundedOn(StrictSubsetOrdering(S), SUBSET S)
  BY FS_StrictSubsetOrderingWellFounded, FS_FiniteSubsetsOfFinite
<1>2. PICK T \in B : \A U \in B : ~ (<<U, T>> \in StrictSubsetOrdering(S))
  BY <1>1, WFMin, Zenon
<1>3. QED BY <1>2 DEF StrictSubsetOrdering

(* There is one such function ... *)
LEMMA SumsUnique ==
  ASSUME NEW f, NEW S, IsFiniteSet(S), NEW g, NEW h, Sums(f, S, g), Sums(f, S, h)
  PROVE  g = h
<1>. DEFINE B == {T \in SUBSET S : g[T] # h[T]}
<1>1. SUFFICES ASSUME B # {} PROVE FALSE
  BY DEF Sums
<1>0. B \in SUBSET (SUBSET S) OBVIOUS
<1>. HIDE DEF B
<1>2. PICK T \in B : \A U \in B : U \subseteq T => U = T BY <1>0, <1>1, MinimalSet
<1>3. T \in SUBSET S /\ g[T] # h[T] BY <1>2 DEF B
<1>4. T # {} BY <1>3 DEF Sums
<1>5. g[T] = f[Pick(T)] + g[Rest(T)] /\ h[T] = f[Pick(T)] + h[Rest(T)]
  BY <1>3, <1>4 DEF Sums
<1>6. Rest(T) \in SUBSET S /\ Rest(T) \notin B BY <1>2, <1>3, <1>4, PickIn
<1>7. g[Rest(T)] = h[Rest(T)] BY <1>6 DEF B
<1>8. QED BY <1>3, <1>5, <1>7

(* ... the one of a part agrees with the one of the whole ...                *)
LEMMA SumsPart ==
  ASSUME NEW f, NEW S, IsFiniteSet(S), NEW g, Sums(f, S, g), NEW T \in SUBSET S
  PROVE  g[T] = SumsOf(f, T)[T]
<1>. DEFINE h == [U \in SUBSET T |-> g[U]]
<1>1. Sums(f, T, h)
  <2>1. \A U \in SUBSET T : g[U] = IF U = {} THEN 0 ELSE f[Pick(U)] + g[Rest(U)] BY DEF Sums
  <2>2. \A U \in SUBSET T : U # {} => Rest(U) \in SUBSET T BY PickIn
  <2>3. \A U \in SUBSET T : h[U] = IF U = {} THEN 0 ELSE f[Pick(U)] + h[Rest(U)] BY <2>1, <2>2
  <2>4. QED BY <2>3 DEF Sums
<1>2. IsFiniteSet(T) BY FS_Subset
<1>. HIDE DEF h
<1>3. Sums(f, T, SumsOf(f, T)) BY <1>1 DEF SumsOf
<1>4. h = SumsOf(f, T) BY <1>1, <1>2, <1>3, SumsUnique
<1>5. QED BY <1>4 DEF h

(* ... and it exists.                                                        *)
LEMMA SumsExist ==
  ASSUME NEW f, NEW S, IsFiniteSet(S)
  PROVE  Sums(f, S, SumsOf(f, S))
<1>. DEFINE B == {T \in SUBSET S : ~ Sums(f, T, SumsOf(f, T))}
<1>1. SUFFICES ASSUME B # {} PROVE FALSE OBVIOUS
<1>0. B \in SUBSET (SUBSET S) OBVIOUS
<1>. HIDE DEF B
<1>2. PICK T \in B : \A U \in B : U \subseteq T => U = T BY <1>0, <1>1, MinimalSet
<1>3. T \in SUBSET S /\ ~ Sums(f, T, SumsOf(f, T)) BY <1>2 DEF B
<1>4. \A U \in SUBSET T : U # T => Sums(f, U, SumsOf(f, U)) BY <1>2, <1>3 DEF B
<1>. DEFINE g == [U \in SUBSET T |-> IF U = {} THEN 0 ELSE f[Pick(U)] + SumsOf(f, Rest(U))[Rest(U)]]
<1>5. \A U \in SUBSET T : U # {} => g[Rest(U)] = SumsOf(f, Rest(U))[Rest(U)]
  <2>1. SUFFICES ASSUME NEW U \in SUBSET T, U # {} PROVE g[Rest(U)] = SumsOf(f, Rest(U))[Rest(U)]
    OBVIOUS
  <2>. DEFINE W == Rest(U)
  <2>2. W \in SUBSET T /\ W # T BY <2>1, PickIn
  <2>. HIDE DEF W
  <2>3. Sums(f, W, SumsOf(f, W)) BY <1>4, <2>2
  <2>4. CASE W = {}
    <3>1. g[W] = 0 BY <2>2, <2>4
    <3>2. SumsOf(f, W)[W] = 0 BY <2>3, <2>4 DEF Sums
    <3>3. QED BY <3>1, <3>2 DEF W
  <2>5. CASE W # {}
    <3>1. g[W] = f[Pick(W)] + SumsOf(f, Rest(W))[Rest(W)] BY <2>2, <2>5
    <3>2. SumsOf(f, W)[W] = f[Pick(W)] + SumsOf(f, W)[Rest(W)] BY <2>3, <2>5 DEF Sums
    <3>3. Rest(W) \in SUBSET W /\ IsFiniteSet(W) BY <1>3, <2>2, <2>5, PickIn, FS_Subset
    <3>4. SumsOf(f, W)[Rest(W)] = SumsOf(f, Rest(W))[Rest(W)] BY <2>3, <3>3, SumsPart
    <3>5. QED BY <3>1, <3>2, <3>4 DEF W
  <2>6. QED BY <2>4, <2>5 DEF W
<1>6. \A U \in SUBSET T : g[U] = IF U = {} THEN 0 ELSE f[Pick(U)] + g[Rest(U)] BY <1>5
<1>7. Sums(f, T, g) BY <1>6 DEF Sums
<1>8. QED BY <1>3, <1>7 DEF SumsOf

(* What a sum is. *)
LEMMA SumStep ==
  ASSUME NEW f, NEW S, IsFiniteSet(S)
  PROVE  SumFunctionOnSet(f, S) = IF S = {} THEN 0 ELSE f[Pick(S)] + SumFunctionOnSet(f, Rest(S))
<1>1. Sums(f, S, SumsOf(f, S)) BY SumsExist
<1>2. SumFunctionOnSet(f, S) = SumsOf(f, S)[S] BY SumIs
<1>3. CASE S = {} BY <1>1, <1>2, <1>3 DEF Sums
<1>4. CASE S # {}
  <2>1. SumsOf(f, S)[S] = f[Pick(S)] + SumsOf(f, S)[Rest(S)] BY <1>1, <1>4 DEF Sums
  <2>2. Rest(S) \in SUBSET S BY <1>4, PickIn
  <2>3. SumsOf(f, S)[Rest(S)] = SumsOf(f, Rest(S))[Rest(S)] BY <1>1, <2>2, SumsPart
  <2>4. SumFunctionOnSet(f, Rest(S)) = SumsOf(f, Rest(S))[Rest(S)] BY SumIs
  <2>5. QED BY <1>2, <1>4, <2>1, <2>3, <2>4
<1>5. QED BY <1>3, <1>4

LEMMA SumNat ==
  ASSUME NEW f, NEW S, IsFiniteSet(S), \A x \in S : f[x] \in Nat
  PROVE  SumFunctionOnSet(f, S) \in Nat
<1>. DEFINE B == {T \in SUBSET S : SumFunctionOnSet(f, T) \notin Nat}
<1>1. SUFFICES ASSUME B # {} PROVE FALSE OBVIOUS
<1>0. B \in SUBSET (SUBSET S) OBVIOUS
<1>. HIDE DEF B
<1>2. PICK T \in B : \A U \in B : U \subseteq T => U = T BY <1>0, <1>1, MinimalSet
<1>3. T \in SUBSET S /\ SumFunctionOnSet(f, T) \notin Nat BY <1>2 DEF B
<1>4. IsFiniteSet(T) BY <1>3, FS_Subset
<1>5. SumFunctionOnSet(f, T) = IF T = {} THEN 0 ELSE f[Pick(T)] + SumFunctionOnSet(f, Rest(T)) BY <1>4, SumStep
<1>6. T # {} BY <1>3, <1>5
<1>7. Pick(T) \in S /\ Rest(T) \in SUBSET S /\ Rest(T) \notin B BY <1>2, <1>3, <1>6, PickIn
<1>8. SumFunctionOnSet(f, Rest(T)) \in Nat BY <1>7 DEF B
<1>9. QED BY <1>3, <1>5, <1>6, <1>7, <1>8

LEMMA SumSame ==
  ASSUME NEW f, NEW g, NEW S, IsFiniteSet(S), \A x \in S : f[x] = g[x]
  PROVE  SumFunctionOnSet(f, S) = SumFunctionOnSet(g, S)
<1>. DEFINE B == {T \in SUBSET S : SumFunctionOnSet(f, T) # SumFunctionOnSet(g, T)}
<1>1. SUFFICES ASSUME B # {} PROVE FALSE OBVIOUS
<1>0. B \in SUBSET (SUBSET S) OBVIOUS
<1>. HIDE DEF B
<1>2. PICK T \in B : \A U \in B : U \subseteq T => U = T BY <1>0, <1>1, MinimalSet
<1>3. T \in SUBSET S /\ SumFunctionOnSet(f, T) # SumFunctionOnSet(g, T) BY <1>2 DEF B
<1>4. IsFiniteSet(T) BY <1>3, FS_Subset
<1>5. /\ SumFunctionOnSet(f, T) = IF T = {} THEN 0 ELSE f[Pick(T)] + SumFunctionOnSet(f, Rest(T))
      /\ SumFunctionOnSet(g, T) = IF T = {} THEN 0 ELSE g[Pick(T)] + SumFunctionOnSet(g, Rest(T))
  BY <1>4, SumStep
<1>6. T # {} BY <1>3, <1>5
<1>7. Pick(T) \in S /\ Rest(T) \in SUBSET S /\ Rest(T) \notin B BY <1>2, <1>3, <1>6, PickIn
<1>8. SumFunctionOnSet(f, Rest(T)) = SumFunctionOnSet(g, Rest(T)) BY <1>7 DEF B
<1>9. QED BY <1>3, <1>5, <1>6, <1>7, <1>8

(* Any element can be taken out of a sum. *)
LEMMA SumLess ==
  ASSUME NEW f, NEW S, IsFiniteSet(S), \A x \in S : f[x] \in Nat
  PROVE  \A x \in S : SumFunctionOnSet(f, S) = f[x] + SumFunctionOnSet(f, S \ {x})
<1>. DEFINE B == {T \in SUBSET S : \E x \in T : SumFunctionOnSet(f, T) # f[x] + SumFunctionOnSet(f, T \ {x})}
<1>1. SUFFICES ASSUME B # {} PROVE FALSE OBVIOUS
<1>0. B \in SUBSET (SUBSET S) OBVIOUS
<1>. HIDE DEF B
<1>2. PICK T \in B : \A U \in B : U \subseteq T => U = T BY <1>0, <1>1, MinimalSet
<1>3. T \in SUBSET S /\ IsFiniteSet(T) BY <1>0, <1>2, FS_Subset
<1>4. PICK x \in T : SumFunctionOnSet(f, T) # f[x] + SumFunctionOnSet(f, T \ {x}) BY <1>2 DEF B
<1>. DEFINE c == Pick(T)
<1>5. c \in T /\ Rest(T) = T \ {c} BY <1>4, PickIn DEF Rest
<1>6. SumFunctionOnSet(f, T) = f[c] + SumFunctionOnSet(f, T \ {c}) BY <1>3, <1>4, <1>5, SumStep
<1>. HIDE DEF c
<1>7. c # x BY <1>4, <1>6
<1>. DEFINE U == T \ {c}  V == T \ {x}
<1>8. /\ U \in SUBSET S /\ V \in SUBSET S /\ U # T /\ V # T
      /\ U \subseteq T /\ V \subseteq T /\ x \in U /\ c \in V
      /\ U \ {x} = V \ {c} /\ U \ {x} \in SUBSET S
  BY <1>3, <1>4, <1>5, <1>7
<1>9. U \notin B /\ V \notin B BY <1>2, <1>8
<1>. HIDE DEF U, V
<1>10. SumFunctionOnSet(f, U) = f[x] + SumFunctionOnSet(f, U \ {x}) BY <1>8, <1>9 DEF B
<1>11. SumFunctionOnSet(f, V) = f[c] + SumFunctionOnSet(f, U \ {x}) BY <1>8, <1>9 DEF B
<1>12. IsFiniteSet(U \ {x}) BY <1>8, FS_Subset
<1>13. SumFunctionOnSet(f, U \ {x}) \in Nat BY <1>8, <1>12, SumNat
<1>14. f[x] \in Nat /\ f[c] \in Nat BY <1>3, <1>5
<1>15. SumFunctionOnSet(f, T) = f[c] + SumFunctionOnSet(f, U) /\ SumFunctionOnSet(f, T) # f[x] + SumFunctionOnSet(f, V) BY <1>4, <1>6 DEF U, V
<1>16. QED BY <1>10, <1>11, <1>13, <1>14, <1>15

LEMMA SumEmpty == \A f : SumFunctionOnSet(f, {}) = 0
BY SumStep, FS_EmptySet

(* A new element adds its value. *)
LEMMA SumAdd ==
  ASSUME NEW f, NEW S, IsFiniteSet(S), NEW x, x \notin S, \A y \in S \cup {x} : f[y] \in Nat
  PROVE  SumFunctionOnSet(f, S \cup {x}) = f[x] + SumFunctionOnSet(f, S)
<1>1. IsFiniteSet(S \cup {x}) BY FS_AddElement
<1>2. (S \cup {x}) \ {x} = S OBVIOUS
<1>3. QED BY <1>1, <1>2, SumLess

(* The sum over two disjoint sets. *)
LEMMA SumSplit ==
  ASSUME NEW f, NEW R, NEW S, IsFiniteSet(R), IsFiniteSet(S), R \cap S = {},
         \A x \in R \cup S : f[x] \in Nat
  PROVE  SumFunctionOnSet(f, R \cup S) = SumFunctionOnSet(f, R) + SumFunctionOnSet(f, S)
<1>. DEFINE B == {T \in SUBSET S : SumFunctionOnSet(f, R \cup T) # SumFunctionOnSet(f, R) + SumFunctionOnSet(f, T)}
<1>1. SUFFICES ASSUME B # {} PROVE FALSE OBVIOUS
<1>0. B \in SUBSET (SUBSET S) OBVIOUS
<1>. HIDE DEF B
<1>2. PICK T \in B : \A U \in B : U \subseteq T => U = T BY <1>0, <1>1, MinimalSet
<1>3. T \in SUBSET S /\ IsFiniteSet(T) /\ IsFiniteSet(R \cup T)
  BY <1>0, <1>2, FS_Subset, FS_Union
<1>4. SumFunctionOnSet(f, R \cup T) # SumFunctionOnSet(f, R) + SumFunctionOnSet(f, T) BY <1>2 DEF B
<1>5. SumFunctionOnSet(f, R) \in Nat BY SumNat
<1>6. T # {}
  <2>1. SUFFICES ASSUME T = {} PROVE FALSE OBVIOUS
  <2>2. R \cup T = R /\ SumFunctionOnSet(f, T) = 0 BY <2>1, SumEmpty
  <2>3. QED BY <1>4, <1>5, <2>2
<1>7. PICK x \in T : TRUE BY <1>6
<1>. DEFINE U == T \ {x}
<1>8. U \in SUBSET S /\ U \subseteq T /\ U # T BY <1>3, <1>7
<1>9. IsFiniteSet(U) BY <1>3, <1>8, FS_Subset
<1>10. U \notin B BY <1>2, <1>8
<1>11. SumFunctionOnSet(f, R \cup U) = SumFunctionOnSet(f, R) + SumFunctionOnSet(f, U) BY <1>8, <1>10 DEF B
<1>12. SumFunctionOnSet(f, T) = f[x] + SumFunctionOnSet(f, U) BY <1>3, <1>7, SumLess
<1>13. (R \cup T) \ {x} = R \cup U BY <1>3, <1>7
<1>14. SumFunctionOnSet(f, R \cup T) = f[x] + SumFunctionOnSet(f, R \cup U)
  <2>1. \A y \in R \cup T : f[y] \in Nat BY <1>3
  <2>2. \A y \in R \cup T : SumFunctionOnSet(f, R \cup T) = f[y] + SumFunctionOnSet(f, (R \cup T) \ {y})
    BY <1>3, <2>1, SumLess
  <2>3. QED BY <1>7, <1>13, <2>2
<1>15. SumFunctionOnSet(f, U) \in Nat /\ f[x] \in Nat BY <1>3, <1>7, <1>8, <1>9, SumNat
<1>. HIDE DEF U
<1>16. QED BY <1>4, <1>5, <1>11, <1>12, <1>14, <1>15

(* A part sums to no more than the whole. *)
LEMMA SumPart ==
  ASSUME NEW f, NEW S, IsFiniteSet(S), NEW R \in SUBSET S, \A x \in S : f[x] \in Nat
  PROVE  SumFunctionOnSet(f, R) \in Nat /\ SumFunctionOnSet(f, S) \in Nat /\ SumFunctionOnSet(f, R) <= SumFunctionOnSet(f, S)
<1>. DEFINE U == S \ R
<1>1. IsFiniteSet(R) /\ IsFiniteSet(U) /\ R \cap U = {} /\ R \cup U = S BY FS_Subset
<1>. HIDE DEF U
<1>2. SumFunctionOnSet(f, S) = SumFunctionOnSet(f, R) + SumFunctionOnSet(f, U) BY <1>1, SumSplit
<1>3. SumFunctionOnSet(f, R) \in Nat /\ SumFunctionOnSet(f, U) \in Nat BY <1>1, SumNat
<1>4. QED BY <1>2, <1>3

LEMMA SumZero ==
  ASSUME NEW f, NEW S, IsFiniteSet(S), \A x \in S : f[x] = 0
  PROVE  SumFunctionOnSet(f, S) = 0
<1>. DEFINE B == {T \in SUBSET S : SumFunctionOnSet(f, T) # 0}
<1>1. SUFFICES ASSUME B # {} PROVE FALSE OBVIOUS
<1>0. B \in SUBSET (SUBSET S) OBVIOUS
<1>. HIDE DEF B
<1>2. PICK T \in B : \A U \in B : U \subseteq T => U = T BY <1>0, <1>1, MinimalSet
<1>3. T \in SUBSET S /\ IsFiniteSet(T) /\ SumFunctionOnSet(f, T) # 0 BY <1>0, <1>2, FS_Subset DEF B
<1>4. SumFunctionOnSet(f, T) = IF T = {} THEN 0 ELSE f[Pick(T)] + SumFunctionOnSet(f, Rest(T)) BY <1>3, SumStep
<1>5. T # {} BY <1>3, <1>4
<1>6. Pick(T) \in S /\ Rest(T) \in SUBSET S /\ Rest(T) \notin B BY <1>2, <1>3, <1>5, PickIn
<1>7. SumFunctionOnSet(f, Rest(T)) = 0 BY <1>6 DEF B
<1>8. QED BY <1>3, <1>4, <1>5, <1>6, <1>7

-----------------------------------------------------------------------------
(* The lots of a position, as a sequence and a date.                         *)
Rem(q) == [i \in DOMAIN q |-> q[i].remaining]
MatureIn(q, d) ==
  {i \in DOMAIN q : q[i].available <= d /\ q[i].status \in {"locked_t1", "available"}}
FreshIn(q, d) == {i \in DOMAIN q : q[i].available > d /\ q[i].status = "locked_t1"}

DueOf(q, d)  == SumFunctionOnSet(Rem(q), MatureIn(q, d))
LateOf(q, d) == SumFunctionOnSet(Rem(q), FreshIn(q, d))

(* A lot is bought today or of age, and closed exactly when it is sold.      *)
GoodLots(q, d) ==
  /\ q \in Seq(Lots)
  /\ \A i \in DOMAIN q :
       /\ q[i].available <= d + 1
       /\ q[i].available > d => q[i].status = "locked_t1"
       /\ q[i].remaining = 0 <=> q[i].status = "closed"

LEMMA LotsAre ==
  ASSUME NEW q \in Seq(Lots)
  PROVE  /\ IsFiniteSet(DOMAIN q) /\ DOMAIN q = 1 .. Len(q) /\ Len(q) \in Nat
         /\ \A i \in DOMAIN q : q[i] \in Lots /\ Rem(q)[i] = q[i].remaining /\ Rem(q)[i] \in Nat
<1>1. Len(q) \in Nat /\ DOMAIN q = 1 .. Len(q) /\ \A i \in DOMAIN q : q[i] \in Lots
  OBVIOUS
<1>2. \A i \in DOMAIN q : q[i].remaining \in Nat BY <1>1 DEF Lots
<1>3. IsFiniteSet(DOMAIN q) BY <1>1, FS_Interval
<1>4. QED BY <1>1, <1>2, <1>3 DEF Rem

LEMMA SidesNat ==
  ASSUME NEW q \in Seq(Lots), NEW d
  PROVE  /\ IsFiniteSet(MatureIn(q, d)) /\ IsFiniteSet(FreshIn(q, d))
         /\ MatureIn(q, d) \in SUBSET (DOMAIN q) /\ FreshIn(q, d) \in SUBSET (DOMAIN q)
         /\ DueOf(q, d) \in Nat /\ LateOf(q, d) \in Nat
<1>1. MatureIn(q, d) \in SUBSET (DOMAIN q) /\ FreshIn(q, d) \in SUBSET (DOMAIN q)
  BY DEF MatureIn, FreshIn
<1>2. IsFiniteSet(MatureIn(q, d)) /\ IsFiniteSet(FreshIn(q, d)) BY <1>1, LotsAre, FS_Subset
<1>3. QED BY <1>1, <1>2, LotsAre, SumNat DEF DueOf, LateOf

(* A day makes every lot due. *)
LEMMA LotsNextDay ==
  ASSUME NEW q, NEW d \in Nat, GoodLots(q, d)
  PROVE  /\ GoodLots(q, d + 1)
         /\ DueOf(q, d + 1) = DueOf(q, d) + LateOf(q, d)
         /\ LateOf(q, d + 1) = 0
<1>1. q \in Seq(Lots) BY DEF GoodLots
<1>2. \A i \in DOMAIN q : q[i].available \in Nat BY <1>1, LotsAre DEF Lots
<1>3. GoodLots(q, d + 1) BY <1>2 DEF GoodLots
<1>4. MatureIn(q, d + 1) = MatureIn(q, d) \cup FreshIn(q, d)
  BY <1>2 DEF GoodLots, MatureIn, FreshIn
<1>5. MatureIn(q, d) \cap FreshIn(q, d) = {} BY <1>2 DEF MatureIn, FreshIn
<1>6. FreshIn(q, d + 1) = {} BY <1>2 DEF GoodLots, FreshIn
<1>7. LateOf(q, d + 1) = 0 BY <1>6, SumEmpty DEF LateOf
<1>8. DueOf(q, d + 1) = DueOf(q, d) + LateOf(q, d)
  <2>1. \A i \in MatureIn(q, d) \cup FreshIn(q, d) : Rem(q)[i] \in Nat
    BY <1>1, SidesNat, LotsAre
  <2>2. QED BY <1>1, <1>4, <1>5, <2>1, SidesNat, SumSplit DEF DueOf, LateOf
<1>9. QED BY <1>3, <1>7, <1>8

(* A purchase adds a lot that is not due. *)
LEMMA LotsBought ==
  ASSUME NEW q, NEW d \in Nat, GoodLots(q, d), NEW n \in Nat \ {0}, NEW r \in Seq(Lots),
         Len(r) = Len(q) + 1,
         \A i \in DOMAIN q :
           /\ r[i].remaining = q[i].remaining /\ r[i].available = q[i].available
           /\ r[i].status = IF q[i].remaining > 0 /\ i \in MatureIn(q, d)
                            THEN "available" ELSE q[i].status,
         r[Len(q) + 1].available = d + 1, r[Len(q) + 1].remaining = n,
         r[Len(q) + 1].status = "locked_t1"
  PROVE  /\ GoodLots(r, d)
         /\ DueOf(r, d) = DueOf(q, d)
         /\ LateOf(r, d) = LateOf(q, d) + n
<1>. DEFINE k == Len(q) + 1
<1>1. q \in Seq(Lots) BY DEF GoodLots
<1>2. /\ DOMAIN q = 1 .. Len(q) /\ DOMAIN r = 1 .. k /\ k \in Nat /\ k \notin DOMAIN q
      /\ DOMAIN r = DOMAIN q \cup {k} /\ k \in DOMAIN r
  BY <1>1, LotsAre
<1>. HIDE DEF k
<1>3. \A i \in DOMAIN q : q[i].available \in Nat /\ q[i].remaining \in Nat
  BY <1>1, LotsAre DEF Lots
<1>4. r[k].available = d + 1 /\ r[k].remaining = n /\ r[k].status = "locked_t1" BY DEF k
<1>5. GoodLots(r, d)
  <2>1. SUFFICES ASSUME NEW i \in DOMAIN r
                 PROVE  /\ r[i].available <= d + 1
                        /\ r[i].available > d => r[i].status = "locked_t1"
                        /\ r[i].remaining = 0 <=> r[i].status = "closed"
    BY DEF GoodLots
  <2>2. CASE i = k BY <1>4, <2>2
  <2>3. CASE i \in DOMAIN q BY <1>3, <2>3 DEF GoodLots, MatureIn
  <2>4. QED BY <1>2, <2>2, <2>3
<1>6. MatureIn(r, d) = MatureIn(q, d)
  <2>1. k \notin MatureIn(r, d) BY <1>4 DEF MatureIn
  <2>2. \A i \in DOMAIN q : i \in MatureIn(r, d) <=> i \in MatureIn(q, d)
    BY <1>2, <1>3 DEF MatureIn, GoodLots
  <2>3. QED BY <1>2, <2>1, <2>2 DEF MatureIn
<1>7. FreshIn(r, d) = FreshIn(q, d) \cup {k}
  <2>1. k \in FreshIn(r, d) BY <1>2, <1>4 DEF FreshIn
  <2>2. \A i \in DOMAIN q : i \in FreshIn(r, d) <=> i \in FreshIn(q, d)
    BY <1>2, <1>3 DEF FreshIn, MatureIn, GoodLots
  <2>3. QED BY <1>2, <2>1, <2>2 DEF FreshIn
<1>8. \A i \in DOMAIN q : Rem(r)[i] = Rem(q)[i] BY <1>2 DEF Rem
<1>9. Rem(r)[k] = n BY <1>2, <1>4 DEF Rem
<1>10. DueOf(r, d) = DueOf(q, d)
  <2>1. \A i \in MatureIn(q, d) : Rem(r)[i] = Rem(q)[i] BY <1>1, <1>8, SidesNat
  <2>2. IsFiniteSet(MatureIn(q, d)) BY <1>1, SidesNat
  <2>3. QED BY <1>6, <2>1, <2>2, SumSame DEF DueOf
<1>11. LateOf(r, d) = LateOf(q, d) + n
  <2>1. FreshIn(q, d) \in SUBSET (DOMAIN q) /\ IsFiniteSet(FreshIn(q, d)) BY <1>1, SidesNat
  <2>2. \A i \in FreshIn(q, d) : Rem(r)[i] = Rem(q)[i] BY <1>8, <2>1
  <2>3. SumFunctionOnSet(Rem(r), FreshIn(q, d)) = LateOf(q, d) BY <2>1, <2>2, SumSame DEF LateOf
  <2>4. k \notin FreshIn(q, d) BY <1>2, <2>1
  <2>5. \A i \in FreshIn(q, d) \cup {k} : Rem(r)[i] \in Nat
    BY <1>1, <1>9, <2>1, <2>2, LotsAre
  <2>6. SumFunctionOnSet(Rem(r), FreshIn(q, d) \cup {k}) =
          Rem(r)[k] + SumFunctionOnSet(Rem(r), FreshIn(q, d))
    BY <2>1, <2>4, <2>5, SumAdd
  <2>7. LateOf(q, d) \in Nat BY <1>1, SidesNat
  <2>8. QED BY <1>7, <1>9, <2>3, <2>6, <2>7 DEF LateOf
<1>12. QED BY <1>5, <1>10, <1>11

(* A sale closes the lots that are due and leaves the others as they are. *)
LEMMA LotsSold ==
  ASSUME NEW q, NEW d \in Nat, GoodLots(q, d), NEW r \in Seq(Lots), Len(r) = Len(q),
         \A i \in DOMAIN q :
           IF q[i].available <= d
           THEN r[i].available = q[i].available /\ r[i].remaining = 0 /\ r[i].status = "closed"
           ELSE r[i] = q[i]
  PROVE  GoodLots(r, d) /\ DueOf(r, d) = 0 /\ LateOf(r, d) = LateOf(q, d)
<1>1. q \in Seq(Lots) BY DEF GoodLots
<1>2. DOMAIN r = DOMAIN q BY <1>1, LotsAre
<1>3. \A i \in DOMAIN q : q[i].available \in Nat BY <1>1, LotsAre DEF Lots
<1>4. GoodLots(r, d) BY <1>2, <1>3 DEF GoodLots
<1>5. MatureIn(r, d) = {} BY <1>2, <1>3 DEF MatureIn
<1>6. FreshIn(r, d) = FreshIn(q, d)
  <2>1. \A i \in DOMAIN q : i \in FreshIn(r, d) <=> i \in FreshIn(q, d)
    BY <1>2, <1>3 DEF FreshIn
  <2>2. QED BY <1>2, <2>1 DEF FreshIn
<1>7. DueOf(r, d) = 0 BY <1>5, SumEmpty DEF DueOf
<1>8. \A i \in FreshIn(q, d) : Rem(r)[i] = Rem(q)[i]
  BY <1>2, <1>3 DEF FreshIn, Rem
<1>9. LateOf(r, d) = LateOf(q, d) BY <1>1, <1>6, <1>8, SidesNat, SumSame DEF LateOf
<1>10. QED BY <1>4, <1>7, <1>9

(* Nothing is left of a position whose lots add up to nothing. *)
LEMMA LotsNone ==
  ASSUME NEW q, NEW d \in Nat, GoodLots(q, d), DueOf(q, d) = 0, LateOf(q, d) = 0
  PROVE  \A i \in DOMAIN q : q[i].remaining = 0
<1>1. q \in Seq(Lots) BY DEF GoodLots
<1>2. SUFFICES ASSUME NEW i \in DOMAIN q, q[i].remaining # 0 PROVE FALSE OBVIOUS
<1>3. i \in MatureIn(q, d) \/ i \in FreshIn(q, d)
  BY <1>1, <1>2, LotsAre DEF GoodLots, MatureIn, FreshIn, Lots
<1>4. \A T \in SUBSET (DOMAIN q) :
        i \in T /\ IsFiniteSet(T) => SumFunctionOnSet(Rem(q), T) # 0
  <2>1. SUFFICES ASSUME NEW T \in SUBSET (DOMAIN q), i \in T, IsFiniteSet(T)
                 PROVE  SumFunctionOnSet(Rem(q), T) # 0
    OBVIOUS
  <2>2. \A j \in T : Rem(q)[j] \in Nat BY <1>1, LotsAre
  <2>3. SumFunctionOnSet(Rem(q), T) = Rem(q)[i] + SumFunctionOnSet(Rem(q), T \ {i})
    BY <2>1, <2>2, SumLess
  <2>4. IsFiniteSet(T \ {i}) BY <2>1, FS_Subset
  <2>5. SumFunctionOnSet(Rem(q), T \ {i}) \in Nat BY <2>2, <2>4, SumNat
  <2>6. Rem(q)[i] \in Nat \ {0} BY <1>1, <1>2, LotsAre
  <2>7. QED BY <2>3, <2>5, <2>6
<1>5. QED BY <1>1, <1>3, <1>4, SidesNat DEF DueOf, LateOf

-----------------------------------------------------------------------------
(* Shares and money of sets of trades.                                       *)
Quantity == [t \in Fills |-> t.quantity]
Cost     == [t \in Fills |-> t.quantity * t.price]

LEMMA TradesSum ==
  ASSUME NEW T \in SUBSET Fills, IsFiniteSet(T)
  PROVE  /\ Shares(T) = SumFunctionOnSet(Quantity, T)
         /\ Money(T) = SumFunctionOnSet(Cost, T)
<1>. DEFINE quantity == [t \in T |-> t.quantity]
            cost == [t \in T |-> t.quantity * t.price]
<1>1. (\A t \in T : quantity[t] = Quantity[t]) /\ DOMAIN quantity = T BY DEF Quantity
<1>2. (\A t \in T : cost[t] = Cost[t]) /\ DOMAIN cost = T BY DEF Cost
<1>3. Shares(T) = SumFunction(quantity) /\ Money(T) = SumFunction(cost) BY DEF Shares, Money
<1>. HIDE DEF quantity, cost
<1>4. SumFunctionOnSet(quantity, T) = SumFunctionOnSet(Quantity, T) BY <1>1, SumSame
<1>5. SumFunctionOnSet(cost, T) = SumFunctionOnSet(Cost, T) BY <1>2, SumSame
<1>6. QED BY <1>1, <1>2, <1>3, <1>4, <1>5 DEF SumFunction

LEMMA TradeNat ==
  \A t \in Fills : /\ Quantity[t] = t.quantity /\ Quantity[t] \in Nat \ {0}
                   /\ Cost[t] = t.quantity * t.price /\ Cost[t] \in Nat
<1>1. SUFFICES ASSUME NEW t \in Fills
               PROVE  /\ Quantity[t] = t.quantity /\ Quantity[t] \in Nat \ {0}
                      /\ Cost[t] = t.quantity * t.price /\ Cost[t] \in Nat
  OBVIOUS
<1>2. t.quantity \in Nat \ {0} /\ t.price \in Nat BY AccountAssumption DEF Fills
<1>3. \A a, b \in Nat : a * b \in Nat OBVIOUS
<1>4. QED BY <1>2, <1>3 DEF Quantity, Cost

(* A new trade adds its own shares and money. *)
LEMMA TradesNew ==
  ASSUME NEW T \in SUBSET Fills, IsFiniteSet(T), NEW t \in Fills, t \notin T
  PROVE  /\ Shares(T \cup {t}) = Shares(T) + t.quantity
         /\ Money(T \cup {t}) = Money(T) + t.quantity * t.price
         /\ Shares(T) \in Nat /\ Money(T) \in Nat
<1>1. T \cup {t} \in SUBSET Fills /\ IsFiniteSet(T \cup {t}) BY FS_AddElement
<1>2. \A x \in T \cup {t} : Quantity[x] \in Nat /\ Cost[x] \in Nat BY <1>1, TradeNat
<1>3. /\ SumFunctionOnSet(Quantity, T \cup {t}) = Quantity[t] + SumFunctionOnSet(Quantity, T)
      /\ SumFunctionOnSet(Cost, T \cup {t}) = Cost[t] + SumFunctionOnSet(Cost, T)
  BY <1>2, SumAdd
<1>4. Shares(T) \in Nat /\ Money(T) \in Nat BY <1>2, SumNat, TradesSum
<1>5. /\ Shares(T \cup {t}) = Quantity[t] + Shares(T)
      /\ Money(T \cup {t}) = Cost[t] + Money(T)
  BY <1>1, <1>3, TradesSum
<1>6. QED BY <1>4, <1>5, TradeNat

(* Some of the trades have no more shares than all of them. *)
LEMMA TradesPart ==
  ASSUME NEW T \in SUBSET Fills, IsFiniteSet(T), NEW R \in SUBSET T
  PROVE  Shares(R) \in Nat /\ Shares(T) \in Nat /\ Shares(R) <= Shares(T)
<1>1. R \in SUBSET Fills /\ IsFiniteSet(R) BY FS_Subset
<1>2. \A x \in T : Quantity[x] \in Nat BY TradeNat
<1>3. QED BY <1>1, <1>2, SumPart, TradesSum

LEMMA TradesSplit ==
  ASSUME NEW T \in SUBSET Fills, IsFiniteSet(T), NEW R \in SUBSET T
  PROVE  Shares(T) = Shares(R) + Shares(T \ R)
<1>. DEFINE U == T \ R
<1>1. /\ R \in SUBSET Fills /\ IsFiniteSet(R) /\ U \in SUBSET Fills /\ IsFiniteSet(U)
      /\ R \cap U = {} /\ R \cup U = T
  BY FS_Subset
<1>. HIDE DEF U
<1>2. \A x \in R \cup U : Quantity[x] \in Nat BY <1>1, TradeNat
<1>3. SumFunctionOnSet(Quantity, T) = SumFunctionOnSet(Quantity, R) + SumFunctionOnSet(Quantity, U)
  BY <1>1, <1>2, SumSplit
<1>4. QED BY <1>1, <1>3, TradesSum DEF U

LEMMA TradesNone == Shares({}) = 0 /\ Money({}) = 0
BY SumEmpty, TradesSum, FS_EmptySet

-----------------------------------------------------------------------------
(* The inductive invariant. *)

Types ==
  /\ today \in Dates
  /\ cash \in [amount : Nat, trade_date : Dates]
  /\ position \in [Stocks -> Positions]
  /\ lots \in [Stocks -> Seq(Lots)]
  /\ proposal \in [ProposalIds -> Proposals]
  /\ trades \in SUBSET Fills /\ IsFiniteSet(trades)

(* A trade executed its proposal, in no later episode than the present one.  *)
TradesKnown ==
  \A t \in trades :
    /\ proposal[t.proposal].status = "executed"
    /\ t.date <= today
    /\ t.episode <= position[t.stock].episode
    /\ t.side = "sell" => t.episode = proposal[t.proposal].episode

(* The position row and its lots. *)
Rows(s) ==
  /\ GoodLots(lots[s], today)
  /\ position[s].quantity = DueOf(lots[s], today) + LateOf(lots[s], today)
  /\ position[s].quantity = position[s].available + position[s].locked
  /\ position[s].status = "open_virtual" <=> position[s].quantity > 0
  /\ \A i \in DOMAIN lots[s] :
       lots[s][i].remaining > 0 => lots[s][i].episode = position[s].episode

(* Its trades: what was bought and not sold is held, the shares bought today *)
(* are those that are not due, each episode balances, and nothing was sold   *)
(* on the day it was bought.                                                 *)
Balance(s, e) ==
  Shares(Of(Bought(s), e)) =
    Shares(Of(Sold(s), e)) + (IF e = position[s].episode THEN position[s].quantity ELSE 0)
Overnight(s, d) ==
  Shares({t \in Sold(s) : t.date <= d}) <= Shares({t \in Bought(s) : t.date < d})

Records(s) ==
  /\ Shares(Bought(s)) = Shares(Sold(s)) + position[s].quantity
  /\ Shares({t \in Bought(s) : t.date = today}) = LateOf(lots[s], today)
  /\ \A e \in 1 .. position[s].episode : Balance(s, e)
  /\ \A d \in Dates : Overnight(s, d)

Purchases == {t \in trades : t.side = "buy"}
Sales     == {t \in trades : t.side = "sell"}
CashKept  == cash.amount + Money(Purchases) = InitialCash + Money(Sales)

AccountInv ==
  Types /\ TradesKnown /\ CashKept /\ \A s \in Stocks : Rows(s) /\ Records(s)

LEMMA Sides ==
  ASSUME NEW s
  PROVE  /\ Matured(s) = DueOf(lots[s], today)
         /\ Unripe(s) = LateOf(lots[s], today)
BY DEF Matured, Unripe, Remaining, DueOf, LateOf, Rem, MatureIn, FreshIn, Mature, Fresh

LEMMA SidesNext ==
  ASSUME NEW s
  PROVE  /\ Matured(s)' = DueOf(lots'[s], today')
         /\ Unripe(s)' = LateOf(lots'[s], today')
BY DEF Matured, Unripe, Remaining, DueOf, LateOf, Rem, MatureIn, FreshIn, Mature, Fresh

LEMMA TradesOf ==
  ASSUME Types, NEW s
  PROVE  /\ Bought(s) \in SUBSET Fills /\ IsFiniteSet(Bought(s))
         /\ Sold(s) \in SUBSET Fills /\ IsFiniteSet(Sold(s))
<1>1. Bought(s) \in SUBSET trades /\ Sold(s) \in SUBSET trades BY DEF Bought, Sold
<1>2. QED BY <1>1, FS_Subset DEF Types

-----------------------------------------------------------------------------
LEMMA InitInv == Init => AccountInv
<1>1. SUFFICES ASSUME Init PROVE AccountInv OBVIOUS
<1>2. Types
  <2>1. today \in Dates /\ cash \in [amount : Nat, trade_date : Dates]
    BY <1>1, AccountAssumption DEF Init, Dates
  <2>2. position \in [Stocks -> Positions]
    BY <1>1, AccountAssumption DEF Init, NoPosition, Positions, Dates
  <2>3. lots \in [Stocks -> Seq(Lots)] BY <1>1 DEF Init
  <2>4. proposal \in [ProposalIds -> Proposals] BY <1>1 DEF Init, Proposals
  <2>5. trades \in SUBSET Fills /\ IsFiniteSet(trades) BY <1>1, FS_EmptySet DEF Init
  <2>6. QED BY <2>1, <2>2, <2>3, <2>4, <2>5 DEF Types
<1>3. TradesKnown BY <1>1 DEF Init, TradesKnown
<1>4. CashKept
  <2>1. Purchases = {} /\ Sales = {} BY <1>1 DEF Init, Purchases, Sales
  <2>2. QED BY <1>1, <2>1, TradesNone, AccountAssumption DEF Init, CashKept
<1>5. ASSUME NEW s \in Stocks PROVE Rows(s)
  <2>1. lots[s] = <<>> /\ DOMAIN lots[s] = {} /\ today = 0 BY <1>1, <1>5 DEF Init
  <2>2. GoodLots(lots[s], today) BY <2>1 DEF GoodLots
  <2>3. MatureIn(lots[s], today) = {} /\ FreshIn(lots[s], today) = {}
    BY <2>1 DEF MatureIn, FreshIn
  <2>4. DueOf(lots[s], today) = 0 /\ LateOf(lots[s], today) = 0
    BY <2>3, SumEmpty DEF DueOf, LateOf
  <2>5. position[s] = NoPosition BY <1>1, <1>5 DEF Init
  <2>6. QED BY <2>1, <2>2, <2>4, <2>5 DEF Rows, NoPosition
<1>6. ASSUME NEW s \in Stocks PROVE Records(s)
  <2>1. trades = {} /\ position[s] = NoPosition BY <1>1, <1>6 DEF Init
  <2>2. Bought(s) = {} /\ Sold(s) = {} BY <2>1 DEF Bought, Sold
  <2>3. LateOf(lots[s], today) = 0
    <3>1. FreshIn(lots[s], today) = {} BY <1>1, <1>6 DEF Init, FreshIn
    <3>2. QED BY <3>1, SumEmpty DEF LateOf
  <2>4. {t \in Bought(s) : t.date = today} = {} BY <2>2
  <2>5. \A d : {t \in Bought(s) : t.date < d} = {} /\ {t \in Sold(s) : t.date <= d} = {} BY <2>2
  <2>6. \A d \in Dates : Overnight(s, d) BY <2>5, TradesNone DEF Overnight
  <2>7. \A e \in 1 .. position[s].episode : Balance(s, e) BY <2>1 DEF NoPosition
  <2>8. QED BY <2>1, <2>2, <2>3, <2>4, <2>6, <2>7, TradesNone DEF Records, NoPosition
<1>7. QED BY <1>2, <1>3, <1>4, <1>5, <1>6 DEF AccountInv

-----------------------------------------------------------------------------
(* A day. *)
LEMMA NextDayInv == AccountInv /\ NextDay => AccountInv'
<1>1. SUFFICES ASSUME AccountInv, NextDay PROVE AccountInv' OBVIOUS
<1>2. /\ today' = today + 1 /\ today' \in Dates /\ today \in Nat
      /\ cash' = cash /\ position' = position /\ lots' = lots
      /\ proposal' = proposal /\ trades' = trades
  BY <1>1, AccountAssumption DEF NextDay, AccountInv, Types, Dates
<1>3. Types' BY <1>1, <1>2 DEF AccountInv, Types
<1>4. \A t \in trades : t.date \in Nat /\ t.date <= today
  BY <1>1 DEF AccountInv, Types, TradesKnown, Fills, Dates
<1>5. TradesKnown' BY <1>1, <1>2, <1>4 DEF AccountInv, TradesKnown
<1>6. CashKept' BY <1>1, <1>2 DEF AccountInv, CashKept, Purchases, Sales
<1>7. ASSUME NEW s \in Stocks PROVE Rows(s)' /\ Records(s)'
  <2>1. Rows(s) /\ Records(s) BY <1>1, <1>7 DEF AccountInv
  <2>2. /\ GoodLots(lots[s], today + 1)
        /\ DueOf(lots[s], today + 1) = DueOf(lots[s], today) + LateOf(lots[s], today)
        /\ LateOf(lots[s], today + 1) = 0
    BY <1>2, <2>1, LotsNextDay DEF Rows
  <2>3. DueOf(lots[s], today) \in Nat /\ LateOf(lots[s], today) \in Nat
    BY <2>1, SidesNat DEF Rows, GoodLots
  <2>4. Rows(s)' BY <1>2, <2>1, <2>2, <2>3 DEF Rows
  <2>5. Bought(s)' = Bought(s) /\ Sold(s)' = Sold(s) BY <1>2 DEF Bought, Sold
  <2>6. {t \in Bought(s) : t.date = today + 1} = {} BY <1>2, <1>4 DEF Bought
  <2>7. Shares({t \in Bought(s) : t.date = today})' = LateOf(lots[s], today)'
    <3>1. Shares({t \in Bought(s)' : t.date = today'}) = 0
      BY <1>2, <2>5, <2>6, TradesNone
    <3>2. LateOf(lots'[s], today') = 0 BY <1>2, <2>2
    <3>3. QED BY <3>1, <3>2
  <2>8. \A e \in 1 .. position'[s].episode : Balance(s, e)'
    BY <1>2, <2>1, <2>5 DEF Records, Balance
  <2>9. \A d \in Dates : Overnight(s, d)' BY <2>1, <2>5 DEF Records, Overnight
  <2>10. Records(s)' BY <1>2, <2>1, <2>5, <2>7, <2>8, <2>9 DEF Records
  <2>11. QED BY <2>4, <2>10
<1>8. QED BY <1>3, <1>5, <1>6, <1>7 DEF AccountInv

(* What a step leaves alone: a stock whose rows and trades it does not touch. *)
LEMMA StockQuiet ==
  ASSUME NEW s, Rows(s), Records(s), today' = today,
         lots'[s] = lots[s], position'[s] = position[s],
         Bought(s)' = Bought(s), Sold(s)' = Sold(s)
  PROVE  Rows(s)' /\ Records(s)'
<1>1. Rows(s)' BY DEF Rows
<1>2. Shares(Bought(s))' = Shares(Sold(s))' + position'[s].quantity BY DEF Records
<1>3. Shares({t \in Bought(s) : t.date = today})' = LateOf(lots'[s], today') BY DEF Records
<1>4. \A e \in 1 .. position'[s].episode : Balance(s, e)' BY DEF Records, Balance
<1>5. \A d \in Dates : Overnight(s, d)' BY DEF Records, Overnight
<1>6. QED BY <1>1, <1>2, <1>3, <1>4, <1>5 DEF Records

(* A new proposal. *)
LEMMA ProposeInv ==
  ASSUME NEW p \in ProposalIds, NEW s \in Stocks, AccountInv,
         ProposeBuy(p, s) \/ ProposeSale(p, s)
  PROVE  AccountInv'
<1>1. PICK new \in Proposals : proposal' = [proposal EXCEPT ![p] = new]
  <2>1. position[s].episode \in Nat BY DEF AccountInv, Types, Positions
  <2>2. CASE ProposeBuy(p, s) BY <2>2 DEF ProposeBuy, Proposals
  <2>3. CASE ProposeSale(p, s) BY <2>1, <2>3 DEF ProposeSale, Proposals
  <2>4. QED BY <2>2, <2>3
<1>2. /\ today' = today /\ cash' = cash /\ position' = position /\ lots' = lots
      /\ trades' = trades /\ proposal[p] = NoProposal
  BY DEF ProposeBuy, ProposeSale
<1>3. proposal \in [ProposalIds -> Proposals] BY DEF AccountInv, Types
<1>4. Types' BY <1>1, <1>2 DEF AccountInv, Types
<1>5. TradesKnown'
  <2>1. \A t \in trades : t.proposal \in ProposalIds /\ t.proposal # p
    BY <1>2 DEF AccountInv, Types, TradesKnown, Fills, NoProposal
  <2>2. \A t \in trades : proposal'[t.proposal] = proposal[t.proposal]
    BY <1>1, <1>3, <2>1
  <2>3. QED BY <1>2, <2>2 DEF AccountInv, TradesKnown
<1>6. CashKept' BY <1>2 DEF AccountInv, CashKept, Purchases, Sales
<1>7. ASSUME NEW u \in Stocks PROVE Rows(u)' /\ Records(u)'
  <2>1. Bought(u)' = Bought(u) /\ Sold(u)' = Sold(u) BY <1>2 DEF Bought, Sold
  <2>2. Rows(u) /\ Records(u) BY <1>7 DEF AccountInv
  <2>3. QED BY <1>2, <2>1, <2>2, StockQuiet
<1>8. QED BY <1>4, <1>5, <1>6, <1>7 DEF AccountInv

-----------------------------------------------------------------------------
(* The trade a fill records. *)
TradeOf(p, n, price, episode) ==
  [proposal |-> p, side |-> proposal[p].side, stock |-> proposal[p].stock,
   episode |-> episode, quantity |-> n, price |-> price, date |-> today]

LEMMA NewTrade ==
  ASSUME AccountInv, NEW p \in ProposalIds, proposal[p].status = "live",
         NEW n \in Nat \ {0}, NEW price \in Prices, NEW episode \in Nat \ {0}, NEW amount,
         Settled(p, n, price, episode, amount), NEW t, t = TradeOf(p, n, price, episode)
  PROVE  /\ t \in Fills /\ t \notin trades /\ t.side \in {"buy", "sell"} /\ t.stock \in Stocks
         /\ trades' = trades \cup {t} /\ trades' \in SUBSET Fills /\ IsFiniteSet(trades')
         /\ \A s : Bought(s)' = IF t.side = "buy" /\ s = t.stock
                                THEN Bought(s) \cup {t} ELSE Bought(s)
         /\ \A s : Sold(s)' = IF t.side = "sell" /\ s = t.stock
                              THEN Sold(s) \cup {t} ELSE Sold(s)
         /\ Purchases' = IF t.side = "buy" THEN Purchases \cup {t} ELSE Purchases
         /\ Sales' = IF t.side = "sell" THEN Sales \cup {t} ELSE Sales
         /\ proposal' \in [ProposalIds -> Proposals]
         /\ \A o \in ProposalIds \ {p} : proposal'[o] = proposal[o]
         /\ proposal'[p].status = "executed" /\ proposal'[p].episode = proposal[p].episode
<1>0. Types /\ TradesKnown BY DEF AccountInv
<1>1. proposal \in [ProposalIds -> Proposals] /\ today \in Dates BY <1>0 DEF Types
<1>2. proposal[p] \in [status : {"live", "executed"}, side : {"buy", "sell"},
                       stock : Stocks, episode : Nat]
  BY <1>1 DEF Proposals, NoProposal
<1>3. t \in Fills /\ t.side \in {"buy", "sell"} /\ t.stock \in Stocks
  BY <1>1, <1>2 DEF TradeOf, Fills
<1>4. t \notin trades BY <1>0 DEF TradesKnown, TradeOf
<1>5. trades' = trades \cup {t} BY DEF Settled, TradeOf
<1>6. trades' \in SUBSET Fills /\ IsFiniteSet(trades')
  BY <1>0, <1>3, <1>5, FS_AddElement DEF Types
<1>7. /\ \A s : Bought(s)' = IF t.side = "buy" /\ s = t.stock
                             THEN Bought(s) \cup {t} ELSE Bought(s)
      /\ \A s : Sold(s)' = IF t.side = "sell" /\ s = t.stock
                           THEN Sold(s) \cup {t} ELSE Sold(s)
      /\ Purchases' = IF t.side = "buy" THEN Purchases \cup {t} ELSE Purchases
      /\ Sales' = IF t.side = "sell" THEN Sales \cup {t} ELSE Sales
  BY <1>5 DEF Bought, Sold, Purchases, Sales
<1>8. proposal' = [proposal EXCEPT ![p] = [proposal[p] EXCEPT !.status = "executed"]]
  BY DEF Settled
<1>9. [proposal[p] EXCEPT !.status = "executed"] \in Proposals BY <1>2 DEF Proposals
<1>10. /\ proposal' \in [ProposalIds -> Proposals]
       /\ \A o \in ProposalIds \ {p} : proposal'[o] = proposal[o]
       /\ proposal'[p].status = "executed" /\ proposal'[p].episode = proposal[p].episode
  BY <1>1, <1>2, <1>8, <1>9
<1>11. QED BY <1>3, <1>4, <1>5, <1>6, <1>7, <1>10

(* Trades stay known when the new one is. *)
LEMMA TradesStayKnown ==
  ASSUME AccountInv, NEW p \in ProposalIds, NEW t \in Fills,
         t.proposal = p, t.date = today, today' = today,
         trades' = trades \cup {t},
         \A o \in ProposalIds \ {p} : proposal'[o] = proposal[o],
         proposal'[p].status = "executed", proposal'[p].episode = proposal[p].episode,
         t.episode <= position'[t.stock].episode,
         \A s \in Stocks : /\ position[s].episode \in Nat /\ position'[s].episode \in Nat
                           /\ position[s].episode <= position'[s].episode,
         t.side = "sell" => t.episode = proposal[p].episode
  PROVE  TradesKnown'
<1>1. SUFFICES ASSUME NEW u \in trades'
               PROVE  /\ proposal'[u.proposal].status = "executed"
                      /\ u.date <= today'
                      /\ u.episode <= position'[u.stock].episode
                      /\ u.side = "sell" => u.episode = proposal'[u.proposal].episode
  BY DEF TradesKnown
<1>2. today \in Nat BY AccountAssumption DEF AccountInv, Types, Dates
<1>3. CASE u = t BY <1>2, <1>3
<1>4. CASE u \in trades
  <2>1. u \in Fills /\ TradesKnown BY <1>4 DEF AccountInv, Types
  <2>2. /\ proposal[u.proposal].status = "executed" /\ u.date <= today
        /\ u.episode <= position[u.stock].episode
        /\ u.side = "sell" => u.episode = proposal[u.proposal].episode
    BY <1>4, <2>1 DEF TradesKnown
  <2>3. u.proposal \in ProposalIds /\ u.stock \in Stocks /\ u.episode \in Nat
    BY <2>1 DEF Fills
  <2>4. proposal'[u.proposal].status = "executed"
        /\ proposal'[u.proposal].episode = proposal[u.proposal].episode
    BY <2>2, <2>3
  <2>5. u.episode <= position'[u.stock].episode BY <2>2, <2>3
  <2>6. QED BY <2>2, <2>4, <2>5
<1>5. QED BY <1>1, <1>3, <1>4

-----------------------------------------------------------------------------
(* Arithmetic of a purchase. *)
LEMMA MinOfTwo ==
  ASSUME NEW a \in Nat, NEW b \in Nat
  PROVE  Min({a, b}) = IF a <= b THEN a ELSE b
<1>. DEFINE m == IF a <= b THEN a ELSE b
<1>1. m \in {a, b} /\ \A y \in {a, b} : m <= y OBVIOUS
<1>2. \A x \in {a, b} : (\A y \in {a, b} : x <= y) => x = m OBVIOUS
<1>. HIDE DEF m
<1>3. Min({a, b}) = m BY <1>1, <1>2 DEF Min
<1>4. QED BY <1>3 DEF m

LEMMA DivBound ==
  ASSUME NEW a \in Nat, NEW b \in Nat, a <= b, NEW c \in Nat \ {0}
  PROVE  a \div c \in Nat /\ a \div c <= b \div c
OBVIOUS

LEMMA Affordable ==
  ASSUME Types, NEW price \in Prices, AffordableLots(price) >= 1,
         AffordableLots(price) * price <= cash.amount
  PROVE  /\ AffordableLots(price) \in Nat \ {0}
         /\ AffordableLots(price) <= cash.amount \div price
         /\ AffordableLots(price) * price \in Nat
         /\ cash.amount - AffordableLots(price) * price \in Nat
<1>. DEFINE n == AffordableLots(price)
<1>1. cash.amount \in Nat /\ Budget \in Nat /\ price \in Nat \ {0}
  BY AccountAssumption DEF Types
<1>2. Min({Budget, cash.amount}) \in Nat /\ Min({Budget, cash.amount}) <= cash.amount
  BY <1>1, MinOfTwo
<1>3. n \in Nat /\ n <= cash.amount \div price BY <1>1, <1>2, DivBound DEF AffordableLots
<1>. HIDE DEF n
<1>4. n * price \in Nat BY <1>1, <1>3
<1>. DEFINE cost == n * price
<1>5. n >= 1 /\ cost <= cash.amount BY DEF n
<1>6. cost \in Nat BY <1>4
<1>. HIDE DEF cost
<1>7. cash.amount - cost \in Nat BY <1>1, <1>5, <1>6
<1>8. n \in Nat \ {0} BY <1>3, <1>5
<1>9. QED BY <1>3, <1>6, <1>7, <1>8 DEF n, cost

LEMMA RipenedLots ==
  ASSUME NEW s, lots[s] \in Seq(Lots)
  PROVE  /\ Ripened(s) \in Seq(Lots) /\ Len(Ripened(s)) = Len(lots[s])
         /\ DOMAIN Ripened(s) = DOMAIN lots[s]
         /\ \A i \in DOMAIN lots[s] :
              /\ Ripened(s)[i].remaining = lots[s][i].remaining
              /\ Ripened(s)[i].available = lots[s][i].available
              /\ Ripened(s)[i].episode = lots[s][i].episode
              /\ Ripened(s)[i].status =
                   IF lots[s][i].remaining > 0 /\ i \in MatureIn(lots[s], today)
                   THEN "available" ELSE lots[s][i].status
<1>. DEFINE q == lots[s]  r == Ripened(s)
<1>1. DOMAIN q = 1 .. Len(q) /\ Len(q) \in Nat /\ \A i \in DOMAIN q : q[i] \in Lots BY LotsAre
<1>2. /\ DOMAIN r = DOMAIN q
      /\ \A i \in DOMAIN q :
           r[i] = IF q[i].remaining > 0 /\ i \in MatureIn(q, today)
                  THEN [q[i] EXCEPT !.status = "available"] ELSE q[i]
  BY DEF Ripened, Mature, MatureIn
<1>3. r = [i \in DOMAIN q |-> r[i]] BY DEF Ripened
<1>. HIDE DEF q, r
<1>4. \A i \in DOMAIN q :
        /\ r[i] \in Lots
        /\ r[i].remaining = q[i].remaining /\ r[i].available = q[i].available
        /\ r[i].episode = q[i].episode
        /\ r[i].status = IF q[i].remaining > 0 /\ i \in MatureIn(q, today)
                         THEN "available" ELSE q[i].status
  BY <1>1, <1>2 DEF Lots
<1>5. r \in [1 .. Len(q) -> Lots] BY <1>1, <1>3, <1>4
<1>6. r \in Seq(Lots) BY <1>1, <1>5, SeqDef
<1>7. Len(r) = Len(q) BY <1>1, <1>2, <1>6, LotsAre
<1>8. QED BY <1>2, <1>4, <1>6, <1>7 DEF q, r

(* The rows of the stock bought. *)
LEMMA BuyRows ==
  ASSUME NEW s, NEW n \in Nat \ {0}, NEW episode \in Nat \ {0},
         today \in Nat, position[s] \in Positions, Rows(s), today' = today,
         episode = IF Reopens(s) THEN position[s].episode + 1 ELSE position[s].episode,
         position'[s] = [status |-> "open_virtual", quantity |-> position[s].quantity + n,
           available |-> Matured(s), locked |-> Unripe(s) + n, episode |-> episode,
           first_open |-> IF Reopens(s) THEN today ELSE position[s].first_open],
         lots'[s] = Append(Ripened(s),
           [episode |-> episode, available |-> UnlockDate,
            remaining |-> n, status |-> "locked_t1"])
  PROVE  /\ lots'[s] \in Seq(Lots) /\ Rows(s)'
         /\ DueOf(lots'[s], today) = DueOf(lots[s], today)
         /\ LateOf(lots'[s], today) = LateOf(lots[s], today) + n
<1>. DEFINE q == lots[s]  r == lots'[s]  k == Len(q) + 1
            new == [episode |-> episode, available |-> UnlockDate,
                    remaining |-> n, status |-> "locked_t1"]
<1>1. q \in Seq(Lots) /\ GoodLots(q, today) BY DEF Rows, GoodLots
<1>2. new \in Lots BY DEF Lots, UnlockDate
<1>3. r = Append(Ripened(s), new) OBVIOUS
<1>4. new.available = today + 1 /\ new.remaining = n /\ new.status = "locked_t1"
      /\ new.episode = episode
  BY DEF UnlockDate
<1>. HIDE DEF new
<1>5. /\ r \in Seq(Lots) /\ Len(r) = k /\ r[k] = new
      /\ \A i \in 1 .. Len(q) : r[i] = Ripened(s)[i]
  BY <1>1, <1>2, <1>3, RipenedLots, AppendProperties
<1>6. DOMAIN q = 1 .. Len(q) /\ Len(q) \in Nat /\ DOMAIN r = 1 .. k BY <1>1, <1>5, LotsAre
<1>7. /\ \A i \in DOMAIN q :
           /\ r[i].remaining = q[i].remaining /\ r[i].available = q[i].available
           /\ r[i].episode = q[i].episode
           /\ r[i].status = IF q[i].remaining > 0 /\ i \in MatureIn(q, today)
                            THEN "available" ELSE q[i].status
  BY <1>1, <1>5, <1>6, RipenedLots
<1>8. /\ GoodLots(r, today) /\ DueOf(r, today) = DueOf(q, today)
      /\ LateOf(r, today) = LateOf(q, today) + n
  <2>1. /\ Len(r) = Len(q) + 1 /\ r[Len(q) + 1].available = today + 1
        /\ r[Len(q) + 1].remaining = n /\ r[Len(q) + 1].status = "locked_t1"
    BY <1>4, <1>5
  <2>. HIDE DEF q, r, k
  <2>2. QED BY <1>1, <1>5, <1>7, <2>1, LotsBought
<1>9. DueOf(q, today) \in Nat /\ LateOf(q, today) \in Nat BY <1>1, SidesNat
<1>10. Matured(s) = DueOf(q, today) /\ Unripe(s) = LateOf(q, today) BY Sides
<1>11. position[s].quantity = DueOf(q, today) + LateOf(q, today) BY DEF Rows
<1>12. \A i \in DOMAIN r : r[i].remaining > 0 => r[i].episode = episode
  <2>1. SUFFICES ASSUME NEW i \in DOMAIN r, r[i].remaining > 0 PROVE r[i].episode = episode
    OBVIOUS
  <2>2. CASE i = k BY <1>4, <1>5, <2>2
  <2>3. CASE i \in DOMAIN q
    <3>1. q[i].remaining > 0 /\ r[i].episode = q[i].episode BY <1>7, <2>1, <2>3
    <3>2. q[i].episode = position[s].episode BY <2>3, <3>1 DEF Rows
    <3>3. ~ Reopens(s)
      <4>1. SUFFICES ASSUME Reopens(s) PROVE FALSE OBVIOUS
      <4>2. position[s].quantity = 0 BY <1>9, <1>11, <4>1 DEF Rows, Reopens
      <4>3. DueOf(q, today) = 0 /\ LateOf(q, today) = 0 BY <1>9, <1>11, <4>2
      <4>4. q[i].remaining = 0 BY <1>1, <2>3, <4>3, LotsNone
      <4>5. QED BY <3>1, <4>4
    <3>4. QED BY <3>1, <3>2, <3>3
  <2>4. QED BY <1>6, <2>2, <2>3
<1>. HIDE DEF q, r
<1>13. /\ position'[s].quantity = DueOf(r, today) + LateOf(r, today)
       /\ position'[s].quantity = position'[s].available + position'[s].locked
       /\ position'[s].status = "open_virtual" /\ position'[s].quantity > 0
       /\ position'[s].episode = episode
  BY <1>8, <1>9, <1>10, <1>11
<1>14. Rows(s)' BY <1>8, <1>12, <1>13 DEF Rows, r
<1>15. QED BY <1>5, <1>8, <1>14 DEF q, r

(* The trades of the stock bought. *)
LEMMA BuyRecords ==
  ASSUME NEW s, NEW t \in Fills, NEW n \in Nat \ {0}, AccountInv, s \in Stocks,
         t.quantity = n, t.date = today, t \notin trades, today' = today,
         Bought(s)' = Bought(s) \cup {t}, Sold(s)' = Sold(s),
         position'[s].quantity = position[s].quantity + n,
         position'[s].episode = t.episode,
         LateOf(lots'[s], today) = LateOf(lots[s], today) + n,
         \/ t.episode = position[s].episode
         \/ t.episode = position[s].episode + 1 /\ position[s].quantity = 0
  PROVE  Records(s)'
<1>. DEFINE B == Bought(s)  S == Sold(s)
<1>1. /\ B \in SUBSET Fills /\ IsFiniteSet(B) /\ S \in SUBSET Fills /\ IsFiniteSet(S)
      /\ B \subseteq trades /\ S \subseteq trades
  BY TradesOf DEF AccountInv, Bought, Sold
<1>2. t \notin B /\ Records(s) BY <1>1 DEF AccountInv
<1>3. position[s].quantity \in Nat /\ position[s].episode \in Nat /\ today \in Nat
  BY AccountAssumption DEF AccountInv, Types, Positions, Dates
<1>4. Shares(B \cup {t}) = Shares(B) + n /\ Shares(B) \in Nat BY <1>1, <1>2, TradesNew
<1>5. Shares(S) \in Nat BY <1>1, TradesPart
<1>6. Shares(Bought(s))' = Shares(Sold(s))' + position'[s].quantity
  BY <1>2, <1>3, <1>4, <1>5 DEF Records
<1>7. Shares({x \in Bought(s) : x.date = today})' = LateOf(lots'[s], today')
  <2>. DEFINE D == {x \in B : x.date = today}
  <2>1. D \in SUBSET Fills /\ IsFiniteSet(D) /\ t \notin D BY <1>1, <1>2, FS_Subset
  <2>2. {x \in B \cup {t} : x.date = today} = D \cup {t} OBVIOUS
  <2>3. Shares(D \cup {t}) = Shares(D) + n BY <2>1, TradesNew
  <2>4. Shares(D) = LateOf(lots[s], today) BY <1>2 DEF Records
  <2>5. QED BY <2>2, <2>3, <2>4
<1>8. ASSUME NEW e \in 1 .. position'[s].episode PROVE Balance(s, e)'
  <2>1. Of(Bought(s), e)' = IF e = t.episode THEN Of(B, e) \cup {t} ELSE Of(B, e) BY DEF Of
  <2>2. Of(Sold(s), e)' = Of(S, e) BY DEF Of
  <2>3. Of(B, e) \in SUBSET Fills /\ IsFiniteSet(Of(B, e)) /\ t \notin Of(B, e)
    BY <1>1, <1>2, FS_Subset DEF Of
  <2>4. Shares(Of(B, e) \cup {t}) = Shares(Of(B, e)) + n /\ Shares(Of(B, e)) \in Nat
    BY <2>3, TradesNew
  <2>5. Of(S, e) \in SUBSET S /\ Shares(Of(S, e)) \in Nat BY <1>1, TradesPart DEF Of
  <2>6. CASE e \in 1 .. position[s].episode
    <3>1. Balance(s, e) BY <1>2, <2>6 DEF Records
    <3>2. Shares(Of(B, e)) = Shares(Of(S, e))
            + (IF e = position[s].episode THEN position[s].quantity ELSE 0)
      BY <3>1 DEF Balance
    <3>3. Shares(Of(Bought(s), e))' = IF e = t.episode THEN Shares(Of(B, e)) + n ELSE Shares(Of(B, e))
      BY <2>1, <2>4
    <3>4. Shares(Of(Sold(s), e))' = Shares(Of(S, e)) BY <2>2
    <3>5. Shares(Of(Bought(s), e))' = Shares(Of(Sold(s), e))'
            + (IF e = position'[s].episode THEN position'[s].quantity ELSE 0)
      <4>1. CASE t.episode = position[s].episode
        BY <1>3, <2>4, <2>5, <3>2, <3>3, <3>4, <4>1
      <4>2. CASE t.episode = position[s].episode + 1 /\ position[s].quantity = 0
        BY <1>3, <2>4, <2>5, <2>6, <3>2, <3>3, <3>4, <4>2
      <4>3. QED BY <4>1, <4>2
    <3>6. QED BY <3>5 DEF Balance
  <2>7. CASE e \notin 1 .. position[s].episode
    <3>1. /\ e = t.episode /\ t.episode = position[s].episode + 1 /\ position[s].quantity = 0
      BY <1>3, <2>7
    <3>2. \A x \in trades : x.stock = s => x.episode \in Nat /\ x.episode <= position[s].episode
      BY DEF AccountInv, Types, TradesKnown, Fills
    <3>3. Of(B, e) = {} /\ Of(S, e) = {} BY <1>3, <3>1, <3>2 DEF Of, Bought, Sold
    <3>4. Shares(Of(B, e)) = 0 /\ Shares(Of(S, e)) = 0 BY <3>3, TradesNone
    <3>5. Of(Bought(s), e)' = Of(B, e) \cup {t} BY <2>1, <3>1
    <3>6. Shares(Of(B, e) \cup {t}) = n BY <2>4, <3>4
    <3>7. Shares(Of(Bought(s), e))' = n BY <3>5, <3>6
    <3>8. Shares(Of(Sold(s), e))' = 0 BY <2>2, <3>4
    <3>9. QED BY <1>3, <3>1, <3>7, <3>8 DEF Balance
  <2>8. QED BY <2>6, <2>7
<1>9. ASSUME NEW d \in Dates PROVE Overnight(s, d)'
  <2>. DEFINE D == {x \in B : x.date < d}  E == {x \in B \cup {t} : x.date < d}
              F == {x \in S : x.date <= d}
  <2>1. Shares(F) <= Shares(D) BY <1>2 DEF Records, Overnight
  <2>2. B \cup {t} \in SUBSET Fills /\ IsFiniteSet(B \cup {t}) BY <1>1, FS_AddElement
  <2>3. E \in SUBSET Fills /\ IsFiniteSet(E) /\ D \in SUBSET E BY <2>2, FS_Subset
  <2>4. Shares(D) \in Nat /\ Shares(E) \in Nat /\ Shares(D) <= Shares(E) BY <2>3, TradesPart
  <2>5. F \in SUBSET S OBVIOUS
  <2>6. Shares(F) \in Nat BY <1>1, <2>5, TradesPart
  <2>7. Shares(F) <= Shares(E) BY <2>1, <2>4, <2>6
  <2>8. QED BY <2>7 DEF Overnight
<1>10. QED BY <1>6, <1>7, <1>8, <1>9 DEF Records

(* A purchase keeps the invariant and does what it does to money and shares. *)
BuyOf(s, n, price) ==
  /\ today' = today
  /\ cash'.amount = cash.amount - n * price
  /\ DueOf(lots'[s], today) = DueOf(lots[s], today)
  /\ LateOf(lots'[s], today) = LateOf(lots[s], today) + n
  /\ \A u \in Stocks \ {s} : lots'[u] = lots[u]

LEMMA FillBuyInv ==
  ASSUME NEW p \in ProposalIds, NEW price \in Prices, AccountInv, FillBuy(p, price)
  PROVE  AccountInv' /\ \E s \in Stocks, n \in 1 .. (cash.amount \div price) : BuyOf(s, n, price)
<1>a. SUFFICES
        ASSUME NEW s, s = proposal[p].stock,
               NEW n, n = AffordableLots(price),
               NEW episode,
               episode = IF Reopens(s) THEN position[s].episode + 1 ELSE position[s].episode,
               NEW amount, amount = cash.amount - n * price,
               NEW t, t = TradeOf(p, n, price, episode)
        PROVE  AccountInv' /\ s \in Stocks /\ n \in 1 .. (cash.amount \div price)
               /\ BuyOf(s, n, price)
  OBVIOUS
<1>0. Types /\ TradesKnown BY DEF AccountInv
<1>1. /\ proposal[p].status = "live" /\ proposal[p].side = "buy"
      /\ n >= 1 /\ n * price <= cash.amount
      /\ Settled(p, n, price, episode, amount)
      /\ position' = [position EXCEPT ![s] =
           [status |-> "open_virtual", quantity |-> position[s].quantity + n,
            available |-> Matured(s), locked |-> Unripe(s) + n, episode |-> episode,
            first_open |-> IF Reopens(s) THEN today ELSE position[s].first_open]]
      /\ lots' = [lots EXCEPT ![s] = Append(Ripened(s),
           [episode |-> episode, available |-> UnlockDate,
            remaining |-> n, status |-> "locked_t1"])]
      /\ today' = today
  BY <1>a DEF FillBuy
<1>2. /\ n \in Nat \ {0} /\ n * price \in Nat /\ amount \in Nat
      /\ n <= cash.amount \div price
  BY <1>0, <1>1, <1>a, Affordable
<1>3. proposal[p] \in [status : {"live", "executed"}, side : {"buy", "sell"},
                       stock : Stocks, episode : Nat]
  BY <1>0, <1>1 DEF Types, Proposals, NoProposal
<1>4. /\ s \in Stocks /\ position[s] \in Positions /\ today \in Dates /\ today \in Nat
      /\ lots[s] \in Seq(Lots) /\ DOMAIN position = Stocks /\ DOMAIN lots = Stocks
  BY <1>0, <1>3, <1>a, AccountAssumption DEF Types, Dates
<1>5. Rows(s) /\ Records(s) BY <1>4 DEF AccountInv
<1>6. DueOf(lots[s], today) \in Nat /\ LateOf(lots[s], today) \in Nat BY <1>4, SidesNat
<1>7. position[s].quantity = DueOf(lots[s], today) + LateOf(lots[s], today) BY <1>5 DEF Rows
<1>8. episode \in Nat \ {0}
  <2>1. CASE Reopens(s) BY <1>4, <1>a, <2>1 DEF Positions
  <2>2. CASE ~ Reopens(s)
    <3>1. position[s].quantity > 0 BY <1>4, <2>2 DEF Reopens, Positions
    <3>2. PICK i \in DOMAIN lots[s] : lots[s][i].remaining > 0
      <4>1. SUFFICES ASSUME \A i \in DOMAIN lots[s] : ~ (lots[s][i].remaining > 0) PROVE FALSE
        OBVIOUS
      <4>2. \A i \in DOMAIN lots[s] : Rem(lots[s])[i] = 0 BY <1>4, <4>1, LotsAre DEF Lots
      <4>3. DueOf(lots[s], today) = 0 /\ LateOf(lots[s], today) = 0
        BY <1>4, <4>2, SidesNat, SumZero DEF DueOf, LateOf
      <4>4. QED BY <1>7, <3>1, <4>3
    <3>3. lots[s][i].episode = position[s].episode BY <1>5, <3>2 DEF Rows
    <3>4. lots[s][i].episode \in Nat \ {0} BY <1>4, <3>2, LotsAre DEF Lots
    <3>5. QED BY <1>a, <2>2, <3>3, <3>4
  <2>3. QED BY <2>1, <2>2
<1>9. position'[s] = [status |-> "open_virtual", quantity |-> position[s].quantity + n,
            available |-> Matured(s), locked |-> Unripe(s) + n, episode |-> episode,
            first_open |-> IF Reopens(s) THEN today ELSE position[s].first_open]
  BY <1>1, <1>4
<1>10. lots'[s] = Append(Ripened(s), [episode |-> episode, available |-> UnlockDate,
                                      remaining |-> n, status |-> "locked_t1"])
  BY <1>1, <1>4
<1>11. \A u \in Stocks \ {s} : position'[u] = position[u] /\ lots'[u] = lots[u]
  BY <1>1, <1>4
<1>12. /\ lots'[s] \in Seq(Lots) /\ Rows(s)'
       /\ DueOf(lots'[s], today) = DueOf(lots[s], today)
       /\ LateOf(lots'[s], today) = LateOf(lots[s], today) + n
  BY <1>1, <1>2, <1>4, <1>5, <1>8, <1>9, <1>10, <1>a, BuyRows
<1>13. /\ t.side = "buy" /\ t.stock = s /\ t.quantity = n /\ t.price = price
       /\ t.date = today /\ t.episode = episode /\ t.proposal = p
  BY <1>1, <1>a DEF TradeOf
<1>15. /\ t \in Fills /\ t \notin trades
       /\ trades' = trades \cup {t} /\ trades' \in SUBSET Fills /\ IsFiniteSet(trades')
       /\ \A u : Bought(u)' = IF u = s THEN Bought(u) \cup {t} ELSE Bought(u)
       /\ \A u : Sold(u)' = Sold(u)
       /\ Purchases' = Purchases \cup {t} /\ Sales' = Sales
       /\ proposal' \in [ProposalIds -> Proposals]
       /\ \A o \in ProposalIds \ {p} : proposal'[o] = proposal[o]
       /\ proposal'[p].status = "executed" /\ proposal'[p].episode = proposal[p].episode
  <2>1. t = TradeOf(p, n, price, episode) /\ t.side = "buy" /\ t.stock = s BY <1>13, <1>a
  <2>2. /\ t \in Fills /\ t \notin trades
        /\ trades' = trades \cup {t} /\ trades' \in SUBSET Fills /\ IsFiniteSet(trades')
        /\ proposal' \in [ProposalIds -> Proposals]
        /\ \A o \in ProposalIds \ {p} : proposal'[o] = proposal[o]
        /\ proposal'[p].status = "executed" /\ proposal'[p].episode = proposal[p].episode
    BY <1>1, <1>2, <1>8, <2>1, NewTrade
  <2>3. /\ \A u : Bought(u)' = IF t.side = "buy" /\ u = t.stock
                                THEN Bought(u) \cup {t} ELSE Bought(u)
        /\ \A u : Sold(u)' = IF t.side = "sell" /\ u = t.stock
                              THEN Sold(u) \cup {t} ELSE Sold(u)
        /\ Purchases' = IF t.side = "buy" THEN Purchases \cup {t} ELSE Purchases
        /\ Sales' = IF t.side = "sell" THEN Sales \cup {t} ELSE Sales
    BY <1>1, <1>2, <1>8, <2>1, NewTrade
  <2>4. QED BY <2>1, <2>2, <2>3
<1>16. cash' = [amount |-> amount, trade_date |-> today] BY <1>1 DEF Settled
<1>17. Types'
  <2>1. cash' \in [amount : Nat, trade_date : Dates] BY <1>2, <1>4, <1>16
  <2>2. position'[s] \in Positions
    BY <1>2, <1>4, <1>6, <1>8, <1>9, Sides DEF Positions
  <2>3. position' \in [Stocks -> Positions] BY <1>0, <1>1, <1>4, <1>11, <2>2 DEF Types
  <2>4. lots' \in [Stocks -> Seq(Lots)] BY <1>0, <1>1, <1>4, <1>11, <1>12 DEF Types
  <2>5. QED BY <1>1, <1>4, <1>15, <2>1, <2>3, <2>4 DEF Types
<1>18. \A u \in Stocks : /\ position[u].episode \in Nat /\ position'[u].episode \in Nat
                         /\ position[u].episode <= position'[u].episode
  <2>1. \A u \in Stocks : position[u].episode \in Nat BY <1>0 DEF Types, Positions
  <2>2. position[s].episode <= position'[s].episode /\ position'[s].episode \in Nat
    BY <1>4, <1>8, <1>9, <1>a, <2>1
  <2>3. QED BY <1>11, <2>1, <2>2
<1>19. t.episode <= position'[t.stock].episode BY <1>8, <1>9, <1>13
<1>20. TradesKnown' BY <1>1, <1>13, <1>15, <1>18, <1>19, TradesStayKnown
<1>21. CashKept'
  <2>1. Purchases \in SUBSET Fills /\ IsFiniteSet(Purchases) /\ t \notin Purchases
    BY <1>0, <1>15, FS_Subset DEF Types, Purchases
  <2>2. Money(Purchases \cup {t}) = Money(Purchases) + n * price /\ Money(Purchases) \in Nat
    BY <1>13, <1>15, <2>1, TradesNew
  <2>3. cash'.amount = cash.amount - n * price BY <1>16, <1>a
  <2>. DEFINE cost == n * price
  <2>4. cost \in Nat /\ cash.amount \in Nat BY <1>0, <1>2 DEF Types
  <2>5. Money(Purchases \cup {t}) = Money(Purchases) + cost /\ cash'.amount = cash.amount - cost
    BY <2>2, <2>3
  <2>. HIDE DEF cost
  <2>6. cash.amount + Money(Purchases) = InitialCash + Money(Sales) BY DEF AccountInv, CashKept
  <2>7. cash'.amount + Money(Purchases \cup {t}) = InitialCash + Money(Sales)
    BY <2>2, <2>4, <2>5, <2>6
  <2>8. QED BY <1>15, <2>7 DEF CashKept
<1>22. Records(s)'
  <2>1. position'[s].quantity = position[s].quantity + n /\ position'[s].episode = t.episode
    BY <1>9, <1>13
  <2>2. \/ t.episode = position[s].episode
        \/ t.episode = position[s].episode + 1 /\ position[s].quantity = 0
    <3>1. Reopens(s) => position[s].quantity = 0
      BY <1>5, <1>6, <1>7 DEF Rows, Reopens
    <3>2. QED BY <1>13, <1>a, <3>1
  <2>3. Bought(s)' = Bought(s) \cup {t} /\ Sold(s)' = Sold(s) BY <1>15
  <2>4. QED BY <1>1, <1>2, <1>4, <1>12, <1>13, <1>15, <2>1, <2>2, <2>3, BuyRecords
<1>23. \A u \in Stocks : Rows(u)' /\ Records(u)'
  <2>1. ASSUME NEW u \in Stocks, u # s PROVE Rows(u)' /\ Records(u)'
    <3>1. Bought(u)' = Bought(u) /\ Sold(u)' = Sold(u) BY <1>15, <2>1
    <3>2. Rows(u) /\ Records(u) BY DEF AccountInv
    <3>3. QED BY <1>1, <1>11, <2>1, <3>1, <3>2, StockQuiet
  <2>2. QED BY <1>12, <1>22, <2>1
<1>24. AccountInv' BY <1>17, <1>20, <1>21, <1>23 DEF AccountInv
<1>25. BuyOf(s, n, price)
  <2>1. cash'.amount = cash.amount - n * price BY <1>16, <1>a
  <2>2. QED BY <1>1, <1>11, <1>12, <2>1 DEF BuyOf
<1>26. n \in 1 .. (cash.amount \div price)
  <2>1. cash.amount \in Nat /\ price \in Nat \ {0} BY <1>0, AccountAssumption DEF Types
  <2>2. cash.amount \div price \in Nat BY <2>1, DivBound
  <2>3. QED BY <1>2, <2>2
<1>27. QED BY <1>4, <1>24, <1>25, <1>26

-----------------------------------------------------------------------------
(* A sale takes what is left of every lot that is due, and nothing else.     *)
DueIn(q, d) == {i \in DOMAIN q : q[i].available <= d}

LEMMA DueSum ==
  ASSUME NEW q, NEW d \in Nat, GoodLots(q, d)
  PROVE  DueOf(q, d) = SumFunctionOnSet(Rem(q), DueIn(q, d))
<1>1. q \in Seq(Lots) BY DEF GoodLots
<1>. DEFINE M == MatureIn(q, d)  C == {i \in DOMAIN q : q[i].available <= d /\ q[i].remaining = 0} \ M
<1>2. M \in SUBSET (DOMAIN q) /\ IsFiniteSet(M) /\ C \in SUBSET (DOMAIN q) /\ IsFiniteSet(C)
      /\ M \cap C = {}
  BY <1>1, SidesNat, LotsAre, FS_Subset
<1>3. \A i \in DOMAIN q : q[i].status \in {"locked_t1", "available", "closed"}
  BY <1>1, LotsAre DEF Lots
<1>4. DueIn(q, d) = M \cup C BY <1>3 DEF DueIn, MatureIn, GoodLots
<1>5. \A i \in C : Rem(q)[i] = 0 BY DEF Rem
<1>. HIDE DEF M, C
<1>6. \A i \in M \cup C : Rem(q)[i] \in Nat BY <1>1, <1>2, LotsAre
<1>7. SumFunctionOnSet(Rem(q), M \cup C) =
        SumFunctionOnSet(Rem(q), M) + SumFunctionOnSet(Rem(q), C)
  BY <1>2, <1>6, SumSplit
<1>8. SumFunctionOnSet(Rem(q), C) = 0 BY <1>2, <1>5, SumZero
<1>9. SumFunctionOnSet(Rem(q), M) \in Nat BY <1>2, <1>6, SumNat
<1>10. QED BY <1>4, <1>7, <1>8, <1>9 DEF DueOf, M

LEMMA TakenIs ==
  ASSUME NEW s, today \in Nat, GoodLots(lots[s], today), NEW i \in DOMAIN lots[s]
  PROVE  Taken(s, DueOf(lots[s], today), i) =
           IF lots[s][i].available <= today THEN lots[s][i].remaining ELSE 0
<1>. DEFINE q == lots[s]  n == DueOf(q, today)
            B == {j \in 1 .. i - 1 : q[j].available <= today}
<1>1. q \in Seq(Lots) BY DEF GoodLots
<1>2. DOMAIN q = 1 .. Len(q) /\ Len(q) \in Nat /\ i \in 1 .. Len(q) BY <1>1, LotsAre
<1>3. q[i].available \in Nat /\ q[i].remaining \in Nat BY <1>1, LotsAre DEF Lots
<1>4. DueBefore(s, i) = SumFunctionOnSet(Rem(q), B) BY DEF DueBefore, Remaining, Rem
<1>5. CASE q[i].available > today BY <1>3, <1>5 DEF Taken
<1>6. CASE q[i].available <= today
  <2>1. n = SumFunctionOnSet(Rem(q), DueIn(q, today)) BY DueSum
  <2>2. B \cup {i} \in SUBSET DueIn(q, today) /\ i \notin B /\ B \in SUBSET (DOMAIN q)
    BY <1>2, <1>6 DEF DueIn
  <2>3. IsFiniteSet(DueIn(q, today)) /\ IsFiniteSet(B) BY <1>1, <2>2, LotsAre, FS_Subset DEF DueIn
  <2>4. \A j \in DueIn(q, today) : Rem(q)[j] \in Nat BY <1>1, LotsAre DEF DueIn
  <2>. HIDE DEF n, B, q
  <2>5. SumFunctionOnSet(Rem(q), B \cup {i}) <= n /\ n \in Nat
    BY <2>1, <2>2, <2>3, <2>4, SumPart
  <2>6. SumFunctionOnSet(Rem(q), B \cup {i}) = Rem(q)[i] + SumFunctionOnSet(Rem(q), B)
    BY <2>2, <2>3, <2>4, SumAdd
  <2>7. SumFunctionOnSet(Rem(q), B) \in Nat BY <2>2, <2>3, <2>4, SumNat
  <2>8. Rem(q)[i] = q[i].remaining BY <1>1, <1>2, LotsAre
  <2>. DEFINE b == SumFunctionOnSet(Rem(q), B)
  <2>9. q[i].remaining + b <= n BY <2>5, <2>6, <2>8
  <2>. HIDE DEF b
  <2>10. b \in Nat BY <2>7 DEF b
  <2>11. Taken(s, n, i) = IF b >= n THEN 0 ELSE Min({q[i].remaining, n - b})
    <3>1. ~ (q[i].available > today) BY <1>3, <1>6
    <3>2. Taken(s, n, i) = IF q[i].available > today \/ DueBefore(s, i) >= n THEN 0
                           ELSE Min({q[i].remaining, n - DueBefore(s, i)})
      BY DEF Taken, q
    <3>3. QED BY <1>4, <3>1, <3>2 DEF b
  <2>12. CASE b >= n
    <3>1. q[i].remaining = 0 BY <1>3, <2>5, <2>9, <2>10, <2>12
    <3>2. QED BY <1>6, <2>11, <2>12, <3>1 DEF q, n
  <2>13. CASE ~ (b >= n)
    <3>1. n - b \in Nat /\ q[i].remaining <= n - b BY <1>3, <2>5, <2>9, <2>10, <2>13
    <3>2. Min({q[i].remaining, n - b}) = q[i].remaining BY <1>3, <3>1, MinOfTwo
    <3>3. QED BY <1>6, <2>11, <2>13, <3>2 DEF q, n
  <2>14. QED BY <2>12, <2>13
<1>7. QED BY <1>3, <1>5, <1>6

(* The allocation never fails. *)
LEMMA AllAllocated ==
  ASSUME NEW s, today \in Nat, GoodLots(lots[s], today)
  PROVE  Allocated(s, DueOf(lots[s], today))
<1>. DEFINE q == lots[s]  n == DueOf(q, today)  D == DueIn(q, today)
            taken == [i \in DOMAIN q |-> Taken(s, n, i)]
<1>1. q \in Seq(Lots) BY DEF GoodLots
<1>2. D \in SUBSET (DOMAIN q) /\ IsFiniteSet(DOMAIN q) /\ IsFiniteSet(D)
      /\ IsFiniteSet(DOMAIN q \ D) /\ D \cup (DOMAIN q \ D) = DOMAIN q
  BY <1>1, LotsAre, FS_Subset DEF DueIn
<1>3. \A i \in DOMAIN q : taken[i] = IF q[i].available <= today THEN q[i].remaining ELSE 0
  BY TakenIs
<1>4. Allocated(s, n) <=> SumFunctionOnSet(taken, DOMAIN q) = n
  BY DEF Allocated, SumFunction
<1>5. n = SumFunctionOnSet(Rem(q), D) BY DueSum
<1>. HIDE DEF taken
<1>6. \A i \in D : taken[i] = Rem(q)[i] BY <1>1, <1>3, LotsAre DEF DueIn
<1>7. \A i \in DOMAIN q \ D : taken[i] = 0 BY <1>3 DEF DueIn
<1>8. \A i \in D \cup (DOMAIN q \ D) : taken[i] \in Nat BY <1>1, <1>2, <1>6, <1>7, LotsAre
<1>. HIDE DEF D, q, n
<1>9. SumFunctionOnSet(taken, D) = n BY <1>2, <1>5, <1>6, SumSame
<1>10. SumFunctionOnSet(taken, DOMAIN q \ D) = 0 BY <1>2, <1>7, SumZero
<1>11. SumFunctionOnSet(taken, D \cup (DOMAIN q \ D)) =
         SumFunctionOnSet(taken, D) + SumFunctionOnSet(taken, DOMAIN q \ D)
  BY <1>2, <1>8, SumSplit
<1>12. n \in Nat BY <1>1, SidesNat DEF n
<1>13. SumFunctionOnSet(taken, DOMAIN q) = n BY <1>2, <1>9, <1>10, <1>11, <1>12
<1>14. QED BY <1>4, <1>13 DEF n, q

(* The rows of the stock sold. *)
LEMMA SaleRows ==
  ASSUME NEW s, NEW n, NEW left, today \in Nat, Rows(s), today' = today,
         n = Matured(s), left = position[s].quantity - n,
         position'[s].status = "open_virtual" <=> left # 0,
         position'[s].quantity = left, position'[s].available = 0,
         position'[s].locked = left, position'[s].episode = position[s].episode,
         lots'[s] = AfterSale(s, n)
  PROVE  /\ lots'[s] \in Seq(Lots) /\ Rows(s)' /\ left \in Nat
         /\ LateOf(lots'[s], today) = LateOf(lots[s], today)
         /\ DueOf(lots'[s], today) = 0 /\ left = LateOf(lots[s], today)
<1>. DEFINE q == lots[s]  r == lots'[s]
<1>1. q \in Seq(Lots) /\ GoodLots(q, today) BY DEF Rows, GoodLots
<1>2. DOMAIN q = 1 .. Len(q) /\ Len(q) \in Nat /\ \A i \in DOMAIN q : q[i] \in Lots
  BY <1>1, LotsAre
<1>3. n = DueOf(q, today) /\ DueOf(q, today) \in Nat /\ LateOf(q, today) \in Nat
  BY <1>1, Sides, SidesNat
<1>4. left = LateOf(q, today) /\ left \in Nat BY <1>3 DEF Rows
<1>5. \A i \in DOMAIN q : Taken(s, n, i) =
        IF q[i].available <= today THEN q[i].remaining ELSE 0
  BY <1>1, <1>3, TakenIs
<1>6. \A i \in DOMAIN q : r[i] =
        LET l == Ripened(s)[i]
        IN IF Taken(s, n, i) = 0 THEN l
           ELSE [l EXCEPT !.remaining = l.remaining - Taken(s, n, i),
                          !.status = IF l.status = "closed" \/ l.remaining = Taken(s, n, i)
                                     THEN "closed" ELSE "available"]
  BY DEF AfterSale
<1>7. r = [i \in DOMAIN q |-> r[i]] BY DEF AfterSale
<1>8. \A i \in DOMAIN q :
        Ripened(s)[i] = IF q[i].remaining > 0 /\ Mature(q[i])
                        THEN [q[i] EXCEPT !.status = "available"] ELSE q[i]
  BY DEF Ripened
<1>. HIDE DEF q, r
<1>9. ASSUME NEW i \in DOMAIN q
      PROVE  /\ r[i] \in Lots /\ r[i].episode = q[i].episode
             /\ IF q[i].available <= today
                THEN r[i].available = q[i].available /\ r[i].remaining = 0
                     /\ r[i].status = "closed"
                ELSE r[i] = q[i]
  <2>1. /\ q[i] \in Lots /\ q[i].available \in Nat /\ q[i].remaining \in Nat
        /\ q[i].remaining = 0 <=> q[i].status = "closed"
    BY <1>1, <1>2 DEF GoodLots, Lots
  <2>2. CASE q[i].available > today
    <3>1. ~ (q[i].available <= today) BY <2>1, <2>2
    <3>2. Taken(s, n, i) = 0 BY <1>5, <3>1
    <3>3. Ripened(s)[i] = q[i] BY <1>8, <3>1 DEF Mature
    <3>4. r[i] = q[i] BY <1>6, <3>2, <3>3
    <3>5. QED BY <2>1, <3>1, <3>4
  <2>3. CASE q[i].available <= today /\ q[i].remaining = 0
    <3>1. Taken(s, n, i) = 0 BY <1>5, <2>3
    <3>2. ~ (q[i].remaining > 0) BY <2>3
    <3>3. Ripened(s)[i] = q[i] BY <1>8, <3>2
    <3>4. r[i] = q[i] BY <1>6, <3>1, <3>3
    <3>5. QED BY <2>1, <2>3, <3>4
  <2>4. CASE q[i].available <= today /\ q[i].remaining > 0
    <3>1. Taken(s, n, i) = q[i].remaining /\ Taken(s, n, i) # 0 BY <1>5, <2>1, <2>4
    <3>2. Mature(q[i]) BY <2>1, <2>4 DEF Mature, Lots
    <3>3. Ripened(s)[i] = [q[i] EXCEPT !.status = "available"] BY <1>8, <2>4, <3>2
    <3>4. /\ Ripened(s)[i] \in Lots /\ Ripened(s)[i].remaining = q[i].remaining
          /\ Ripened(s)[i].available = q[i].available
          /\ Ripened(s)[i].episode = q[i].episode
      BY <2>1, <3>3 DEF Lots
    <3>5. PICK l \in Lots : /\ l = Ripened(s)[i] /\ l.remaining = q[i].remaining
                            /\ l.available = q[i].available /\ l.episode = q[i].episode
      BY <3>4
    <3>6. r[i] = [l EXCEPT !.remaining = l.remaining - Taken(s, n, i),
                    !.status = IF l.status = "closed" \/ l.remaining = Taken(s, n, i)
                               THEN "closed" ELSE "available"]
      BY <1>6, <3>1, <3>5
    <3>7. l.remaining - Taken(s, n, i) = 0 BY <2>1, <3>1, <3>5
    <3>8. r[i] = [l EXCEPT !.remaining = 0, !.status = "closed"] BY <3>1, <3>5, <3>6, <3>7
    <3>9. r[i] \in Lots /\ r[i].remaining = 0 /\ r[i].status = "closed"
          /\ r[i].available = l.available /\ r[i].episode = l.episode
      <4>1. r[i] = [episode |-> l.episode, available |-> l.available,
                    remaining |-> 0, status |-> "closed"]
        BY <3>8 DEF Lots
      <4>2. l.episode \in Nat \ {0} /\ l.available \in Nat BY DEF Lots
      <4>3. QED BY <4>1, <4>2 DEF Lots
    <3>10. QED BY <2>4, <3>5, <3>9
  <2>5. QED BY <2>1, <2>2, <2>3, <2>4
<1>10. r \in [1 .. Len(q) -> Lots] BY <1>2, <1>7, <1>9
<1>11. r \in Seq(Lots) BY <1>2, <1>10, SeqDef
<1>12. DOMAIN r = DOMAIN q /\ Len(r) = Len(q) BY <1>2, <1>10, <1>11, LotsAre
<1>13. GoodLots(r, today) /\ DueOf(r, today) = 0 /\ LateOf(r, today) = LateOf(q, today)
  BY <1>1, <1>9, <1>11, <1>12, LotsSold
<1>14. /\ position'[s].quantity = left /\ position'[s].available = 0 /\ position'[s].locked = left
       /\ position'[s].status = "open_virtual" <=> left # 0
       /\ position'[s].episode = position[s].episode
  OBVIOUS
<1>15. \A i \in DOMAIN r : r[i].remaining > 0 => r[i].episode = position'[s].episode
  <2>1. SUFFICES ASSUME NEW i \in DOMAIN q, r[i].remaining > 0
                 PROVE  r[i].episode = position[s].episode
    BY <1>12, <1>14
  <2>2. q[i].remaining > 0 /\ r[i].episode = q[i].episode
    BY <1>2, <1>9, <2>1 DEF Lots
  <2>3. QED BY <2>2 DEF Rows, q
<1>16. Rows(s)' BY <1>4, <1>13, <1>14, <1>15 DEF Rows, r
<1>17. QED BY <1>3, <1>4, <1>11, <1>13, <1>16 DEF q, r

(* The trades of the stock sold. *)
LEMMA SaleRecords ==
  ASSUME NEW s \in Stocks, NEW t \in Fills, NEW n \in Nat \ {0}, AccountInv,
         t.quantity = n, t.date = today, t \notin trades, today' = today,
         Bought(s)' = Bought(s), Sold(s)' = Sold(s) \cup {t},
         n = DueOf(lots[s], today),
         position'[s].quantity = LateOf(lots[s], today),
         position'[s].episode = position[s].episode, t.episode = position[s].episode,
         LateOf(lots'[s], today) = LateOf(lots[s], today)
  PROVE  Records(s)'
<1>. DEFINE B == Bought(s)  S == Sold(s)
<1>1. /\ B \in SUBSET Fills /\ IsFiniteSet(B) /\ S \in SUBSET Fills /\ IsFiniteSet(S)
      /\ B \subseteq trades /\ S \subseteq trades
  BY TradesOf DEF AccountInv, Bought, Sold
<1>2. t \notin S /\ Records(s) /\ Rows(s) BY <1>1 DEF AccountInv
<1>. DEFINE late == LateOf(lots[s], today)
<1>3. position[s].episode \in Nat /\ today \in Nat /\ late \in Nat
  BY <1>2, AccountAssumption, SidesNat DEF AccountInv, Types, Positions, Dates, Rows, GoodLots
<1>4. position[s].quantity = n + late BY <1>2 DEF Rows
<1>5. position'[s].quantity = late OBVIOUS
<1>. HIDE DEF late
<1>6. Shares(S \cup {t}) = Shares(S) + n /\ Shares(S) \in Nat BY <1>1, <1>2, TradesNew
<1>7. Shares(B) = Shares(S) + n + late BY <1>2, <1>3, <1>4, <1>6 DEF Records
<1>8. Shares(Bought(s))' = Shares(Sold(s))' + position'[s].quantity
  BY <1>5, <1>6, <1>7
<1>9. Shares({x \in Bought(s) : x.date = today})' = LateOf(lots'[s], today')
  BY <1>2 DEF Records
<1>10. ASSUME NEW e \in 1 .. position'[s].episode PROVE Balance(s, e)'
  <2>1. Of(Sold(s), e)' = IF e = t.episode THEN Of(S, e) \cup {t} ELSE Of(S, e) BY DEF Of
  <2>2. Of(Bought(s), e)' = Of(B, e) BY DEF Of
  <2>3. Of(S, e) \in SUBSET Fills /\ IsFiniteSet(Of(S, e)) /\ t \notin Of(S, e)
    BY <1>1, <1>2, FS_Subset DEF Of
  <2>4. Shares(Of(S, e) \cup {t}) = Shares(Of(S, e)) + n /\ Shares(Of(S, e)) \in Nat
    BY <2>3, TradesNew
  <2>5. Shares(Of(B, e)) = Shares(Of(S, e))
          + (IF e = position[s].episode THEN position[s].quantity ELSE 0)
    BY <1>2 DEF Records, Balance
  <2>6. Shares(Of(Sold(s), e))' = IF e = t.episode THEN Shares(Of(S, e)) + n ELSE Shares(Of(S, e))
    BY <2>1, <2>4
  <2>7. Shares(Of(Bought(s), e))' = Shares(Of(B, e)) BY <2>2
  <2>8. Shares(Of(Bought(s), e))' = Shares(Of(Sold(s), e))'
          + (IF e = position'[s].episode THEN position'[s].quantity ELSE 0)
    BY <1>3, <1>4, <1>5, <2>4, <2>5, <2>6, <2>7
  <2>9. QED BY <2>8 DEF Balance
<1>11. ASSUME NEW d \in Dates PROVE Overnight(s, d)'
  <2>. DEFINE D == {x \in B : x.date < d}  F == {x \in S : x.date <= d}
              G == {x \in S \cup {t} : x.date <= d}  H == {x \in B : x.date = today}
  <2>1. \A x \in trades : x.date \in Nat /\ x.date <= today
    BY DEF AccountInv, Types, TradesKnown, Fills, Dates
  <2>2. d \in Nat BY DEF Dates
  <2>3. CASE d < today
    <3>1. G = F BY <1>3, <2>2, <2>3
    <3>2. Shares(F) <= Shares(D) BY <1>2 DEF Records, Overnight
    <3>3. QED BY <3>1, <3>2 DEF Overnight
  <2>4. CASE d >= today
    <3>1. G = S \cup {t} BY <1>1, <1>3, <2>1, <2>2, <2>4
    <3>2. H \in SUBSET B /\ D \in SUBSET B /\ B \ H \in SUBSET D
      BY <1>1, <1>3, <2>1, <2>2, <2>4
    <3>3. Shares(B) = Shares(H) + Shares(B \ H) BY <1>1, <3>2, TradesSplit
    <3>4. Shares(H) = late BY <1>2 DEF Records, late
    <3>5. D \in SUBSET Fills /\ IsFiniteSet(D) BY <1>1, <3>2, FS_Subset
    <3>6. Shares(B \ H) \in Nat /\ Shares(D) \in Nat /\ Shares(B \ H) <= Shares(D)
      BY <3>2, <3>5, TradesPart
    <3>7. Shares(S \cup {t}) <= Shares(D)
      BY <1>3, <1>6, <1>7, <3>3, <3>4, <3>6
    <3>8. QED BY <3>1, <3>7 DEF Overnight
  <2>5. QED BY <1>3, <2>2, <2>3, <2>4
<1>12. QED BY <1>8, <1>9, <1>10, <1>11 DEF Records

(* A sale keeps the invariant and sells everything that can be sold. *)
SaleOf(s, price) ==
  /\ today' = today
  /\ DueOf(lots[s], today) > 0
  /\ cash'.amount = cash.amount + DueOf(lots[s], today) * price
  /\ DueOf(lots'[s], today) = 0
  /\ LateOf(lots'[s], today) = LateOf(lots[s], today)
  /\ \A u \in Stocks \ {s} : lots'[u] = lots[u]

LEMMA FillSaleInv ==
  ASSUME NEW p \in ProposalIds, NEW price \in Prices, AccountInv, FillSale(p, price)
  PROVE  AccountInv' /\ \E s \in Stocks : SaleOf(s, price)
<1>a. SUFFICES
        ASSUME NEW s, s = proposal[p].stock,
               NEW n, n = Matured(s),
               NEW left, left = position[s].quantity - n,
               NEW episode, episode = position[s].episode,
               NEW amount, amount = cash.amount + n * price,
               NEW t, t = TradeOf(p, n, price, episode)
        PROVE  AccountInv' /\ s \in Stocks /\ SaleOf(s, price)
  OBVIOUS
<1>0. Types /\ TradesKnown BY DEF AccountInv
<1>1. /\ proposal[p].status = "live" /\ proposal[p].side = "sell"
      /\ Held(s) /\ proposal[p].episode = position[s].episode /\ n > 0
      /\ Settled(p, n, price, episode, amount)
      /\ position' = [position EXCEPT ![s] =
           [status |-> IF left = 0 THEN "closed_virtual" ELSE "open_virtual",
            quantity |-> left, available |-> 0, locked |-> left,
            episode |-> position[s].episode, first_open |-> position[s].first_open]]
      /\ lots' = [lots EXCEPT ![s] = AfterSale(s, n)]
      /\ today' = today
  BY <1>a DEF FillSale, SameEpisode
<1>2. proposal[p] \in [status : {"live", "executed"}, side : {"buy", "sell"},
                       stock : Stocks, episode : Nat]
  BY <1>0, <1>1 DEF Types, Proposals, NoProposal
<1>3. /\ s \in Stocks /\ position[s] \in Positions /\ today \in Dates /\ today \in Nat
      /\ lots[s] \in Seq(Lots) /\ DOMAIN position = Stocks /\ DOMAIN lots = Stocks
  BY <1>0, <1>2, <1>a, AccountAssumption DEF Types, Dates
<1>4. Rows(s) /\ Records(s) BY <1>3 DEF AccountInv
<1>5. /\ n = DueOf(lots[s], today) /\ n \in Nat \ {0} /\ LateOf(lots[s], today) \in Nat
  BY <1>1, <1>3, <1>a, Sides, SidesNat
<1>6. /\ position'[s] = [status |-> IF left = 0 THEN "closed_virtual" ELSE "open_virtual",
            quantity |-> left, available |-> 0, locked |-> left,
            episode |-> position[s].episode, first_open |-> position[s].first_open]
      /\ lots'[s] = AfterSale(s, n)
      /\ \A u \in Stocks \ {s} : position'[u] = position[u] /\ lots'[u] = lots[u]
  BY <1>1, <1>3
<1>7. /\ lots'[s] \in Seq(Lots) /\ Rows(s)' /\ left \in Nat
      /\ LateOf(lots'[s], today) = LateOf(lots[s], today)
      /\ left = LateOf(lots[s], today) /\ DueOf(lots'[s], today) = 0
  <2>1. /\ position'[s].status = "open_virtual" <=> left # 0
        /\ position'[s].quantity = left /\ position'[s].available = 0
        /\ position'[s].locked = left /\ position'[s].episode = position[s].episode
    BY <1>6
  <2>2. lots'[s] = AfterSale(s, n) /\ today' = today /\ n = Matured(s)
        /\ left = position[s].quantity - n
    BY <1>1, <1>6, <1>a
  <2>3. QED BY <1>3, <1>4, <2>1, <2>2, SaleRows
<1>8. /\ position'[s] \in Positions /\ position'[s].quantity = left
      /\ position'[s].episode = position[s].episode
  BY <1>3, <1>6, <1>7 DEF Positions
<1>9. episode \in Nat \ {0}
  <2>1. PICK i \in DOMAIN lots[s] : lots[s][i].remaining > 0
    <3>1. SUFFICES ASSUME \A i \in DOMAIN lots[s] : ~ (lots[s][i].remaining > 0) PROVE FALSE
      OBVIOUS
    <3>2. \A i \in DOMAIN lots[s] : Rem(lots[s])[i] = 0 BY <1>3, <3>1, LotsAre DEF Lots
    <3>3. DueOf(lots[s], today) = 0 BY <1>3, <3>2, SidesNat, SumZero DEF DueOf
    <3>4. QED BY <1>5, <3>3
  <2>2. lots[s][i].episode = position[s].episode BY <1>4, <2>1 DEF Rows
  <2>3. lots[s][i].episode \in Nat \ {0} BY <1>3, <2>1, LotsAre DEF Lots
  <2>4. QED BY <1>a, <2>2, <2>3
<1>10. /\ t.side = "sell" /\ t.stock = s /\ t.quantity = n /\ t.price = price
       /\ t.date = today /\ t.episode = episode /\ t.proposal = p
  BY <1>1, <1>a DEF TradeOf
<1>11. n * price \in Nat /\ cash.amount \in Nat /\ amount \in Nat
  <2>1. price \in Nat /\ cash.amount \in Nat BY <1>0, AccountAssumption DEF Types
  <2>2. \A a, b \in Nat : a * b \in Nat OBVIOUS
  <2>3. n * price \in Nat BY <1>5, <2>1, <2>2
  <2>4. QED BY <1>a, <2>1, <2>3
<1>12. /\ t \in Fills /\ t \notin trades
       /\ trades' = trades \cup {t} /\ trades' \in SUBSET Fills /\ IsFiniteSet(trades')
       /\ \A u : Sold(u)' = IF u = s THEN Sold(u) \cup {t} ELSE Sold(u)
       /\ \A u : Bought(u)' = Bought(u)
       /\ Sales' = Sales \cup {t} /\ Purchases' = Purchases
       /\ proposal' \in [ProposalIds -> Proposals]
       /\ \A o \in ProposalIds \ {p} : proposal'[o] = proposal[o]
       /\ proposal'[p].status = "executed" /\ proposal'[p].episode = proposal[p].episode
  <2>1. t = TradeOf(p, n, price, episode) /\ t.side = "sell" /\ t.stock = s BY <1>10, <1>a
  <2>2. /\ t \in Fills /\ t \notin trades
        /\ trades' = trades \cup {t} /\ trades' \in SUBSET Fills /\ IsFiniteSet(trades')
        /\ proposal' \in [ProposalIds -> Proposals]
        /\ \A o \in ProposalIds \ {p} : proposal'[o] = proposal[o]
        /\ proposal'[p].status = "executed" /\ proposal'[p].episode = proposal[p].episode
    BY <1>1, <1>5, <1>9, <2>1, NewTrade
  <2>3. /\ \A u : Bought(u)' = IF t.side = "buy" /\ u = t.stock
                                THEN Bought(u) \cup {t} ELSE Bought(u)
        /\ \A u : Sold(u)' = IF t.side = "sell" /\ u = t.stock
                              THEN Sold(u) \cup {t} ELSE Sold(u)
        /\ Purchases' = IF t.side = "buy" THEN Purchases \cup {t} ELSE Purchases
        /\ Sales' = IF t.side = "sell" THEN Sales \cup {t} ELSE Sales
    BY <1>1, <1>5, <1>9, <2>1, NewTrade
  <2>4. QED BY <2>1, <2>2, <2>3
<1>13. cash' = [amount |-> amount, trade_date |-> today] BY <1>1 DEF Settled
<1>14. Types'
  <2>1. cash' \in [amount : Nat, trade_date : Dates] BY <1>3, <1>11, <1>13
  <2>2. position' \in [Stocks -> Positions] BY <1>0, <1>1, <1>3, <1>6, <1>8 DEF Types
  <2>3. lots' \in [Stocks -> Seq(Lots)] BY <1>0, <1>1, <1>3, <1>6, <1>7 DEF Types
  <2>4. QED BY <1>1, <1>3, <1>12, <2>1, <2>2, <2>3 DEF Types
<1>15. \A u \in Stocks : /\ position[u].episode \in Nat /\ position'[u].episode \in Nat
                         /\ position[u].episode <= position'[u].episode
  <2>1. \A u \in Stocks : position[u].episode \in Nat BY <1>0 DEF Types, Positions
  <2>2. \A u \in Stocks : position'[u].episode = position[u].episode BY <1>6, <1>8
  <2>3. QED BY <2>1, <2>2
<1>16. t.episode <= position'[t.stock].episode /\ t.episode = proposal[p].episode
  BY <1>1, <1>8, <1>9, <1>10, <1>a
<1>17. TradesKnown' BY <1>1, <1>10, <1>12, <1>15, <1>16, TradesStayKnown
<1>18. CashKept'
  <2>1. Sales \in SUBSET Fills /\ IsFiniteSet(Sales) /\ t \notin Sales
    BY <1>0, <1>12, FS_Subset DEF Types, Sales
  <2>2. Money(Sales \cup {t}) = Money(Sales) + n * price /\ Money(Sales) \in Nat
    BY <1>10, <1>12, <2>1, TradesNew
  <2>3. cash'.amount = cash.amount + n * price BY <1>13, <1>a
  <2>4. Purchases \in SUBSET trades BY DEF Purchases
  <2>5. Money(Purchases) \in Nat
    <3>1. Purchases \in SUBSET Fills /\ IsFiniteSet(Purchases) BY <1>0, <2>4, FS_Subset DEF Types
    <3>2. t \notin Purchases BY <1>12, <2>4
    <3>3. QED BY <1>12, <3>1, <3>2, TradesNew
  <2>. DEFINE cost == n * price
  <2>6. cost \in Nat BY <1>11
  <2>7. Money(Sales \cup {t}) = Money(Sales) + cost /\ cash'.amount = cash.amount + cost
    BY <2>2, <2>3
  <2>. HIDE DEF cost
  <2>8. cash.amount + Money(Purchases) = InitialCash + Money(Sales) BY DEF AccountInv, CashKept
  <2>9. cash'.amount + Money(Purchases) = InitialCash + Money(Sales \cup {t})
    BY <1>11, <2>2, <2>5, <2>6, <2>7, <2>8, AccountAssumption
  <2>10. QED BY <1>12, <2>9 DEF CashKept
<1>19. Records(s)'
  <2>1. position'[s].quantity = LateOf(lots[s], today) /\ t.episode = position[s].episode
    BY <1>7, <1>8, <1>10, <1>a
  <2>2. Sold(s)' = Sold(s) \cup {t} /\ Bought(s)' = Bought(s) BY <1>12
  <2>3. QED BY <1>1, <1>3, <1>5, <1>7, <1>8, <1>10, <1>12, <2>1, <2>2, SaleRecords
<1>20. \A u \in Stocks : Rows(u)' /\ Records(u)'
  <2>1. ASSUME NEW u \in Stocks, u # s PROVE Rows(u)' /\ Records(u)'
    <3>1. Bought(u)' = Bought(u) /\ Sold(u)' = Sold(u) BY <1>12, <2>1
    <3>2. Rows(u) /\ Records(u) BY DEF AccountInv
    <3>3. QED BY <1>1, <1>6, <2>1, <3>1, <3>2, StockQuiet
  <2>2. QED BY <1>7, <1>19, <2>1
<1>21. AccountInv' BY <1>14, <1>17, <1>18, <1>20 DEF AccountInv
<1>22. SaleOf(s, price)
  <2>1. cash'.amount = cash.amount + DueOf(lots[s], today) * price BY <1>5, <1>13, <1>a
  <2>2. DueOf(lots[s], today) > 0 BY <1>5
  <2>3. QED BY <1>1, <1>6, <1>7, <2>1, <2>2 DEF SaleOf
<1>23. QED BY <1>3, <1>21, <1>22

-----------------------------------------------------------------------------
LEMMA StutterInv == AccountInv /\ UNCHANGED vars => AccountInv'
<1>1. SUFFICES ASSUME AccountInv, UNCHANGED vars PROVE AccountInv' OBVIOUS
<1>2. /\ today' = today /\ cash' = cash /\ position' = position /\ lots' = lots
      /\ proposal' = proposal /\ trades' = trades
  BY <1>1 DEF vars
<1>3. Types' /\ TradesKnown' /\ CashKept'
  BY <1>1, <1>2 DEF AccountInv, Types, TradesKnown, CashKept, Purchases, Sales
<1>4. ASSUME NEW u \in Stocks PROVE Rows(u)' /\ Records(u)'
  <2>1. Bought(u)' = Bought(u) /\ Sold(u)' = Sold(u) BY <1>2 DEF Bought, Sold
  <2>2. Rows(u) /\ Records(u) BY <1>1 DEF AccountInv
  <2>3. QED BY <1>2, <2>1, <2>2, StockQuiet
<1>5. QED BY <1>3, <1>4 DEF AccountInv

LEMMA AccountStep == AccountInv /\ [Next]_vars => AccountInv'
<1>1. SUFFICES ASSUME AccountInv, [Next]_vars PROVE AccountInv' OBVIOUS
<1>2. CASE NextDay BY <1>1, <1>2, NextDayInv
<1>3. CASE Propose BY <1>1, <1>3, ProposeInv DEF Propose
<1>4. CASE Fill BY <1>1, <1>4, FillBuyInv, FillSaleInv DEF Fill
<1>5. CASE UNCHANGED vars BY <1>1, <1>5, StutterInv
<1>6. QED BY <1>1, <1>2, <1>3, <1>4, <1>5 DEF Next

LEMMA AccountAlways == Spec => []AccountInv
BY InitInv, AccountStep, PTL DEF Spec

LEMMA AccountTypes == AccountInv => TypeOK
<1>1. SUFFICES ASSUME AccountInv PROVE TypeOK OBVIOUS
<1>2. Types BY <1>1 DEF AccountInv
<1>3. \A s \in Stocks : \A i \in DOMAIN lots[s] : lots[s][i] \in Lots
  BY <1>2, LotsAre DEF Types
<1>4. \A t \in trades : t \in Fills BY <1>2 DEF Types
<1>5. QED BY <1>2, <1>3, <1>4 DEF Types, TypeOK

(* Types, for any number of days, stocks and proposals: no quantity and no   *)
(* balance goes below zero.                                                  *)
THEOREM AccountTypesAlways == Spec => []TypeOK
BY AccountTypes, AccountAlways, PTL

LEMMA CashMatches == AccountInv => CashMatchesTrades
<1>1. SUFFICES ASSUME AccountInv PROVE CashMatchesTrades OBVIOUS
<1>2. \A t \in trades : t.stock \in Stocks BY <1>1 DEF AccountInv, Types, Fills
<1>3. UNION {Bought(s) : s \in Stocks} = Purchases BY <1>2 DEF Bought, Purchases
<1>4. UNION {Sold(s) : s \in Stocks} = Sales BY <1>2 DEF Sold, Sales
<1>5. QED BY <1>1, <1>3, <1>4 DEF AccountInv, CashKept, CashMatchesTrades

(* The active cash snapshot is what the account was provisioned with less    *)
(* every purchase and plus every sale it ever recorded.                      *)
THEOREM CashAlways == Spec => []CashMatchesTrades
BY CashMatches, AccountAlways, PTL

LEMMA PositionMatches == AccountInv => PositionMatchesLots
<1>1. SUFFICES ASSUME AccountInv, NEW s \in Stocks
               PROVE  /\ position[s].quantity = Matured(s) + Unripe(s)
                      /\ position[s].quantity = position[s].available + position[s].locked
                      /\ position[s].status = "open_virtual" <=> position[s].quantity > 0
                      /\ Allocated(s, Matured(s))
                      /\ \A i \in DOMAIN lots[s] :
                           lots[s][i].remaining > 0 => lots[s][i].episode = position[s].episode
  BY DEF PositionMatchesLots
<1>2. Rows(s) /\ today \in Nat BY <1>1, AccountAssumption DEF AccountInv, Types, Dates
<1>3. Allocated(s, Matured(s)) BY <1>2, Sides, AllAllocated DEF Rows
<1>4. QED BY <1>2, <1>3, Sides DEF Rows

(* A position is its lots on every day, and the allocation of a sale to them *)
(* never fails.                                                              *)
THEOREM PositionAlways == Spec => []PositionMatchesLots
BY PositionMatches, AccountAlways, PTL

LEMMA EpisodesBalanced == AccountInv => EpisodesBalance
BY DEF AccountInv, Records, Balance, TradesKnown, EpisodesBalance

(* Every holding episode balances, and a sale is of the episode it was       *)
(* proposed for.                                                             *)
THEOREM EpisodesAlways == Spec => []EpisodesBalance
BY EpisodesBalanced, AccountAlways, PTL

LEMMA HeldOvernight == AccountInv => SoldWereHeldOvernight
BY DEF AccountInv, Records, Overnight, SoldWereHeldOvernight

(* T+1: nothing is sold on the day it was bought.                            *)
THEOREM OvernightAlways == Spec => []SoldWereHeldOvernight
BY HeldOvernight, AccountAlways, PTL

-----------------------------------------------------------------------------
(* The refinement.                                                           *)
SettledNow == [s \in Stocks |-> Matured(s)]
FreshNow   == [s \in Stocks |-> Unripe(s)]

LEMMA NowIs ==
  /\ SettledNow = [s \in Stocks |-> DueOf(lots[s], today)]
  /\ FreshNow = [s \in Stocks |-> LateOf(lots[s], today)]
  /\ SettledNow' = [s \in Stocks |-> DueOf(lots'[s], today')]
  /\ FreshNow' = [s \in Stocks |-> LateOf(lots'[s], today')]
<1>1. \A s : Matured(s) = DueOf(lots[s], today) /\ Unripe(s) = LateOf(lots[s], today)
  BY Sides
<1>2. \A s : Matured(s)' = DueOf(lots'[s], today') /\ Unripe(s)' = LateOf(lots'[s], today')
  BY SidesNext
<1>3. SettledNow' = [s \in Stocks |-> Matured(s)'] /\ FreshNow' = [s \in Stocks |-> Unripe(s)']
  BY DEF SettledNow, FreshNow
<1>4. QED BY <1>1, <1>2, <1>3 DEF SettledNow, FreshNow

LEMMA SettlementInit == Init => Contract!Init
<1>1. SUFFICES ASSUME Init PROVE Contract!Init OBVIOUS
<1>2. ASSUME NEW s \in Stocks
      PROVE  DueOf(lots[s], today) = 0 /\ LateOf(lots[s], today) = 0
  <2>1. MatureIn(lots[s], today) = {} /\ FreshIn(lots[s], today) = {}
    BY <1>1, <1>2 DEF Init, MatureIn, FreshIn
  <2>2. QED BY <2>1, SumEmpty DEF DueOf, LateOf
<1>3. SettledNow = [s \in Stocks |-> 0] /\ FreshNow = [s \in Stocks |-> 0] BY <1>2, NowIs
<1>4. cash.amount = InitialCash BY <1>1 DEF Init
<1>5. QED BY <1>3, <1>4 DEF Contract!Init, SettledNow, FreshNow

LEMMA SettlementNextDay == AccountInv /\ NextDay => Contract!Settle
<1>1. SUFFICES ASSUME AccountInv, NextDay PROVE Contract!Settle OBVIOUS
<1>2. today' = today + 1 /\ lots' = lots /\ cash' = cash BY <1>1 DEF NextDay
<1>3. today \in Nat BY <1>1, AccountAssumption DEF AccountInv, Types, Dates
<1>4. \A s \in Stocks :
        /\ DueOf(lots'[s], today') = DueOf(lots[s], today) + LateOf(lots[s], today)
        /\ LateOf(lots'[s], today') = 0
  BY <1>1, <1>2, <1>3, LotsNextDay DEF AccountInv, Rows
<1>5. /\ SettledNow' = [s \in Stocks |-> SettledNow[s] + FreshNow[s]]
      /\ FreshNow' = [s \in Stocks |-> 0]
  BY <1>4, NowIs
<1>6. QED BY <1>2, <1>5 DEF Contract!Settle, SettledNow, FreshNow

LEMMA SettlementBuy ==
  ASSUME NEW s \in Stocks, NEW price \in Prices, NEW n \in 1 .. (cash.amount \div price),
         BuyOf(s, n, price)
  PROVE  Contract!Buy(s, price)
<1>1. /\ today' = today /\ cash'.amount = cash.amount - n * price
      /\ DueOf(lots'[s], today) = DueOf(lots[s], today)
      /\ LateOf(lots'[s], today) = LateOf(lots[s], today) + n
      /\ \A u \in Stocks \ {s} : lots'[u] = lots[u]
  BY DEF BuyOf
<1>2. \A u \in Stocks : DueOf(lots'[u], today') = DueOf(lots[u], today) BY <1>1
<1>3. \A u \in Stocks : LateOf(lots'[u], today') =
        IF u = s THEN LateOf(lots[u], today) + n ELSE LateOf(lots[u], today)
  BY <1>1
<1>4. SettledNow' = SettledNow BY <1>2, NowIs
<1>5. FreshNow' = [FreshNow EXCEPT ![s] = FreshNow[s] + n] BY <1>3, NowIs
<1>6. QED BY <1>1, <1>4, <1>5 DEF Contract!Buy, SettledNow, FreshNow

LEMMA SettlementSale ==
  ASSUME NEW s \in Stocks, NEW price \in Prices, SaleOf(s, price)
  PROVE  Contract!SellAll(s, price)
<1>1. /\ today' = today /\ DueOf(lots[s], today) > 0
      /\ cash'.amount = cash.amount + DueOf(lots[s], today) * price
      /\ DueOf(lots'[s], today) = 0
      /\ LateOf(lots'[s], today) = LateOf(lots[s], today)
      /\ \A u \in Stocks \ {s} : lots'[u] = lots[u]
  BY DEF SaleOf
<1>2. \A u \in Stocks : DueOf(lots'[u], today') = IF u = s THEN 0 ELSE DueOf(lots[u], today)
  BY <1>1
<1>3. \A u \in Stocks : LateOf(lots'[u], today') = LateOf(lots[u], today) BY <1>1
<1>4. FreshNow' = FreshNow BY <1>3, NowIs
<1>5. SettledNow' = [SettledNow EXCEPT ![s] = 0] BY <1>2, NowIs
<1>6. SettledNow[s] = DueOf(lots[s], today) BY NowIs
<1>7. SettledNow[s] > 0 /\ cash'.amount = cash.amount + SettledNow[s] * price BY <1>1, <1>6
<1>8. QED BY <1>4, <1>5, <1>7 DEF Contract!SellAll, SettledNow, FreshNow

LEMMA SettlementStep == AccountInv /\ [Next]_vars => [Contract!Next]_Contract!vars
<1>1. SUFFICES ASSUME AccountInv, [Next]_vars PROVE [Contract!Next]_Contract!vars OBVIOUS
<1>2. CASE NextDay BY <1>1, <1>2, SettlementNextDay DEF Contract!Next
<1>3. CASE Propose
  <2>1. cash' = cash /\ lots' = lots /\ today' = today
    BY <1>3 DEF Propose, ProposeBuy, ProposeSale
  <2>2. SettledNow' = SettledNow /\ FreshNow' = FreshNow BY <2>1, NowIs
  <2>3. QED BY <2>1, <2>2 DEF Contract!vars, SettledNow, FreshNow
<1>4. ASSUME NEW p \in ProposalIds, NEW price \in Prices, FillBuy(p, price)
      PROVE  Contract!Next
  <2>1. PICK s \in Stocks, n \in 1 .. (cash.amount \div price) : BuyOf(s, n, price)
    BY <1>1, <1>4, FillBuyInv
  <2>2. Contract!Buy(s, price) BY <2>1, SettlementBuy
  <2>3. QED BY <2>2 DEF Contract!Next
<1>5. ASSUME NEW p \in ProposalIds, NEW price \in Prices, FillSale(p, price)
      PROVE  Contract!Next
  <2>1. PICK s \in Stocks : SaleOf(s, price) BY <1>1, <1>5, FillSaleInv
  <2>2. Contract!SellAll(s, price) BY <2>1, SettlementSale
  <2>3. QED BY <2>2 DEF Contract!Next
<1>6. CASE Fill BY <1>4, <1>5, <1>6 DEF Fill
<1>7. CASE UNCHANGED vars
  <2>1. cash' = cash /\ lots' = lots /\ today' = today BY <1>7 DEF vars
  <2>2. SettledNow' = SettledNow /\ FreshNow' = FreshNow BY <2>1, NowIs
  <2>3. QED BY <2>1, <2>2 DEF Contract!vars, SettledNow, FreshNow
<1>8. QED BY <1>1, <1>2, <1>3, <1>6, <1>7 DEF Next

(* The account is the T+1 account of SettlementAccount: a fill buys within   *)
(* the cash or sells all that can be sold, and a day settles what is fresh.  *)
THEOREM SettlementImplemented == Spec => ImplementsSettlement
BY SettlementInit, SettlementStep, AccountAlways, PTL DEF Spec, ImplementsSettlement, Contract!Spec
=============================================================================
