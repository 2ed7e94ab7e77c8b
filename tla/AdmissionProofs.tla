--------------------------- MODULE AdmissionProofs ---------------------------
(***************************************************************************)
(* What holds of the gate for every number of workers, budget, demand and  *)
(* time horizon.  The argument rests on one fact about sums: changing one  *)
(* worker's reservation changes what is pledged by the difference.  Sums   *)
(* are cardinalities of sets of units, so it follows from the library's    *)
(* theorems about finite sets.                                             *)
(***************************************************************************)
EXTENDS Admission, FiniteSetTheorems, TLAPS

Reservations == [slots : Slots, until : Moments, busy : BOOLEAN]

Own(w, n) == {w} \X (1 .. n)

Others(r, w) == {u \in Pledged(r) : u[1] # w}

-----------------------------------------------------------------------------
(* Sums of reservations.                                                   *)

(* One worker's n slots are n units.                                       *)
LEMMA OwnUnits ==
  ASSUME NEW w \in Workers, NEW n \in Slots
  PROVE  /\ Own(w, n) \subseteq Units
         /\ IsFiniteSet(Own(w, n))
         /\ Cardinality(Own(w, n)) = n
<1>1. n \in Nat /\ n <= MaxDemand /\ MaxDemand \in Nat
  BY DemandAssumption DEF Slots
<1>2. IsFiniteSet(1 .. n) /\ Cardinality(1 .. n) = n
  BY <1>1, FS_Interval
<1>3. IsFiniteSet({w}) /\ Cardinality({w}) = 1
  BY FS_Singleton
<1>4. /\ IsFiniteSet({w} \X (1 .. n))
      /\ Cardinality({w} \X (1 .. n)) = Cardinality({w}) * Cardinality(1 .. n)
  BY <1>2, <1>3, FS_Product
<1>5. Own(w, n) \subseteq Units
  BY <1>1 DEF Own, Units
<1>6. QED
  BY <1>1, <1>2, <1>3, <1>4, <1>5 DEF Own

(* There are finitely many units, so every sum is a natural number.        *)
LEMMA UnitsFinite ==
  ASSUME NEW S \in SUBSET Units
  PROVE  IsFiniteSet(S) /\ Cardinality(S) \in Nat
<1>1. IsFiniteSet(1 .. MaxDemand)
  BY DemandAssumption, FS_Interval
<1>2. IsFiniteSet(Units)
  BY <1>1, WorkersAssumption, FS_Product DEF Units
<1>3. IsFiniteSet(S)
  BY <1>2, FS_Subset
<1>4. QED
  BY <1>3, FS_CardinalityType

(* What is pledged is w's own units and those of the others.               *)
LEMMA PledgedSplit ==
  ASSUME NEW r \in [Workers -> Reservations], NEW w \in Workers
  PROVE  /\ UsedBy(r) = Cardinality(Others(r, w)) + r[w].slots
         /\ UsedBy(r) \in Nat
         /\ Cardinality(Others(r, w)) \in Nat
<1>1. r[w].slots \in Slots
  BY DEF Reservations
<1>2. Pledged(r) = Others(r, w) \cup Own(w, r[w].slots)
  <2>1. ASSUME NEW u \in Pledged(r)
        PROVE  u \in Others(r, w) \cup Own(w, r[w].slots)
    BY DEF Pledged, Others, Own, Units
  <2>2. ASSUME NEW u \in Own(w, r[w].slots)
        PROVE  u \in Pledged(r)
    <3>1. u \in Units
      BY <1>1, OwnUnits
    <3>2. u[1] = w /\ u[2] <= r[w].slots
      BY <1>1 DEF Own, Slots
    <3>3. QED
      BY <3>1, <3>2 DEF Pledged
  <2>3. QED
    BY <2>1, <2>2 DEF Others
<1>3. Others(r, w) \cap Own(w, r[w].slots) = {}
  BY DEF Others, Own
<1>4. Others(r, w) \in SUBSET Units /\ Pledged(r) \in SUBSET Units
  BY DEF Others, Pledged
<1>5. /\ IsFiniteSet(Others(r, w))
      /\ Cardinality(Others(r, w)) \in Nat
      /\ Cardinality(Pledged(r)) \in Nat
  BY <1>4, UnitsFinite
<1>6. Cardinality({}) = 0
  BY FS_EmptySet
<1>7. Cardinality(Pledged(r)) =
        Cardinality(Others(r, w)) + Cardinality(Own(w, r[w].slots)) - Cardinality({})
  BY <1>1, <1>2, <1>3, <1>5, OwnUnits, FS_Union
<1>8. QED
  BY <1>1, <1>5, <1>6, <1>7, OwnUnits DEF UsedBy, Slots

(* Replacing one reservation changes the sum by the difference.            *)
LEMMA UsedUpdate ==
  ASSUME NEW r \in [Workers -> Reservations], NEW w \in Workers,
         NEW x \in Reservations
  PROVE  UsedBy([r EXCEPT ![w] = x]) = UsedBy(r) - r[w].slots + x.slots
<1> DEFINE q == [r EXCEPT ![w] = x]
<1>1. q \in [Workers -> Reservations] /\ q[w] = x
  OBVIOUS
<1>2. Others(q, w) = Others(r, w)
  BY DEF Others, Pledged, Units
<1>3. r[w].slots \in Nat /\ x.slots \in Nat
  BY DEF Reservations, Slots
<1> HIDE DEF q
<1>4. /\ UsedBy(q) = Cardinality(Others(r, w)) + x.slots
      /\ UsedBy(r) = Cardinality(Others(r, w)) + r[w].slots
      /\ Cardinality(Others(r, w)) \in Nat
  BY <1>1, <1>2, PledgedSplit
<1>5. UsedBy(q) = UsedBy(r) - r[w].slots + x.slots
  BY <1>3, <1>4
<1>6. QED
  BY <1>5 DEF q

-----------------------------------------------------------------------------
(* Type correctness.                                                       *)

(* Striking a worker off a line leaves a line.                             *)
LEMMA WithoutType ==
  ASSUME NEW s \in Seq(Workers), NEW w
  PROVE  Without(s, w) \in Seq(Workers)
<1>1. CASE \E i \in DOMAIN s : s[i] = w
  <2> DEFINE k == CHOOSE i \in DOMAIN s : s[i] = w
             q == [i \in 1 .. Len(s) - 1 |-> IF i < k THEN s[i] ELSE s[i + 1]]
  <2>1. k \in DOMAIN s
    BY <1>1
  <2>2. Without(s, w) = q
    BY <1>1 DEF Without
  <2>3. Len(s) - 1 \in Nat /\ \A i \in 1 .. Len(s) - 1 : q[i] \in Workers
    BY <2>1
  <2> QED
    BY <2>2, <2>3
<1>2. CASE ~ \E i \in DOMAIN s : s[i] = w
  BY <1>2 DEF Without
<1> QED
  BY <1>1, <1>2

(* A worker leaving the line leaves a line behind, without it.             *)
LEMMA LeaveType ==
  ASSUME TypeOK, NEW w \in Workers, Leave(w)
  PROVE  /\ line' \in Seq(Workers)
         /\ ask' \in [Workers -> [slots : Slots, since : 0 .. MaxSince]]
<1>1. NotWaiting \in [slots : Slots, since : 0 .. MaxSince]
  BY DemandAssumption, SinceAssumption DEF NotWaiting, Slots
<1>2. ask' \in [Workers -> [slots : Slots, since : 0 .. MaxSince]]
  BY <1>1 DEF TypeOK, Leave
<1>3. line' \in Seq(Workers)
  BY WithoutType DEF TypeOK, Leave
<1> QED
  BY <1>2, <1>3

(* An assigned reservation and the count of forced ones keep their types.  *)
LEMMA AssignType ==
  ASSUME TypeOK, NEW w \in Workers, NEW slots \in Slots, NEW until \in Moments,
         NEW busy \in BOOLEAN, Assign(w, slots, until, busy)
  PROVE  /\ limit' \in 1 .. Budget
         /\ reserved' \in [Workers -> Reservations]
         /\ forced' \in 0 .. MaxForced
<1>1. (IF busy THEN until ELSE 1) \in Moments
  BY NeverAssumption DEF Moments
<1>2. reserved' \in [Workers -> Reservations]
  BY <1>1 DEF TypeOK, Assign, Reservations
<1>3. forced' \in 0 .. MaxForced
  BY ForcedAssumption DEF TypeOK, Assign
<1>4. QED
  BY <1>2, <1>3 DEF TypeOK, Assign

(* A clamped demand is a number of slots, within limit and demand.         *)
LEMMA ClampType ==
  ASSUME TypeOK, NEW n \in Slots
  PROVE  Clamp(n) \in Slots /\ Clamp(n) <= limit /\ Clamp(n) <= n
BY DemandAssumption, BudgetAssumption DEF TypeOK, Clamp, Least, Slots

(* The `until` that is kept while nothing runs is a moment.                *)
LEMMA FirstMoment == 1 \in Moments
BY NeverAssumption DEF Moments

(* No action of the gate breaks a type, action by action.                  *)
LEMMA NextType == TypeOK /\ [Next]_vars => TypeOK'
<1> SUFFICES ASSUME TypeOK, [Next]_vars
             PROVE  TypeOK'
  OBVIOUS
<1> USE DEF Reservations
<1>1. ASSUME NEW w \in Workers, NEW need \in Slots, NEW t \in Moments,
             RaiseCovered(w, need, t)
      PROVE  TypeOK'
  <2>1. Held(w) \in Slots
    BY DEF TypeOK, Held
  <2>2. QED
    BY <1>1, <2>1, AssignType, LeaveType DEF RaiseCovered, TypeOK
<1>2. ASSUME NEW w \in Workers, NEW need \in Slots, NEW t \in Moments,
             RaiseReserved(w, need, t)
      PROVE  TypeOK'
  BY <1>2, ClampType, LeaveType DEF RaiseReserved, TypeOK
<1>3. ASSUME NEW w \in Workers, NEW need \in Slots, NEW t \in Moments,
             NEW since \in Joins,
             RaiseRefused(w, need, t, since) \/ RefusedElsewhere(w, need, since)
      PROVE  TypeOK'
  <2>0. Join(w, need, since) /\ UNCHANGED <<limit, reserved, forced>>
    BY <1>3 DEF RaiseRefused, RefusedElsewhere
  <2>1. since \in 0 .. MaxSince
    BY SinceAssumption DEF Joins
  <2>2. CASE w \in Waiting
    <3>1. ask[w] \in [slots : Slots, since : 0 .. MaxSince]
      BY DEF TypeOK
    <3>2. ask' = [ask EXCEPT ![w] = [ask[w] EXCEPT !.slots = need]]
      BY <2>0, <2>2 DEF Join
    <3>3. [ask[w] EXCEPT !.slots = need] \in [slots : Slots, since : 0 .. MaxSince]
      BY <3>1
    <3>4. ask' \in [Workers -> [slots : Slots, since : 0 .. MaxSince]]
      BY <3>2, <3>3 DEF TypeOK
    <3>5. QED
      BY <2>0, <2>2, <3>4 DEF Join, TypeOK
  <2>3. CASE w \notin Waiting
    <3> DEFINE waiter == [slots |-> need, since |-> since]
    <3>1. waiter \in [slots : Slots, since : 0 .. MaxSince]
      BY <2>1
    <3>2. line' = Append(line, w) /\ ask' = [ask EXCEPT ![w] = waiter]
      BY <2>0, <2>3 DEF Join
    <3> HIDE DEF waiter
    <3>3. ask' \in [Workers -> [slots : Slots, since : 0 .. MaxSince]]
      BY <3>1, <3>2 DEF TypeOK
    <3>4. line' \in Seq(Workers)
      BY <3>2 DEF TypeOK
    <3>5. QED
      BY <2>0, <3>3, <3>4 DEF TypeOK
  <2>4. QED
    BY <2>2, <2>3
<1>4. ASSUME NEW w \in Workers, NEW need \in Slots, NEW t \in Moments,
             NEW busy \in BOOLEAN, Recompute(w, need, t, busy) \/ Withdraw(w, need, t, busy)
      PROVE  TypeOK'
  BY <1>4, AssignType, LeaveType DEF Recompute, Withdraw, TypeOK
<1>5. ASSUME NEW w \in Workers, NEW t \in Moments, ForceAdmit(w, t)
      PROVE  TypeOK'
  <2>1. ask[w].slots \in Slots
    BY DEF TypeOK
  <2>2. /\ Assign(w, ask[w].slots, t, TRUE)
        /\ Leave(w)
    BY <1>5 DEF ForceAdmit
  <2>3. /\ limit' \in 1 .. Budget
        /\ reserved' \in [Workers -> Reservations]
        /\ forced' \in 0 .. MaxForced
    BY <2>1, <2>2, AssignType
  <2>4. QED
    BY <2>2, <2>3, LeaveType DEF TypeOK
<1>6. ASSUME NEW w \in Workers, Release(w)
      PROVE  TypeOK'
  <2>1. NoReservation \in Reservations
    BY DemandAssumption, NeverAssumption DEF NoReservation, Slots, Moments
  <2>2. QED
    BY <1>6, <2>1, LeaveType DEF Release, TypeOK
<1>7. ASSUME NEW d \in {-1, 1}, SetLimit(limit + d)
      PROVE  TypeOK'
  BY <1>7, BudgetAssumption DEF SetLimit, Least, TypeOK
<1>8. CASE UNCHANGED vars
  BY <1>8 DEF vars, TypeOK
<1>9. QED
  <2>1. ASSUME Next PROVE TypeOK'
    BY <2>1, FirstMoment, <1>1, <1>2, <1>3, <1>4, <1>5, <1>6, <1>7 DEF Next
  <2>2. QED
    BY <2>1, <1>8

(* The empty gate is well typed.                                           *)
LEMMA InitType == Init => TypeOK
BY BudgetAssumption, DemandAssumption, NeverAssumption, SinceAssumption,
   ForcedAssumption
DEF Init, TypeOK, NoReservation, NotWaiting, Slots, Moments

(* Every variable keeps its type, however the scheduler drives the gate.   *)
THEOREM TypeCorrect == Spec => []TypeOK
BY InitType, NextType, PTL DEF Spec

-----------------------------------------------------------------------------
(* The budget.                                                             *)

(* What an assignment does to the sum.                                     *)
LEMMA UsedAfter ==
  ASSUME TypeOK, NEW w \in Workers, NEW x \in Reservations,
         reserved' = [reserved EXCEPT ![w] = x]
  PROVE  Used' = Used - Held(w) + x.slots /\ Used \in Nat
         /\ Held(w) \in Nat /\ x.slots \in Nat
<1>1. reserved \in [Workers -> Reservations]
  BY DEF TypeOK, Reservations
<1>2. UsedBy(reserved') = UsedBy(reserved) - reserved[w].slots + x.slots
  BY <1>1, UsedUpdate
<1>3. UsedBy(reserved) \in Nat
  BY <1>1, PledgedSplit
<1>4. QED
  BY <1>1, <1>2, <1>3 DEF Used, Held, Reservations, Slots

(* An assignment that takes the sum past the limit is counted.             *)
LEMMA AssignGrowth ==
  ASSUME TypeOK, NEW w \in Workers, NEW slots \in Slots, NEW until \in Moments,
         NEW busy \in BOOLEAN, Assign(w, slots, until, busy)
  PROVE  /\ forced' >= forced
         /\ Used' > Used /\ Used' > limit' => forced' = forced + 1
<1> DEFINE x == [slots |-> slots, until |-> IF busy THEN until ELSE 1, busy |-> busy]
<1>1. x \in Reservations /\ x.slots = slots
  BY NeverAssumption DEF Moments, Reservations
<1>2. reserved' = [reserved EXCEPT ![w] = x] /\ limit' = limit
  BY DEF Assign
<1> HIDE DEF x
<1>3. /\ Used' = Used - Held(w) + slots
      /\ Used \in Nat /\ Held(w) \in Nat /\ slots \in Nat
  BY <1>1, <1>2, UsedAfter
<1>4. CASE Exceeds(w, slots)
  BY <1>4 DEF Assign, TypeOK
<1>5. CASE ~Exceeds(w, slots)
  BY <1>2, <1>3, <1>5 DEF Assign, Exceeds, Free, TypeOK
<1>6. QED
  BY <1>4, <1>5

(* Growth past the limit is counted, action by action.                     *)
LEMMA GrowthStep ==
  TypeOK /\ [Next]_vars =>
    /\ forced' >= forced
    /\ Used' > Used /\ Used' > limit' => forced' = forced + 1
<1> DEFINE Counted == /\ forced' >= forced
                      /\ Used' > Used /\ Used' > limit' => forced' = forced + 1
<1> SUFFICES ASSUME TypeOK, [Next]_vars
             PROVE  Counted
  OBVIOUS
<1>0. forced \in Int
  BY DEF TypeOK
<1>1. ASSUME NEW w \in Workers, NEW need \in Slots, NEW t \in Moments,
             RaiseCovered(w, need, t)
      PROVE  Counted
  <2>1. Held(w) \in Slots
    BY DEF TypeOK, Held
  <2>2. QED
    BY <1>1, <2>1, AssignGrowth DEF RaiseCovered
<1>2. ASSUME NEW w \in Workers, NEW need \in Slots, NEW t \in Moments,
             RaiseReserved(w, need, t)
      PROVE  Counted
  <2> DEFINE x == [slots |-> Clamp(need), until |-> t, busy |-> TRUE]
  <2>1. x \in Reservations /\ x.slots = Clamp(need)
    BY ClampType DEF Reservations
  <2>2. reserved' = [reserved EXCEPT ![w] = x] /\ limit' = limit /\ forced' = forced
    BY <1>2 DEF RaiseReserved
  <2> HIDE DEF x
  <2>3. /\ Used' = Used - Held(w) + Clamp(need)
        /\ Used \in Nat /\ Held(w) \in Nat /\ Clamp(need) \in Nat
    BY <2>1, <2>2, UsedAfter
  <2>4. Clamp(need) - Held(w) > 0 => Clamp(need) - Held(w) <= Free
    BY <1>2 DEF RaiseReserved, Fits
  <2>5. QED
    BY <1>0, <2>2, <2>3, <2>4 DEF Free, TypeOK
<1>3. ASSUME NEW w \in Workers, NEW need \in Slots, NEW t \in Moments,
             NEW since \in Joins,
             RaiseRefused(w, need, t, since) \/ RefusedElsewhere(w, need, since)
      PROVE  Counted
  <2>1. Used' = Used /\ forced' = forced
    BY <1>3 DEF RaiseRefused, RefusedElsewhere, Used
  <2>2. Used \in Nat
    BY UnitsFinite DEF Used, UsedBy, Pledged
  <2>3. QED
    BY <1>0, <2>1, <2>2
<1>4. ASSUME NEW w \in Workers, NEW need \in Slots, NEW t \in Moments,
             NEW busy \in BOOLEAN, Recompute(w, need, t, busy) \/ Withdraw(w, need, t, busy)
      PROVE  Counted
  BY <1>4, AssignGrowth DEF Recompute, Withdraw
<1>5. ASSUME NEW w \in Workers, NEW t \in Moments, ForceAdmit(w, t)
      PROVE  Counted
  <2>1. ask[w].slots \in Slots
    BY DEF TypeOK
  <2>2. Assign(w, ask[w].slots, t, TRUE)
    BY <1>5 DEF ForceAdmit
  <2>3. QED
    BY <2>1, <2>2, AssignGrowth
<1>6. ASSUME NEW w \in Workers, Release(w)
      PROVE  Counted
  <2>1. NoReservation \in Reservations /\ NoReservation.slots = 0
    BY DemandAssumption, NeverAssumption
    DEF NoReservation, Reservations, Slots, Moments
  <2>2. /\ Used' = Used - Held(w) + 0
        /\ Used \in Nat /\ Held(w) \in Nat
    BY <1>6, <2>1, UsedAfter DEF Release
  <2>3. QED
    BY <1>0, <1>6, <2>2 DEF Release
<1>7. ASSUME NEW d \in {-1, 1}, SetLimit(limit + d)
      PROVE  Counted
  <2>1. Used' = Used
    BY <1>7 DEF SetLimit, Used
  <2>2. Used \in Nat
    BY UnitsFinite DEF Used, UsedBy, Pledged
  <2>3. QED
    BY <1>0, <1>7, <2>1, <2>2 DEF SetLimit
<1>8. CASE UNCHANGED vars
  <2>1. Used' = Used /\ forced' = forced
    BY <1>8 DEF vars, Used
  <2>2. Used \in Nat
    BY UnitsFinite DEF Used, UsedBy, Pledged
  <2>3. QED
    BY <1>0, <2>1, <2>2
<1>9. QED
  <2>1. ASSUME Next PROVE Counted
    BY <2>1, FirstMoment, <1>1, <1>2, <1>3, <1>4, <1>5, <1>6, <1>7 DEF Next
  <2>2. QED
    BY <2>1, <1>8

(* The reservations grow past the limit only by admissions counted as      *)
(* forced, for every budget and every number of workers.                   *)
THEOREM GrowthCounted == Spec => GrowthPastLimitIsCounted
<1>1. TypeOK /\ [Next]_vars =>
        [Used' > Used /\ Used' > limit' => forced' = forced + 1]_vars
  BY GrowthStep
<1>2. QED
  BY <1>1, TypeCorrect, PTL DEF Spec, GrowthPastLimitIsCounted

(* The empty gate holds nothing.                                           *)
LEMMA InitBudget == Init => BudgetKept
<1> SUFFICES ASSUME Init PROVE Used <= Budget
  BY DEF BudgetKept
<1>1. Pledged(reserved) = {}
  BY DEF Init, Pledged, Units, NoReservation
<1>2. Cardinality({}) = 0
  BY FS_EmptySet
<1>3. QED
  BY <1>1, <1>2, BudgetAssumption DEF Used, UsedBy

(* No action takes the sum past the budget without being counted.          *)
LEMMA NextBudget == TypeOK /\ TypeOK' /\ BudgetKept /\ [Next]_vars => BudgetKept'
<1> SUFFICES ASSUME TypeOK, TypeOK', BudgetKept, [Next]_vars, forced' = 0
             PROVE  Used' <= Budget
  BY DEF BudgetKept
<1>1. /\ forced' >= forced
      /\ Used' > Used /\ Used' > limit' => forced' = forced + 1
  BY GrowthStep
<1>2. forced \in Nat /\ limit' <= Budget /\ limit' \in Nat
  BY BudgetAssumption, ForcedAssumption DEF TypeOK
<1>3. forced = 0 /\ ~(Used' > Used /\ Used' > limit')
  BY <1>1, <1>2
<1>4. Used <= Budget
  BY <1>3 DEF BudgetKept
<1>5. Used \in Nat
  BY UnitsFinite DEF Used, UsedBy, Pledged
<1>6. Used' \in Nat
  <2>1. Pledged(reserved') \in SUBSET Units
    BY DEF Pledged
  <2>2. QED
    BY <2>1, UnitsFinite DEF Used, UsedBy
<1>7. QED
  BY <1>2, <1>3, <1>4, <1>5, <1>6, BudgetAssumption

(* Until an admission is forced, the budget is never exceeded, whatever    *)
(* the number of workers and however the limit moves.                      *)
THEOREM BudgetSafe == Spec => []BudgetKept
BY InitBudget, NextBudget, TypeCorrect, PTL DEF Spec

-----------------------------------------------------------------------------
(* The waiting line.                                                       *)

(* In any well typed state the head alone at the gate fits.                *)
LEMMA AloneFits == TypeOK => RunsAloneNotNever
<1> SUFFICES ASSUME TypeOK, NEW h \in Workers, h = LineHead,
                    \A v \in Workers \ {h} : Held(v) = 0
             PROVE  Fits(h, ask[h].slots, Never)
  BY DEF RunsAloneNotNever
<1>1. reserved \in [Workers -> Reservations]
  BY DEF TypeOK, Reservations
<1>2. Others(reserved, h) = {}
  BY DEF Others, Pledged, Units, Held
<1>3. Used = Held(h)
  <2>1. /\ UsedBy(reserved) = Cardinality(Others(reserved, h)) + reserved[h].slots
        /\ UsedBy(reserved) \in Nat
    BY <1>1, PledgedSplit
  <2>2. Cardinality({}) = 0
    BY FS_EmptySet
  <2>3. reserved[h].slots \in Nat
    BY <1>1 DEF Reservations, Slots
  <2>4. QED
    BY <1>2, <2>1, <2>2, <2>3 DEF Used, Held
<1>4. Held(h) \in Int /\ limit \in Int
  BY <1>1 DEF TypeOK, Held, Reservations, Slots
<1>5. ask[h].slots \in Slots
  BY DEF TypeOK
<1>6. Clamp(ask[h].slots) <= limit /\ Clamp(ask[h].slots) \in Int
  BY <1>5, ClampType DEF Slots
<1>7. Clamp(ask[h].slots) - Held(h) <= Free
  BY <1>3, <1>4, <1>6 DEF Free
<1>8. QED
  BY <1>7 DEF Fits

(* The head of the line always fits alone: a demand above the budget, or   *)
(* above a lowered limit, cannot keep a test from ever running.            *)
THEOREM RunsAlone == Spec => []RunsAloneNotNever
BY AloneFits, TypeCorrect, PTL

(* Admitting an idle worker takes nothing from what the others give back.  *)
LEMMA ReturnedKept ==
  ASSUME NEW r \in [Workers -> Reservations],
         NEW q \in [Workers -> Reservations],
         NEW w \in Workers, NEW t \in Nat, NEW X,
         \A v \in Workers \ {w} : q[v] = r[v],
         w \notin X, r[w].busy = FALSE
  PROVE  /\ Returned(r, t, X) \in Nat /\ Returned(q, t, X) \in Nat
         /\ IsFiniteSet(Returning(r, t, X))
         /\ Returning(r, t, X) \subseteq Returning(q, t, X)
         /\ Returned(q, t, X) >= Returned(r, t, X)
<1>1. Returning(r, t, X) \subseteq Returning(q, t, X)
  BY DEF Returning, Pledged, Units
<1>2. /\ Returning(r, t, X) \in SUBSET Units
      /\ Returning(q, t, X) \in SUBSET Units
  BY DEF Returning, Pledged
<1>3. /\ IsFiniteSet(Returning(r, t, X)) /\ IsFiniteSet(Returning(q, t, X))
      /\ Returned(r, t, X) \in Nat /\ Returned(q, t, X) \in Nat
  BY <1>2, UnitsFinite DEF Returned
<1>4. QED
  BY <1>1, <1>3, FS_Subset DEF Returned

(* From its projected end on, its own slots are given back too.            *)
LEMMA ReturnedGained ==
  ASSUME NEW r \in [Workers -> Reservations],
         NEW q \in [Workers -> Reservations],
         NEW w \in Workers, NEW t \in Nat, NEW X,
         \A v \in Workers \ {w} : q[v] = r[v],
         w \notin X, r[w].busy = FALSE, q[w].busy = TRUE, q[w].until <= t
  PROVE  Returned(q, t, X) >= Returned(r, t, X) + q[w].slots
<1> DEFINE own == Own(w, q[w].slots)
<1>1. q[w].slots \in Slots /\ q[w].slots \in Nat
  BY DEF Reservations, Slots
<1>2. own \subseteq Units /\ IsFiniteSet(own) /\ Cardinality(own) = q[w].slots
  BY <1>1, OwnUnits
<1>3. Returning(q, t, X) = Returning(r, t, X) \cup own
  <2>1. ASSUME NEW u \in Returning(q, t, X)
        PROVE  u \in Returning(r, t, X) \cup own
    BY DEF Returning, Pledged, Units, Own
  <2>2. ASSUME NEW u \in own
        PROVE  u \in Returning(q, t, X)
    <3>1. u \in Units /\ u[1] = w /\ u[2] <= q[w].slots
      BY <1>1, <1>2 DEF Own
    <3>2. QED
      BY <3>1 DEF Returning, Pledged
  <2>3. QED
    BY <2>1, <2>2, ReturnedKept
<1>4. Returning(r, t, X) \cap own = {}
  BY DEF Returning, Own
<1>5. Cardinality({}) = 0
  BY FS_EmptySet
<1>6. /\ IsFiniteSet(Returning(r, t, X))
      /\ Cardinality(Returning(r, t, X)) \in Nat
  BY ReturnedKept DEF Returned
<1> HIDE DEF own
<1>7. Cardinality(Returning(r, t, X) \cup own) =
        Cardinality(Returning(r, t, X)) + Cardinality(own)
          - Cardinality(Returning(r, t, X) \cap own)
  BY <1>2, <1>6, FS_Union
<1>8. Cardinality(Returning(q, t, X)) =
        Cardinality(Returning(r, t, X)) + q[w].slots - 0
  BY <1>2, <1>3, <1>4, <1>5, <1>7
<1>9. QED
  BY <1>1, <1>6, <1>8 DEF Returned

(* One backfill, one instant: what the head could have had by t it can     *)
(* still have, because the slots lent are back by then.                    *)
LEMMA BackfillStep ==
  ASSUME TypeOK, NEW w \in Workers, NEW h \in Workers \ {w},
         line # <<>>, h = LineHead, ~reserved[w].busy,
         NEW need \in Slots, NEW finish \in Moments,
         RaiseReserved(w, need, finish),
         NEW t \in Nat, CouldHave(h, t, {h})
  PROVE  CouldHave(h, t, {h})'
<1> DEFINE x == [slots |-> Clamp(need), until |-> finish, busy |-> TRUE]
           was == Returned(reserved, t, {h})
           now == Returned(reserved', t, {h})
<1>1. /\ x \in Reservations /\ x.slots = Clamp(need) /\ x.busy /\ x.until = finish
      /\ Clamp(need) \in Nat
  BY ClampType DEF Reservations, Slots
<1>2. /\ reserved' = [reserved EXCEPT ![w] = x]
      /\ limit' = limit /\ ask' = [ask EXCEPT ![w] = NotWaiting]
  BY DEF RaiseReserved, Leave
<1> HIDE DEF x
<1>3. /\ Used' = Used - Held(w) + Clamp(need)
      /\ Used \in Nat /\ Held(w) \in Nat
  BY <1>1, <1>2, UsedAfter
<1>4. reserved \in [Workers -> Reservations]
  BY DEF TypeOK, Reservations
<1>5. /\ was \in Nat
      /\ Returned(reserved, t, {h, w}) = was
      /\ now >= was
      /\ finish <= t => now >= was + Clamp(need)
  <2>1. /\ reserved' \in [Workers -> Reservations]
        /\ reserved'[w] = x
        /\ \A v \in Workers \ {w} : reserved'[v] = reserved[v]
    BY <1>1, <1>2, <1>4
  <2>2. /\ reserved[w].busy = FALSE /\ reserved'[w].busy = TRUE
        /\ reserved'[w].slots = Clamp(need) /\ reserved'[w].until = finish
    BY <1>1, <1>4, <2>1 DEF Reservations
  <2>3. w \notin {h}
    OBVIOUS
  <2>4. Returning(reserved, t, {h, w}) = Returning(reserved, t, {h})
    BY <2>2 DEF Returning, Pledged, Units
  <2>5. Returned(reserved, t, {h, w}) = was
    BY <2>4 DEF Returned
  <2>6. was \in Nat /\ now >= was
    BY <1>4, <2>1, <2>2, <2>3, ReturnedKept
  <2>7. ASSUME finish <= t
        PROVE  now >= was + Clamp(need)
    <3>1. reserved'[w].until <= t
      BY <2>2, <2>7
    <3>2. now >= was + reserved'[w].slots
      BY <1>4, <2>1, <2>2, <2>3, <3>1, ReturnedGained
    <3>3. QED
      BY <2>2, <3>2
  <2>8. QED
    BY <2>5, <2>6, <2>7
<1>6. Shortfall(h)' = Shortfall(h)
  BY <1>2, <1>4 DEF TypeOK, Shortfall, Clamp, Held
<1>7. Shortfall(h) \in Int /\ limit \in Int
  <2>1. ask[h].slots \in Slots /\ Held(h) \in Int
    BY DEF TypeOK, Held, Slots
  <2>2. Clamp(ask[h].slots) \in Int
    BY <2>1, ClampType DEF Slots
  <2>3. QED
    BY <2>1, <2>2 DEF Shortfall, TypeOK
<1>8. limit - Used + was >= Shortfall(h)
  BY DEF CouldHave, Free
<1>9. now \in Nat
  <2>1. Returning(reserved', t, {h}) \in SUBSET Units
    BY DEF Returning, Pledged
  <2>2. QED
    BY <2>1, UnitsFinite DEF Returned
<1> DEFINE delta == Clamp(need) - Held(w)
<1>10. SUFFICES limit - Used' + now >= Shortfall(h)
  BY <1>2, <1>6 DEF CouldHave, Free
<1>11. CASE delta <= 0
  BY <1>1, <1>3, <1>5, <1>7, <1>8, <1>9, <1>11
<1>12. CASE delta > 0 /\ delta <= Free - Shortfall(h)
  BY <1>1, <1>3, <1>7, <1>9, <1>12 DEF Free
<1>13. CASE delta > 0 /\ BeforeHead(w, finish)
  <2>1. ~(t < finish)
    <3>1. SUFFICES ASSUME t < finish PROVE FALSE
      OBVIOUS
    <3>2. t \in 0 .. finish - 1
      <4>1. finish \in Nat /\ t \in Nat
        BY NeverAssumption DEF Moments
      <4>2. QED
        BY <3>1, <4>1
    <3>3. ~CouldHave(h, t, {h, w})
      BY <1>13, <3>2 DEF BeforeHead
    <3>4. QED
      BY <1>5, <3>3 DEF CouldHave
  <2>2. now >= was + Clamp(need)
    BY <1>5, <2>1, NeverAssumption DEF Moments
  <2>3. QED
    BY <1>1, <1>3, <1>5, <1>7, <1>8, <1>9, <2>2
<1>14. QED
  <2>1. delta > 0 => delta <= Free - Shortfall(h) \/ BeforeHead(w, finish)
    BY DEF RaiseReserved, Fits
  <2>2. delta \in Int
    BY <1>1, <1>3
  <2>3. QED
    BY <1>11, <1>12, <1>13, <2>1, <2>2

(* No backfill delays the oldest waiter: for every number of workers,      *)
(* every demand and every projection, whenever the head could have had its *)
(* slots before an idle worker was let past it, it still can.              *)
THEOREM HeadSafe == Spec => HeadNotDelayed
<1> DEFINE Harmless ==
      \A w \in Workers :
       ~reserved[w].busy /\ reserved'[w].busy =>
         \A h \in Workers \ {w} :
           /\ line # <<>> /\ h = LineHead
           /\ \E need \in Slots, finish \in Moments : RaiseReserved(w, need, finish)
           => \A t \in 0 .. Never : CouldHave(h, t, {h}) => CouldHave(h, t, {h})'
<1>1. TypeOK => Harmless
  <2> SUFFICES ASSUME TypeOK, NEW w \in Workers, ~reserved[w].busy,
                      NEW h \in Workers \ {w}, line # <<>>, h = LineHead,
                      NEW need \in Slots, NEW finish \in Moments,
                      RaiseReserved(w, need, finish),
                      NEW t \in 0 .. Never, CouldHave(h, t, {h})
               PROVE  CouldHave(h, t, {h})'
    OBVIOUS
  <2>1. t \in Nat
    BY NeverAssumption
  <2>2. QED
    BY <2>1, BackfillStep
<1>2. TypeOK /\ [Next]_vars => [Harmless]_vars
  BY <1>1
<1>3. QED
  BY <1>2, TypeCorrect, PTL DEF Spec, HeadNotDelayed

-----------------------------------------------------------------------------
(* The line.                                                               *)

(* Who leaves is taken out of the line and nobody else is.                 *)
LEMMA LeaveLine ==
  ASSUME TypeOK, LineWellFormed, NEW w \in Workers, Leave(w)
  PROVE  LineWellFormed'
<1>1. /\ Len(line) \in Nat /\ DOMAIN line = 1 .. Len(line)
      /\ \A i \in 1 .. Len(line) : line[i] \in Workers
  BY DEF TypeOK
<1>2. \A v \in Workers : ask'[v] = IF v = w THEN NotWaiting ELSE ask[v]
  BY DEF TypeOK, Leave
<1>3. CASE \E i \in DOMAIN line : line[i] = w
  <2> DEFINE k == CHOOSE i \in DOMAIN line : line[i] = w
             s == [i \in 1 .. Len(line) - 1 |-> IF i < k THEN line[i] ELSE line[i + 1]]
  <2>1. k \in 1 .. Len(line) /\ line[k] = w
    BY <1>1, <1>3
  <2>2. line' = s
    BY <1>3 DEF Leave, Without
  <2>3. \A i \in 1 .. Len(line) - 1 : s[i] = IF i < k THEN line[i] ELSE line[i + 1]
    OBVIOUS
  <2>4. DOMAIN line' = 1 .. Len(line) - 1
    BY <2>2
  <2> HIDE DEF k, s
  <2>5. \A i, j \in DOMAIN line' : line'[i] = line'[j] => i = j
    <3> SUFFICES ASSUME NEW i \in 1 .. Len(line) - 1, NEW j \in 1 .. Len(line) - 1, s[i] = s[j]
                 PROVE  i = j
      BY <2>2, <2>4
    <3>1. \A a, b \in 1 .. Len(line) : line[a] = line[b] => a = b
      BY <1>1 DEF LineWellFormed
    <3>2. /\ i \in 1 .. Len(line) /\ i + 1 \in 1 .. Len(line)
          /\ j \in 1 .. Len(line) /\ j + 1 \in 1 .. Len(line)
      BY <1>1
    <3> QED
      BY <1>1, <2>1, <2>3, <3>1, <3>2
  <2>6. ASSUME NEW v \in Workers, v \notin Waiting', v # w PROVE v \notin Waiting
    <3> SUFFICES ASSUME NEW i \in 1 .. Len(line), line[i] = v PROVE FALSE
      BY <1>1 DEF Waiting
    <3>1. i # k
      BY <2>1, <2>6
    <3>2. CASE i < k
      <4>1. i \in 1 .. Len(line) - 1 /\ s[i] = v
        BY <1>1, <2>1, <2>3, <3>2
      <4> QED
        BY <2>2, <2>4, <2>6, <4>1 DEF Waiting
    <3>3. CASE i > k
      <4>1. i - 1 \in 1 .. Len(line) - 1 /\ ~(i - 1 < k) /\ (i - 1) + 1 = i
        BY <1>1, <2>1, <3>3
      <4>2. s[i - 1] = v
        BY <2>3, <4>1
      <4> QED
        BY <2>2, <2>4, <2>6, <4>1, <4>2 DEF Waiting
    <3> QED
      BY <1>1, <2>1, <3>1, <3>2, <3>3
  <2>7. \A v \in Workers \ Waiting' : ask'[v] = NotWaiting
    BY <1>2, <2>6 DEF LineWellFormed
  <2> QED
    BY <2>5, <2>7 DEF LineWellFormed
<1>4. CASE ~ \E i \in DOMAIN line : line[i] = w
  <2>1. line' = line /\ Waiting' = Waiting
    BY <1>4 DEF Leave, Without, Waiting
  <2> QED
    BY <1>2, <2>1 DEF LineWellFormed
<1> QED
  BY <1>3, <1>4

(* Who joins is new to the line, or keeps its place in it.                 *)
LEMMA JoinLine ==
  ASSUME TypeOK, LineWellFormed, NEW w \in Workers, NEW need \in Slots, NEW since \in Joins,
         Join(w, need, since)
  PROVE  LineWellFormed'
<1>1. Len(line) \in Nat /\ DOMAIN line = 1 .. Len(line)
  BY DEF TypeOK
<1>2. \A v \in Workers : v # w => ask'[v] = ask[v]
  BY DEF TypeOK, Join
<1>3. CASE w \in Waiting
  <2>1. line' = line /\ Waiting' = Waiting
    BY <1>3 DEF Join, Waiting
  <2> QED
    BY <1>2, <1>3, <2>1 DEF LineWellFormed
<1>4. CASE w \notin Waiting
  <2>1. line' = Append(line, w)
    BY <1>4 DEF Join
  <2>2. /\ DOMAIN line' = 1 .. Len(line) + 1 /\ line'[Len(line) + 1] = w
        /\ \A i \in 1 .. Len(line) : line'[i] = line[i] /\ i \in DOMAIN line'
    BY <2>1 DEF TypeOK
  <2>3. \A i \in 1 .. Len(line) : line[i] # w
    BY <1>1, <1>4 DEF Waiting
  <2>4. \A i, j \in DOMAIN line' : line'[i] = line'[j] => i = j
    <3> SUFFICES ASSUME NEW i \in 1 .. Len(line) + 1, NEW j \in 1 .. Len(line) + 1,
                        line'[i] = line'[j]
                 PROVE  i = j
      BY <2>2
    <3>1. \A a, b \in 1 .. Len(line) : line[a] = line[b] => a = b
      BY <1>1 DEF LineWellFormed
    <3>2. (i \in 1 .. Len(line) \/ i = Len(line) + 1) /\ (j \in 1 .. Len(line) \/ j = Len(line) + 1)
      BY <1>1
    <3> QED
      BY <2>2, <2>3, <3>1, <3>2
  <2>5. Waiting \union {w} \subseteq Waiting'
    <3>1. \A i \in 1 .. Len(line) : line[i] \in Waiting'
      BY <2>2 DEF Waiting
    <3>2. w \in Waiting'
      BY <1>1, <2>2 DEF Waiting
    <3> QED
      BY <1>1, <3>1, <3>2 DEF Waiting
  <2>6. \A v \in Workers \ Waiting' : ask'[v] = NotWaiting
    BY <1>2, <2>5 DEF LineWellFormed
  <2> QED
    BY <2>4, <2>6 DEF LineWellFormed
<1> QED
  BY <1>3, <1>4

(* A worker is in the line at most once however often it is refused, and   *)
(* leaves no need behind in it.                                            *)
THEOREM LineSafe == Spec => []LineWellFormed
<1>1. Init => LineWellFormed
  <2> SUFFICES ASSUME Init PROVE LineWellFormed
    OBVIOUS
  <2>1. DOMAIN line = {} /\ \A v \in Workers : ask[v] = NotWaiting
    BY DEF Init
  <2> QED
    BY <2>1 DEF LineWellFormed
<1>2. TypeOK /\ LineWellFormed /\ [Next]_vars => LineWellFormed'
  <2> SUFFICES ASSUME TypeOK, LineWellFormed, [Next]_vars PROVE LineWellFormed'
    OBVIOUS
  <2>1. ASSUME line' = line, ask' = ask PROVE LineWellFormed'
    BY <2>1 DEF LineWellFormed, Waiting
  <2>2. ASSUME NEW w \in Workers, NEW need \in Slots, NEW t \in Moments,
               RaiseCovered(w, need, t) \/ RaiseReserved(w, need, t)
        PROVE  LineWellFormed'
    BY <2>2, LeaveLine DEF RaiseCovered, RaiseReserved
  <2>3. ASSUME NEW w \in Workers, NEW need \in Slots, NEW t \in Moments, NEW since \in Joins,
               RaiseRefused(w, need, t, since) \/ RefusedElsewhere(w, need, since)
        PROVE  LineWellFormed'
    BY <2>3, JoinLine DEF RaiseRefused, RefusedElsewhere
  <2>4. ASSUME NEW w \in Workers, NEW need \in Slots, NEW t \in Moments, NEW busy \in BOOLEAN,
               Recompute(w, need, t, busy) \/ Withdraw(w, need, t, busy)
        PROVE  LineWellFormed'
    BY <2>1, <2>4, LeaveLine DEF Recompute, Withdraw
  <2>5. ASSUME NEW w \in Workers, NEW t \in Moments, ForceAdmit(w, t) PROVE LineWellFormed'
    BY <2>5, LeaveLine DEF ForceAdmit
  <2>6. ASSUME NEW w \in Workers, Release(w) PROVE LineWellFormed'
    BY <2>6, LeaveLine DEF Release
  <2>7. ASSUME NEW d \in {-1, 1}, SetLimit(limit + d) PROVE LineWellFormed'
    BY <2>1, <2>7 DEF SetLimit
  <2>8. CASE UNCHANGED vars
    BY <2>1, <2>8 DEF vars
  <2> QED
    BY FirstMoment, <2>2, <2>3, <2>4, <2>5, <2>6, <2>7, <2>8 DEF Next
<1> QED
  BY <1>1, <1>2, TypeCorrect, PTL DEF Spec
===============================================================================
