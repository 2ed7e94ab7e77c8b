---------------------------- MODULE BackfillProofs ----------------------------
(***************************************************************************)
(* The rule of backfilling is right wherever projections are: for any      *)
(* number of workers and tests, any budget and any lengths.                *)
(***************************************************************************)
EXTENDS Backfill, AdmissionProofs

(* What the controller keeps of each worker.                               *)
ClockTyped ==
  /\ limit = Budget
  /\ reserved \in [Workers -> [slots : Slots, until : Nat, busy : BOOLEAN]]
  /\ line \in Seq(Workers)
  /\ ask \in [Workers -> [slots : Nat, since : Nat]]
  /\ now \in Nat \ {0}
  /\ head \in [Workers -> [slots : 0 .. Budget, seconds : Nat]]
  /\ free \in [Workers -> Nat]
  /\ ends \in [Workers -> Nat]
  /\ turn \in Seq(Workers)

(* A worker holds slots while its test runs, and no longer.                *)
HeldWhileRunning ==
  \A w \in Workers : IF ends[w] = 0 THEN Held(w) = 0 ELSE reserved[w].busy

ClockInv == ClockTyped /\ HeldWhileRunning

(* Whoever stops waiting has asked for nothing.                            *)
LEMMA LeavesTyped ==
  ASSUME ClockTyped, NEW w \in Workers, Leave(w)
  PROVE  line' \in Seq(Workers) /\ ask' \in [Workers -> [slots : Nat, since : Nat]]
<1>1. line' \in Seq(Workers)
  BY WithoutType DEF ClockTyped, Leave
<1>2. ask' \in [Workers -> [slots : Nat, since : Nat]]
  BY DEF ClockTyped, Leave, NotWaiting
<1> QED
  BY <1>1, <1>2

(* A test starts with what it asks for, which is within the budget.        *)
LEMMA StartKeeps ==
  ASSUME ClockInv, NEW w \in Workers, Start(w)
  PROVE  ClockInv'
<1>1. ClockTyped /\ HeldWhileRunning
  BY DEF ClockInv
<1>2. /\ reserved' = [reserved EXCEPT ![w] =
           [slots |-> Clamp(head[w].slots), until |-> free[w], busy |-> TRUE]]
      /\ Leave(w) /\ limit' = limit
      /\ ends' = [ends EXCEPT ![w] = now + head[w].seconds]
      /\ turn' = Tail(turn) /\ turn # <<>>
      /\ now' = now /\ head' = head /\ free' = free
  BY DEF Start, RaiseReserved, AtTurn
<1>3. head[w].slots \in 0 .. Budget /\ head[w].seconds \in Nat /\ free[w] \in Nat
  BY <1>1 DEF ClockTyped
<1>4. Clamp(head[w].slots) \in Slots
  BY <1>1, <1>3, BudgetAssumption, DemandAssumption DEF ClockTyped, Clamp, Least, Slots
<1>5. reserved' \in [Workers -> [slots : Slots, until : Nat, busy : BOOLEAN]]
  BY <1>1, <1>2, <1>3, <1>4 DEF ClockTyped
<1>6. line' \in Seq(Workers) /\ ask' \in [Workers -> [slots : Nat, since : Nat]]
  BY <1>1, <1>2, LeavesTyped
<1>7. ends' \in [Workers -> Nat] /\ ends'[w] # 0
  <2>1. ends \in [Workers -> Nat] /\ now \in Nat \ {0}
    BY <1>1 DEF ClockTyped
  <2> DEFINE end == now + head[w].seconds
  <2>2. end \in Nat /\ end # 0
    BY <1>3, <2>1
  <2>3. ends' = [ends EXCEPT ![w] = end]
    BY <1>2
  <2> HIDE DEF end
  <2> QED
    BY <2>1, <2>2, <2>3
<1>8. turn' \in Seq(Workers)
  BY <1>1, <1>2 DEF ClockTyped
<1>9. ClockTyped'
  BY <1>1, <1>2, <1>5, <1>6, <1>7, <1>8 DEF ClockTyped
<1>10. HeldWhileRunning'
  BY <1>1, <1>2, <1>7 DEF ClockTyped, HeldWhileRunning, Held
<1> QED
  BY <1>9, <1>10 DEF ClockInv

(* A worker that is refused joins the line with its need.                  *)
LEMMA RefuseKeeps ==
  ASSUME ClockInv, NEW w \in Workers, Refuse(w)
  PROVE  ClockInv'
<1>1. ClockTyped /\ HeldWhileRunning
  BY DEF ClockInv
<1>2. /\ Join(w, head[w].slots, now) /\ UNCHANGED <<limit, reserved, now, head, free, ends>>
      /\ turn' = Tail(turn) /\ turn # <<>>
  BY DEF Refuse, RaiseRefused, AtTurn
<1>3. head[w].slots \in Nat /\ now \in Nat
  BY <1>1 DEF ClockTyped
<1>4. line' \in Seq(Workers) /\ ask' \in [Workers -> [slots : Nat, since : Nat]]
  <2>1. line \in Seq(Workers) /\ ask \in [Workers -> [slots : Nat, since : Nat]]
    BY <1>1 DEF ClockTyped
  <2>2. CASE w \in Waiting
    <3>1. ask' = [ask EXCEPT ![w].slots = head[w].slots] /\ line' = line
      BY <1>2, <2>2 DEF Join
    <3> QED
      BY <1>3, <2>1, <3>1
  <2>3. CASE w \notin Waiting
    <3>1. /\ ask' = [ask EXCEPT ![w] = [slots |-> head[w].slots, since |-> now]]
          /\ line' = Append(line, w)
      BY <1>2, <2>3 DEF Join
    <3>2. [slots |-> head[w].slots, since |-> now] \in [slots : Nat, since : Nat]
      BY <1>3
    <3>3. line' \in Seq(Workers)
      BY <2>1, <3>1
    <3>4. ask' \in [Workers -> [slots : Nat, since : Nat]]
      BY <2>1, <3>1, <3>2
    <3> QED
      BY <3>3, <3>4
  <2> QED
    BY <2>2, <2>3
<1>5. turn' \in Seq(Workers)
  BY <1>1, <1>2 DEF ClockTyped
<1>6. ClockTyped'
  BY <1>1, <1>2, <1>4, <1>5 DEF ClockTyped
<1>7. HeldWhileRunning'
  BY <1>1, <1>2 DEF HeldWhileRunning, Held
<1> QED
  BY <1>6, <1>7 DEF ClockInv

(* A worker that completes gives back what it held.                        *)
LEMMA CompleteKeeps ==
  ASSUME ClockInv, NEW w \in Workers, Complete(w)
  PROVE  ClockInv'
<1>1. ClockTyped /\ HeldWhileRunning
  BY DEF ClockInv
<1>2. /\ reserved' = [reserved EXCEPT ![w] = [slots |-> 0, until |-> 1, busy |-> FALSE]]
      /\ UNCHANGED <<limit, line, ask, now>>
      /\ head' = [head EXCEPT ![w] = NoTest]
      /\ ends' = [ends EXCEPT ![w] = 0]
      /\ free' = [free EXCEPT ![w] = now]
      /\ turn' = <<w>> \o line
  BY DEF Complete, Recompute, Assign
<1>3. reserved' \in [Workers -> [slots : Slots, until : Nat, busy : BOOLEAN]]
  BY <1>1, <1>2, DemandAssumption DEF ClockTyped, Slots
<1>4. head' \in [Workers -> [slots : 0 .. Budget, seconds : Nat]]
  BY <1>1, <1>2, BudgetAssumption DEF ClockTyped, NoTest
<1>5. turn' \in Seq(Workers)
  BY <1>1, <1>2 DEF ClockTyped
<1>6. ClockTyped'
  BY <1>1, <1>2, <1>3, <1>4, <1>5 DEF ClockTyped
<1>7. HeldWhileRunning'
  BY <1>1, <1>2 DEF ClockTyped, HeldWhileRunning, Held
<1> QED
  BY <1>6, <1>7 DEF ClockInv

(* So does every other step.                                               *)
LEMMA ClockStep ==
  ASSUME Lengths \subseteq Nat, ClockInv, [ClockNext]_<<vars, clock>>
  PROVE  ClockInv'
<1> USE DEF ClockInv, ClockTyped, HeldWhileRunning, Held
<1>1. ASSUME NEW w \in Workers, NEW slots \in 1 .. Budget, NEW seconds \in Lengths,
             Dispatch(w, slots, seconds)
      PROVE  ClockInv'
  <2>1. /\ head' = [head EXCEPT ![w] = [slots |-> slots, seconds |-> seconds]]
        /\ free' = [free EXCEPT ![w] = now + seconds]
        /\ UNCHANGED <<limit, reserved, line, ask, now, ends, turn>>
    BY <1>1 DEF Dispatch, vars
  <2>2. [slots |-> slots, seconds |-> seconds] \in [slots : 0 .. Budget, seconds : Nat]
    BY BudgetAssumption
  <2>3. now + seconds \in Nat
    OBVIOUS
  <2>4. head' \in [Workers -> [slots : 0 .. Budget, seconds : Nat]]
    BY <2>1, <2>2
  <2>5. free' \in [Workers -> Nat]
    BY <2>1, <2>3
  <2> QED
    BY <2>1, <2>4, <2>5
<1>2. ASSUME NEW w \in Workers, NothingLeft(w) PROVE ClockInv'
  <2>1. turn' = Tail(turn) /\ turn # <<>>
        /\ UNCHANGED <<limit, reserved, line, ask, now, head, free, ends>>
    BY <1>2 DEF NothingLeft, AtTurn, vars
  <2>2. turn' \in Seq(Workers)
    BY <2>1
  <2> QED
    BY <2>1, <2>2
<1>3. CASE Refresh
  <2>1. /\ free' = [w \in Workers |-> IF free[w] <= now THEN now + head[w].seconds ELSE free[w]]
        /\ UNCHANGED <<limit, reserved, line, ask, now, head, ends, turn>>
    BY <1>3 DEF Refresh, vars
  <2>2. \A w \in Workers : now + head[w].seconds \in Nat /\ free[w] \in Nat
    OBVIOUS
  <2>3. free' \in [Workers -> Nat]
    BY <2>1, <2>2
  <2> QED
    BY <2>1, <2>3
<1>4. CASE Tick
  BY <1>4 DEF Tick, vars
<1>5. CASE UNCHANGED <<vars, clock>>
  BY <1>5 DEF vars, clock
<1> QED
  BY <1>1, <1>2, <1>3, <1>4, <1>5, StartKeeps, RefuseKeeps, CompleteKeeps DEF ClockNext

(* At the beginning nobody holds anything.                                 *)
LEMMA ClockStart == ClockInit => ClockInv
<1> SUFFICES ASSUME ClockInit PROVE ClockInv
  OBVIOUS
<1>1. Cardinality(Workers) \in Nat
  BY WorkersAssumption, FS_CardinalityType
<1>2. turn \in Seq(Workers)
  BY <1>1 DEF ClockInit
<1> QED
  BY <1>2, BudgetAssumption, DemandAssumption
  DEF ClockInit, Init, ClockInv, ClockTyped, HeldWhileRunning, Held, NoReservation,
      NotWaiting, NoTest, Slots

-----------------------------------------------------------------------------
(* The head of the line.                                                   *)

(* A set of numbers that is not empty has a least member.                  *)
LEMMA LeastOf ==
  ASSUME NEW S \in SUBSET Nat, S # {}
  PROVE  \E m \in S : \A n \in S : m <= n
<1>1. PICK m \in S : \A n \in S : <<n, m>> \notin OpToRel(<, Nat)
  BY NatLessThanWellFounded, WFMin
<1>2. \A n \in S : ~(n < m)
  BY <1>1 DEF OpToRel
<1> QED
  BY <1>2

(* The head of a line that is not empty is in it: of those who joined      *)
(* first, the first.                                                       *)
LEMMA HeadInLine ==
  ASSUME ClockTyped, line # <<>>
  PROVE  LineHead \in Workers
<1>1. /\ DOMAIN line = 1 .. Len(line) /\ Len(line) \in Nat \ {0}
      /\ \A i \in DOMAIN line : line[i] \in Workers
  BY DEF ClockTyped
<1> DEFINE joined(i) == ask[line[i]].since
           times == {joined(i) : i \in DOMAIN line}
<1>2. \A i \in DOMAIN line : joined(i) \in Nat
  BY <1>1 DEF ClockTyped
<1>3. PICK t \in times : \A u \in times : t <= u
  <2>1. times \in SUBSET Nat /\ times # {}
    BY <1>1, <1>2
  <2> HIDE DEF times
  <2> QED
    BY <2>1, LeastOf
<1> DEFINE first == {i \in DOMAIN line : joined(i) = t}
<1>4. PICK k \in first : \A i \in first : k <= i
  <2>1. first \in SUBSET Nat /\ first # {}
    BY <1>1, <1>3
  <2> HIDE DEF first
  <2> QED
    BY <2>1, LeastOf
<1>5. k \in DOMAIN line /\ \A j \in DOMAIN line : Precedes(k, j)
  <2>1. \A j \in DOMAIN line : joined(k) <= joined(j) /\ (joined(k) = joined(j) => k <= j)
    BY <1>3, <1>4
  <2> QED
    BY <1>2, <1>4, <2>1 DEF Precedes
<1> QED
  BY <1>1, <1>5 DEF LineHead

-----------------------------------------------------------------------------
(* What is let past the head of the line on projections that hold is over  *)
(* before the head could have had its slots: what is really given back by  *)
(* an instant was projected to be.                                         *)
LEMMA FreshStep ==
  ASSUME ClockInv, NEW w \in Workers, ClockNext, PastHead(w), FreshProjections(w)
  PROVE  EndsBeforeHeadCould(w)
<1>1. ClockTyped /\ HeldWhileRunning
  BY DEF ClockInv
<1>2. Start(w)
  <2>1. ends[w] = 0 /\ ends'[w] # 0
    BY DEF PastHead
  <2>2. ASSUME NEW v \in Workers, Complete(v) PROVE FALSE
    BY <1>1, <2>1, <2>2 DEF Complete, ClockTyped
  <2>3. ASSUME NEW v \in Workers, Start(v) PROVE v = w
    BY <1>1, <2>1, <2>3 DEF Start, ClockTyped
  <2> QED
    BY <2>1, <2>2, <2>3 DEF ClockNext, Dispatch, NothingLeft, Refuse, Refresh, Tick
<1> DEFINE h == LineHead
           X == {h, w}
           need == head[w].slots
<1>3. /\ need \in 0 .. Budget /\ need > 0 /\ Held(w) = 0
      /\ Clamp(need) = need
  <2>1. need \in 0 .. Budget /\ Held(w) = 0
    BY <1>1, <1>2 DEF ClockTyped, HeldWhileRunning, Start
  <2>2. need > 0
    BY <1>2, <2>1 DEF Start, RaiseReserved
  <2> QED
    BY <1>1, <2>1, <2>2, BudgetAssumption DEF ClockTyped, Clamp, Least
<1>4. /\ line # <<>> /\ h # w /\ need > Free - Shortfall(h)
  BY DEF PastHead
<1>5. Free \in Int /\ Shortfall(h) \in Int
  <2>1. h \in Workers
    BY <1>1, <1>4, HeadInLine
  <2>2. ask[h].slots \in Nat /\ Held(h) \in Nat
    <3> HIDE DEF h
    <3>1. ask[h] \in [slots : Nat, since : Nat]
      BY <1>1, <2>1 DEF ClockTyped
    <3>2. reserved[h].slots \in Slots
      BY <1>1, <2>1 DEF ClockTyped
    <3>3. reserved[h].slots \in Nat
      BY <3>2, DemandAssumption DEF Slots
    <3> QED
      BY <3>1, <3>3 DEF Held
  <2>3. Shortfall(h) \in Int
    <3>1. limit \in Nat
      BY <1>1, BudgetAssumption DEF ClockTyped
    <3>2. Clamp(ask[h].slots) \in Nat
      BY <2>2, <3>1 DEF Clamp, Least
    <3> QED
      BY <2>2, <3>2 DEF Shortfall
  <2>4. Used \in Nat
    BY UnitsFinite DEF Used, UsedBy, Pledged
  <2> QED
    BY <1>1, <2>3, <2>4, BudgetAssumption DEF ClockTyped, Free
<1>6. BeforeHead(w, free[w])
  <2>1. Fits(w, need, free[w])
    BY <1>2 DEF Start, RaiseReserved
  <2> HIDE DEF need
  <2>2. ~(need - Held(w) <= Free - Shortfall(h))
    BY <1>3, <1>4, <1>5
  <2> QED
    BY <1>3, <1>4, <2>1, <2>2 DEF Fits
<1>7. ends'[w] = free[w] /\ free[w] \in Nat /\ now \in Nat
  BY <1>1, <1>2 DEF ClockTyped, Start, FreshProjections
<1>8. ASSUME NEW t \in now .. ends'[w] - 1 PROVE ReallyFree(t, X) < Shortfall(h)
  <2> DEFINE really == {u \in Pledged(reserved) :
                          u[1] \notin X /\ ends[u[1]] # 0 /\ ends[u[1]] <= t}
             back == Returning(reserved, t, X)
  <2>1. t \in 0 .. free[w] - 1
    BY <1>7, <1>8
  <2>2. ~(Free + Cardinality(back) >= Shortfall(h))
    BY <1>6, <2>1 DEF BeforeHead, CouldHave, Returned
  <2>3. really \subseteq back
    <3>1. ASSUME NEW u \in really PROVE u \in back
      <4>1. u \in Pledged(reserved) /\ u[1] \in Workers /\ u[1] \notin X
            /\ ends[u[1]] # 0 /\ ends[u[1]] <= t
        BY <3>1 DEF Pledged, Units
      <4>2. reserved[u[1]].busy /\ reserved[u[1]].until = ends[u[1]]
        BY <1>1, <4>1 DEF HeldWhileRunning, FreshProjections
      <4> QED
        BY <4>1, <4>2 DEF Returning
    <3> QED
      BY <3>1
  <2>4. back \in SUBSET Units
    BY DEF Returning, Pledged
  <2> HIDE DEF back
  <2>5. IsFiniteSet(back) /\ Cardinality(back) \in Nat
    BY <2>4, UnitsFinite
  <2>6. ReallyFree(t, X) = Free + Cardinality(really)
    BY DEF ReallyFree
  <2> HIDE DEF really
  <2>7. Cardinality(really) <= Cardinality(back) /\ Cardinality(really) \in Nat
    <3>1. really \in SUBSET back /\ IsFiniteSet(back)
      BY <2>3, <2>5
    <3>2. IsFiniteSet(really) /\ Cardinality(really) <= Cardinality(back)
      BY <3>1, FS_Subset
    <3> QED
      BY <3>2, FS_CardinalityType
  <2> QED
    BY <1>5, <2>2, <2>5, <2>6, <2>7
<1> QED
  BY <1>8 DEF EndsBeforeHeadCould

(* The rule is right: a test let past the head of the line ends before the *)
(* head could have had its slots, whenever nobody's projected end is older *)
(* than the start of its test.                                             *)
THEOREM FreshBackfillSafe ==
  ASSUME Lengths \subseteq Nat PROVE ClockSpec => FreshBackfillEndsInTime
<1> DEFINE Rule == \A w \in Workers :
                     PastHead(w) /\ FreshProjections(w) => EndsBeforeHeadCould(w)
<1>1. ClockInv /\ [ClockNext]_<<vars, clock>> => ClockInv'
  BY ClockStep
<1>2. ClockInv /\ [ClockNext]_<<vars, clock>> => [Rule]_<<vars, clock>>
  BY FreshStep
<1> QED
  BY <1>1, <1>2, ClockStart, PTL DEF ClockSpec, FreshBackfillEndsInTime
===============================================================================
