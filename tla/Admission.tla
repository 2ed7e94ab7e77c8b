------------------------------ MODULE Admission ------------------------------
(***************************************************************************)
(* One domain's slot budget (pytest_timing/admission.py, class Admission): *)
(* the moving limit, one reservation per worker, the waiting line and the  *)
(* backfilling rule, driven by the calls its only client makes             *)
(* (xdist_scheduler.py: _raise, _reserve, _withdraw, _force,               *)
(* _release_runtime).  The same class counts CPU slots and memory bytes.   *)
(*                                                                         *)
(* Times are projections on an axis 1 .. Never - 1; Never is math.inf and  *)
(* 0 is -math.inf.  A reservation of no slots that is not busy stands for  *)
(* a worker absent from the `reserved` dict: held, used, idle and shadow   *)
(* do not tell the two apart, and the `until` of a reservation that is not *)
(* busy, which nothing reads, is kept at 1.  The statistics clamped,       *)
(* lowered and lowest are left out; `forced` is kept, the safety of the    *)
(* budget is stated with it.                                               *)
(***************************************************************************)
EXTENDS Integers, Sequences, FiniteSets

CONSTANTS
  Workers,    \* the workers of the domain
  Budget,     \* Admission.budget
  MaxDemand,  \* bound: the largest reservation ever asked for
  Never,      \* bound: the time horizon, math.inf
  MaxSince,   \* bound: the clock readings workers join the line at
  MaxForced   \* bound: forced admissions counted

ASSUME WorkersAssumption == IsFiniteSet(Workers)
ASSUME BudgetAssumption  == Budget \in Nat \ {0}
ASSUME DemandAssumption  == MaxDemand \in Nat /\ MaxDemand >= Budget
ASSUME NeverAssumption   == Never \in Nat /\ Never >= 2
ASSUME SinceAssumption   == MaxSince \in Nat \ {0}
ASSUME ForcedAssumption  == MaxForced \in Nat

VARIABLES
  limit,     \* the moving limit, 1 .. Budget
  reserved,  \* worker -> Reservation(slots, until, busy)
  line,      \* the keys of the waiting dict, in insertion order
  ask,       \* worker -> Waiter(slots, since); NotWaiting outside the line
  forced     \* reservations that had to exceed the limit

vars == <<limit, reserved, line, ask, forced>>

Slots   == 0 .. MaxDemand
Moments == 1 .. Never - 1
Joins   == 1 .. MaxSince
Units   == Workers \X (1 .. MaxDemand)

NoReservation == [slots |-> 0, until |-> 1, busy |-> FALSE]
NotWaiting    == [slots |-> 0, since |-> 0]

Waiting == {line[i] : i \in DOMAIN line}

-----------------------------------------------------------------------------
(* A pledged unit is one slot of one worker's reservation, so that what    *)
(* the reservations add up to is a cardinality.                            *)

Pledged(r) == {u \in Units : u[2] <= r[u[1]].slots}
UsedBy(r)  == Cardinality(Pledged(r))
Used       == UsedBy(reserved)
Free       == limit - Used
Held(w)    == reserved[w].slots
Idle       == \A w \in Workers : ~reserved[w].busy

Least(a, b)  == IF a <= b THEN a ELSE b
Clamp(slots) == Least(slots, limit)

(* The head of the line: the oldest waiter, the first to join among equals *)
(* (min over a dict in insertion order).                                   *)
Precedes(i, j) ==
  \/ ask[line[i]].since < ask[line[j]].since
  \/ ask[line[i]].since = ask[line[j]].since /\ i <= j

LineHead ==
  line[CHOOSE i \in DOMAIN line : \A j \in DOMAIN line : Precedes(i, j)]

Shortfall(h) == Clamp(ask[h].slots) - Held(h)

(* What the busy workers outside X are projected to have given back by t.  *)
ReturnedSooner(r, t, X) ==                      \* mutant: a tie is no release
  {u \in Pledged(r) : u[1] \notin X /\ r[u[1]].busy /\ r[u[1]].until < t}

Returning(r, t, X) ==
  {u \in Pledged(r) : u[1] \notin X /\ r[u[1]].busy /\ r[u[1]].until <= t}

Returned(r, t, X) == Cardinality(Returning(r, t, X))

(* Could h have its shortfall by t, if nothing new is admitted and the     *)
(* workers in X give nothing back?  The shadow of the code is the first t  *)
(* for which this holds.                                                   *)
CouldHave(h, t, X) == Free + Returned(reserved, t, X) >= Shortfall(h)

OneTooLate(w, finish) ==                        \* mutant: off by one
  \A t \in 0 .. finish - 2 : ~CouldHave(LineHead, t, {LineHead, w})

BeforeHead(w, finish) ==
  \A t \in 0 .. finish - 1 : ~CouldHave(LineHead, t, {LineHead, w})

(* May w's reservation be raised to `slots` now, for work projected to end *)
(* at `finish`?                                                            *)
Fits(w, slots, finish) ==
  LET delta == Clamp(slots) - Held(w)
  IN  delta > 0 =>
        /\ delta <= Free
        /\ line # <<>> /\ LineHead # w =>
             \/ delta <= Free - Shortfall(LineHead)
             \/ BeforeHead(w, finish)

-----------------------------------------------------------------------------
(* The line.                                                               *)

Without(s, w) ==
  IF \E i \in DOMAIN s : s[i] = w
  THEN LET k == CHOOSE i \in DOMAIN s : s[i] = w
       IN  [i \in 1 .. Len(s) - 1 |-> IF i < k THEN s[i] ELSE s[i + 1]]
  ELSE s

Leave(w) ==
  /\ line' = Without(line, w)
  /\ ask' = [ask EXCEPT ![w] = NotWaiting]

JoinAgain(w, slots, since) ==                   \* mutant: a retry joins anew
  /\ ask' = [ask EXCEPT ![w] = [slots |-> slots, since |-> since]]
  /\ line' = Append(line, w)

(* A worker already in line keeps its place and only updates its need.     *)
Join(w, slots, since) ==
  IF w \in Waiting
  THEN /\ ask' = [ask EXCEPT ![w].slots = slots]
       /\ line' = line
  ELSE /\ ask' = [ask EXCEPT ![w] = [slots |-> slots, since |-> since]]
       /\ line' = Append(line, w)

ExceedsBudget(w, slots) ==                      \* mutant: measured by the budget
  slots > Held(w) /\ slots - Held(w) > Budget - Used

Exceeds(w, slots) == slots > Held(w) /\ slots - Held(w) > Free

(* Admission.assign: no admission, an excess over the limit is counted.    *)
Assign(w, slots, until, busy) ==
  /\ reserved' = [reserved EXCEPT ![w] =
       [slots |-> slots, until |-> IF busy THEN until ELSE 1, busy |-> busy]]
  /\ IF Exceeds(w, slots)
     THEN forced < MaxForced /\ forced' = forced + 1
     ELSE forced' = forced
  /\ UNCHANGED limit

-----------------------------------------------------------------------------
(* The calls the scheduler makes.                                          *)

(* _raise: what is already covered is only marked busy; a rise is reserved *)
(* up to the limit if it fits; otherwise the worker joins the line and     *)
(* nothing is taken.  Where a domain has two gates a refusal of one of     *)
(* them puts the worker in the line of the other as well.                  *)
RaiseCovered(w, need, finish) ==
  /\ need <= Held(w)
  /\ Assign(w, Held(w), finish, TRUE)
  /\ Leave(w)

RaiseReserved(w, need, finish) ==
  /\ need > Held(w)
  /\ Fits(w, need, finish)
  /\ reserved' = [reserved EXCEPT ![w] =
       [slots |-> Clamp(need), until |-> finish, busy |-> TRUE]]
  /\ Leave(w)
  /\ UNCHANGED <<limit, forced>>

RaiseRefused(w, need, finish, since) ==
  /\ need > Held(w)
  /\ ~Fits(w, need, finish)
  /\ Join(w, need, since)
  /\ UNCHANGED <<limit, reserved, forced>>

RefusedElsewhere(w, need, since) ==
  /\ Join(w, need, since)
  /\ UNCHANGED <<limit, reserved, forced>>

(* _reserve: the reservation is recomputed from what may still run.        *)
Recompute(w, need, until, busy) ==
  /\ Assign(w, need, until, busy)
  /\ UNCHANGED <<line, ask>>

(* _withdraw: a worker that is told to shut down is assigned what is left  *)
(* to it, which may be more than fits, and waits no longer.                *)
Withdraw(w, need, until, busy) ==
  /\ Assign(w, need, until, busy)
  /\ Leave(w)

(* _force: at a standstill a waiting worker is admitted as it is.          *)
ForceAdmit(w, until) ==
  /\ Idle
  /\ w \in Waiting
  /\ Assign(w, ask[w].slots, until, TRUE)
  /\ Leave(w)

(* _release_runtime: the worker is gone.                                   *)
Release(w) ==
  /\ reserved' = [reserved EXCEPT ![w] = NoReservation]
  /\ Leave(w)
  /\ UNCHANGED <<limit, forced>>

SetLimit(n) ==
  /\ limit' = IF n < 1 THEN 1 ELSE Least(Budget, n)
  /\ UNCHANGED <<reserved, line, ask, forced>>

Init ==
  /\ limit = Budget
  /\ reserved = [w \in Workers |-> NoReservation]
  /\ line = <<>>
  /\ ask = [w \in Workers |-> NotWaiting]
  /\ forced = 0

Next ==
  \/ \E w \in Workers, need \in Slots :
       \/ \E t \in Moments :
            \/ RaiseCovered(w, need, t)
            \/ RaiseReserved(w, need, t)
            \/ \E since \in Joins : RaiseRefused(w, need, t, since)
            \/ Recompute(w, need, t, TRUE) \/ Withdraw(w, need, t, TRUE)
       \/ \E since \in Joins : RefusedElsewhere(w, need, since)
       \/ Recompute(w, need, 1, FALSE) \/ Withdraw(w, need, 1, FALSE)
  \/ \E w \in Workers, t \in Moments : ForceAdmit(w, t)
  \/ \E w \in Workers : Release(w)
  \/ \E d \in {-1, 1} : SetLimit(limit + d)

Spec == Init /\ [][Next]_vars

-----------------------------------------------------------------------------
(* Every variable keeps its type, the limit between 1 and the budget.      *)
TypeOK ==
  /\ limit \in 1 .. Budget
  /\ reserved \in [Workers -> [slots : Slots, until : Moments, busy : BOOLEAN]]
  /\ line \in Seq(Workers)
  /\ ask \in [Workers -> [slots : Slots, since : 0 .. MaxSince]]
  /\ forced \in 0 .. MaxForced

(* The waiting line (admission.py, `waiting`): a worker is in it at most   *)
(* once however often it is refused, and a worker that left it leaves no   *)
(* need behind that could still be pledged to.                             *)
LineWellFormed ==
  /\ \A i, j \in DOMAIN line : line[i] = line[j] => i = j
  /\ \A w \in Workers \ Waiting : ask[w] = NotWaiting

(* Until an admission has been forced, the reservations together never     *)
(* exceed the budget (admission.py:122 reserve, :135 assign): refusals,    *)
(* backfills and a moving limit do not overcommit the host.                *)
BudgetKept == forced = 0 => Used <= Budget

(* What is pledged grows past the limit in no other way than by an         *)
(* admission counted as forced (assign, admission.py:136-137): after       *)
(* the limit was lowered under the running tests, nothing may grow until   *)
(* they have given enough back.                                            *)
GrowthPastLimitIsCounted ==
  [][Used' > Used /\ Used' > limit' => forced' = forced + 1]_vars

(* Backfilling does not delay the oldest waiter: when an idle worker is    *)
(* admitted past the head of the line, whenever the head could have had    *)
(* its slots before, it still can (admission.py:3-4, ARCHITECTURE.md:302). *)
HeadNotDelayed ==
  [][\A w \in Workers :
       ~reserved[w].busy /\ reserved'[w].busy =>
         \A h \in Workers \ {w} :
           /\ line # <<>> /\ h = LineHead
           /\ \E need \in Slots, finish \in Moments : RaiseReserved(w, need, finish)
           => \A t \in 0 .. Never : CouldHave(h, t, {h}) => CouldHave(h, t, {h})']_vars

(* A request above the limit runs alone, not never (admission.py:71): when *)
(* no other worker holds anything, the head of the line fits, whatever it  *)
(* asks for and however low the limit has moved.                           *)
RunsAloneNotNever ==
  \A h \in Workers :
    /\ line # <<>> /\ h = LineHead
    /\ \A v \in Workers \ {h} : Held(v) = 0
    => Fits(h, ask[h].slots, Never)

=============================================================================
