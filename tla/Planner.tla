-------------------------------- MODULE Planner --------------------------------
(***************************************************************************)
(* How tests are laid out over the lanes (pytest_timing/schedule.py: plan, *)
(* _split, _balance, transfer) by predicted time.  Times are whole         *)
(* seconds; a projection is kept as the state a lane ends in.  Budget 0 is *)
(* no budget.  Scores are multiplied by lanes and budget, so that the      *)
(* averages they are compared with are whole.                              *)
(***************************************************************************)
EXTENDS Integers, Sequences, FiniteSets, SequencesExt

CONSTANTS
  Tests,       \* indices, 1 .. n
  Lanes,       \* 1 .. n
  Owns, Families, Clocks, Budgets,   \* bound: the inputs tried
  Slots,       \* test -> slots
  Owner,       \* test -> the module it is in
  Home,        \* fixture -> the modules in its scope
  Setup,       \* fixture -> seconds
  SetupSlots   \* fixture -> slots

VARIABLES
  case,        \* [own, family: test -> .., free: lane -> .., budget], or None
  lanes,       \* lane -> the plan of the lane, a sequence of tests
  alive,       \* lane -> the fixtures set up on it
  sent,        \* tests sent to their workers
  step,        \* what was done last: "none", "placed", "dispatched", "transferred"
  promise      \* when the run was to end, as it was laid out

planner == <<case, lanes, alive, sent, step, promise>>

None == [own |-> <<>>, family |-> <<>>, free |-> <<>>, budget |-> 0]
NLanes == Cardinality(Lanes)
Total(S, value(_)) == FoldLeft(LAMBDA sum, x : sum + value(x), 0, SetToSeq(S))
Greatest(S) == CHOOSE n \in S : \A m \in S : m <= n
Least(S)    == CHOOSE n \in S : \A m \in S : n <= m

(* Python's sorted: stable, by a key of several numbers. *)
Before(a, b) ==
  \E i \in DOMAIN a : a[i] < b[i] /\ \A j \in 1 .. i - 1 : a[j] = b[j]
Sorted(s, key(_)) ==
  LET order == SetToSortSeq(DOMAIN s, LAMBDA i, j :
                 Before(key(s[i]) \o <<i>>, key(s[j]) \o <<j>>))
  IN  [i \in DOMAIN s |-> s[order[i]]]

-----------------------------------------------------------------------------
(* Costs: project, cold, area. *)
Family(t)  == case.family[t]
Kept(t, F) == {f \in F : f \in Family(t) \/ Owner[t] \in Home[f]}

Run(state, t) ==
  LET owed == Family(t) \ Kept(t, state.fixtures)
  IN  [seconds  |-> state.seconds + case.own[t] + Total(owed, LAMBDA f : Setup[f]),
       work     |-> state.work + case.own[t] * Slots[t]
                      + Total(owed, LAMBDA f : Setup[f] * SetupSlots[f]),
       fixtures |-> Kept(t, state.fixtures) \union Family(t)]

From(F) == [seconds |-> 0, work |-> 0, fixtures |-> F]
Project(tests, state) == FoldLeft(Run, state, tests)

Cold(family, members) ==
  Total(ToSet(members), LAMBDA t : case.own[t]) + Total(family, LAMBDA f : Setup[f])
Area(family, members) ==
  Total(ToSet(members), LAMBDA t : case.own[t] * Slots[t])
    + Total(family, LAMBDA f : Setup[f] * SetupSlots[f])

FromTheEarliest == Least({case.free[j] : j \in Lanes})
Origin == FromTheEarliest
Finish(j, state) == case.free[j] + state.seconds - Origin
States(plans) == [j \in Lanes |-> Project(plans[j], From(alive[j]))]

(* max of the longest lane, the average one, and the slot-seconds floor.   *)
Scale == NLanes * (IF case.budget = 0 THEN 1 ELSE case.budget)
Score(finishes, unplaced, area) ==
  Greatest({finishes[j] * Scale : j \in Lanes}
    \union {(Total(Lanes, LAMBDA j : finishes[j]) + unplaced) * (Scale \div NLanes)}
    \union (IF case.budget = 0 THEN {} ELSE {area * NLanes}))

-----------------------------------------------------------------------------
(* _split: each test on the chunk that is lightest so far.                 *)
Lightest(loads, chunks) == CHOOSE b \in DOMAIN loads :
  \A c \in DOMAIN loads : loads[b] < loads[c] \/ (loads[b] = loads[c] /\ b <= c)

Split(members, parts) ==
  LET Put(s, t) ==
        LET b == Lightest(s.loads, s.chunks)
        IN  [chunks |-> [s.chunks EXCEPT ![b] = Append(@, t)],
             loads  |-> [s.loads EXCEPT ![b] = @ + case.own[t]]]
  IN  FoldLeft(Put, [chunks |-> [b \in 1 .. parts |-> <<>>],
                     loads |-> [b \in 1 .. parts |-> 0]], members).chunks

(* The members of each family, the family that takes most of the budget    *)
(* first and the one without fixtures last.                                *)
ByFamily(tests) ==
  LET order == Sorted(SetToSortSeq(tests, <), LAMBDA t : <<-Slots[t], -case.own[t]>>)
      Of(F) == SelectSeq(order, LAMBDA t : Family(t) = F)
      Seen  == Sorted([i \in DOMAIN order |-> Family(order[i])], LAMBDA F : <<>>)
      distinct == SelectSeq([i \in DOMAIN Seen |-> i], LAMBDA i :
                    \A k \in 1 .. i - 1 : Seen[k] # Seen[i])
  IN  Sorted([i \in DOMAIN distinct |-> Of(Seen[distinct[i]])],
             LAMBDA m : <<IF Family(m[1]) = {} THEN 1 ELSE 0, -Area(Family(m[1]), m)>>)

(* One family in `parts` chunks, the heaviest for the lightest lane.       *)
Cheapest(t, parts, states) ==
  Sorted(SubSeq(Sorted(SetToSortSeq(Lanes, <), LAMBDA j : <<Finish(j, Run(states[j], t))>>),
                1, parts),
         LAMBDA j : <<Finish(j, states[j])>>)
Handed(plans, ranked, chunks) ==
  [j \in Lanes |-> IF j \in ToSet(ranked)
                   THEN plans[j] \o chunks[CHOOSE k \in DOMAIN ranked : ranked[k] = j]
                   ELSE plans[j]]
Placement(members, parts, plans) ==
  Handed(plans, Cheapest(members[1], parts, States(plans)), Split(members, parts))

Promise(plans, states, family, rest, area) ==
  LET Ends(j) == Finish(j, states[j])
  IN  [plans |-> plans,
       score |-> Score([j \in Lanes |-> Ends(j)], rest,
                       Total(Lanes, LAMBDA j : states[j].work) + area),
       spread |-> IF family # {} THEN 0 ELSE Total(Lanes, LAMBDA j : Ends(j) * Ends(j))]
Promised(plans, family, rest, area) == Promise(plans, States(plans), family, rest, area)

TheBetter(new, old, family) ==
  IF \/ 100 * new.score < 99 * old.score
     \/ family = {} /\ 100 * new.score <= 101 * old.score /\ new.spread < old.spread
  THEN new ELSE old

(* The split that promises the best run. *)
Place(plans, families, i) ==
  LET members == families[i]
      family  == Family(members[1])
      rest == Total(i + 1 .. Len(families), LAMBDA k : Cold(Family(families[k][1]), families[k]))
      area == Total(i + 1 .. Len(families), LAMBDA k : Area(Family(families[k][1]), families[k]))
      Try(parts) == Promised(Placement(members, parts, plans), family, rest, area)
      most == Least({NLanes, Len(members)})
  IN  FoldLeft(LAMBDA best, parts : TheBetter(Try(parts), best, family),
               Try(1), [k \in 1 .. most - 1 |-> k + 1]).plans

(* _balance: one test off the tail of the longest lane, while that helps.  *)
RunFinish(plans) ==
  LET states == States(plans)
  IN  Greatest({Finish(j, states[j]) * Scale : j \in Lanes}
        \union (IF case.budget = 0 THEN {}
                ELSE {Total(Lanes, LAMBDA j : states[j].work) * NLanes}))

MovedOneLost(plans, from, to, count) ==   \* mutant: off by one at the cut
  LET n == Len(plans[from]) - count
  IN  [plans EXCEPT ![from] = SubSeq(@, 1, n - 1),
                    ![to] = @ \o SubSeq(plans[from], n + 1, Len(plans[from]))]
Moved(plans, from, to, count) ==
  LET n == Len(plans[from]) - count
  IN  [plans EXCEPT ![from] = SubSeq(@, 1, n),
                    ![to] = @ \o SubSeq(plans[from], n + 1, Len(plans[from]))]

Plans == [Lanes -> Seq(Tests)]
Balanced[plans \in Plans] ==
  LET states == States(plans)
      hi == CHOOSE j \in Lanes : \A k \in Lanes :
              \/ Finish(j, states[j]) > Finish(k, states[k])
              \/ Finish(j, states[j]) = Finish(k, states[k]) /\ j <= k
      Choose(best, lo) ==
        LET after == RunFinish(Moved(plans, hi, lo, 1))
        IN  IF lo # hi /\ 100 * after < 99 * best.after
            THEN [after |-> after, lo |-> lo] ELSE best
      best == FoldLeft(Choose, [after |-> RunFinish(plans), lo |-> hi], SetToSortSeq(Lanes, <))
  IN  IF plans[hi] = <<>> \/ best.lo = hi THEN plans ELSE Balanced[Moved(plans, hi, best.lo, 1)]

(* The order of one lane: fixture-bound and heavy work first, by families, *)
(* by modules where that is quicker.                                       *)
FirstIn(s, same(_, _), x) == Least({i \in DOMAIN s : same(s[i], x)})
Contiguous(order) ==
  Sorted(order, LAMBDA t : <<FirstIn(order, LAMBDA a, b : Family(a) = Family(b), t)>>)
ScopeContiguous(order) ==
  Sorted(order, LAMBDA t : <<FirstIn(order, LAMBDA a, b : Owner[a] = Owner[b], t)>>)

AlwaysQuicker(new, old) == TRUE         \* mutant: tried and always taken
Quicker(new, old) == new.seconds < old.seconds /\ new.work <= old.work

Ordered(plan, F) ==
  LET order == Contiguous(Sorted(plan, LAMBDA t :
                 <<IF Family(t) = {} THEN 1 ELSE 0, -Slots[t], -case.own[t]>>))
      other == ScopeContiguous(order)
  IN  IF Quicker(Project(other, From(F)), Project(order, From(F))) THEN other ELSE order

Placed ==
  LET families == ByFamily(Tests)
      empty    == [j \in Lanes |-> <<>>]
  IN  FoldLeft(LAMBDA plans, i : Place(plans, families, i), empty, [i \in DOMAIN families |-> i])

Planned == [j \in Lanes |-> Ordered(Balanced[Placed][j], alive[j])]

(* When the last lane is predicted to end, on the clock of the run.        *)
RunEnd(plans) ==
  LET states == States(plans) IN Greatest({case.free[j] + states[j].seconds : j \in Lanes})

(* transfer: of every other lane the tail run of a family, half of it or   *)
(* one test, unless the run is lengthened.                                 *)
TailRun(plan) ==
  Cardinality({i \in DOMAIN plan :
    \A k \in i .. Len(plan) : Family(plan[k]) = Family(plan[Len(plan)])})
Offers(receiver) ==
  {o \in (Lanes \ {receiver}) \X (1 .. Cardinality(Tests)) :
     lanes[o[1]] # <<>> /\ o[2] \in {1, TailRun(lanes[o[1]]) \div 2, TailRun(lanes[o[1]])}}

Outcome(o, receiver) ==
  LET after == Moved(lanes, o[1], receiver, o[2])
  IN  <<RunFinish(after), -Finish(receiver, States(after)[receiver]), o[1], o[2]>>

AnyOffer(o, receiver) == TRUE           \* mutant: work is taken at any price
NotLonger(o, receiver) == Outcome(o, receiver)[1] <= RunFinish(lanes)

Transfer(receiver) ==
  /\ step # "none" /\ lanes[receiver] = <<>>
  /\ step' = "transferred"
  /\ LET fit == {o \in Offers(receiver) : NotLonger(o, receiver)}
     IN  /\ fit # {}
         /\ LET o == CHOOSE o \in fit : \A p \in fit :
                       p = o \/ Before(Outcome(o, receiver), Outcome(p, receiver))
            IN  lanes' = Moved(lanes, o[1], receiver, o[2])
  /\ UNCHANGED <<case, alive, sent, promise>>

(* Lane.dispatch: the first test of a plan is sent to its worker.          *)
OnlyItsOwn(state, t) == Family(t)       \* mutant: what is kept alive around it is forgotten
AliveAfter(state, t) == Run(state, t).fixtures

Dispatch(j) ==
  /\ step # "none" /\ lanes[j] # <<>>
  /\ alive' = [alive EXCEPT ![j] = AliveAfter(From(@), lanes[j][1])]
  /\ case' = [case EXCEPT !.free[j] = @ + Run(From(alive[j]), lanes[j][1]).seconds]
  /\ lanes' = [lanes EXCEPT ![j] = Tail(@)]
  /\ sent' = sent \union {lanes[j][1]}
  /\ step' = "dispatched"
  /\ UNCHANGED promise

(* The run is laid out. *)
Ask ==
  /\ step = "none" /\ case = None
  /\ case' \in [own : Owns, family : Families, free : Clocks, budget : Budgets]
  /\ UNCHANGED <<lanes, alive, sent, step, promise>>

Plan ==
  /\ step = "none" /\ case # None
  /\ lanes' = Planned
  /\ step' = "placed"
  /\ promise' = RunEnd(lanes')
  /\ UNCHANGED <<case, alive, sent>>

Init == case = None /\ step = "none" /\ sent = {} /\ promise = 0
        /\ lanes = [j \in Lanes |-> <<>>] /\ alive = [j \in Lanes |-> {}]
Next == Ask \/ Plan \/ \E j \in Lanes : Transfer(j) \/ Dispatch(j)

-----------------------------------------------------------------------------
(* Nothing is lost or planned twice, by whatever splits and moves (plan,   *)
(* transfer): every test is in one plan, once.                             *)
EachPlannedOnce ==
  step # "none" => \A t \in Tests :
    (IF t \in sent THEN 1 ELSE 0) + Cardinality({<<j, i>> \in Lanes \X (1 .. Cardinality(Tests)) :
                   i <= Len(lanes[j]) /\ lanes[j][i] = t}) = 1

(* The balance pass and the order given to a lane do not undo what the     *)
(* placement promised ("while that clearly helps", "replaces exact-family  *)
(* ordering only when Costs.project predicts less", ARCHITECTURE.md:       *)
(* 139-141, 157): the run is not predicted to end later than when the      *)
(* families had been placed.                                               *)
OrderKeepsThePromise == step = "placed" => RunFinish(lanes) <= RunFinish(Placed)

(* However tests are dispatched and tails are transferred, in whatever     *)
(* order lanes run dry, the run is never predicted to end later than when  *)
(* it was laid out (Lane.dispatch, Lane.project, transfer): what is kept   *)
(* alive by the tests that were sent is neither forgotten nor promised     *)
(* twice.  Without a budget: the floor of slot-seconds is only a bound.    *)
EndsAsPromised ==
  step # "none" /\ case.budget = 0 => RunEnd(lanes) <= promise
==============================================================================
