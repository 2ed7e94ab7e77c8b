------------------------------- MODULE Declaring -------------------------------
(***************************************************************************)
(* What a test declares and what it is charged: the slots of the test and  *)
(* of its fixtures, as collected (Declarations.from_items, pytest_timing/  *)
(* demand.py) and as reserved (Costs.charge, schedule.py), against one run *)
(* of the test.  Shared fixtures are set up first, as their scope is       *)
(* wider; within a kind the order is pytest's.  A declaration is what the  *)
(* set-up needs, beside all that is alive, and what the instance holds.    *)
(***************************************************************************)
EXTENDS Integers, FiniteSets, FiniteSetsExt

CONSTANTS
  Shared,      \* fixtures of a wider scope
  Inner,       \* function-scoped fixtures
  Declarable   \* bound: slots declared

VARIABLES
  slots,       \* timing_cpu of the test
  setup, hold, \* fixture -> slots
  uses,        \* the fixtures of the test
  warm,        \* shared fixtures alive before it, used by it or not
  alive,       \* what is set up now
  busy,        \* the fixture being set up, "call", or "nothing"
  started      \* has the test been chosen

declaring == <<slots, setup, hold, uses, warm, alive, busy, started>>

AllFixtures == Shared \union Inner
HoldOf(F)   == Cardinality(UNION {{f} \X (1 .. hold[f]) : f \in F})

-----------------------------------------------------------------------------
(* from_items: each function-scoped set-up while the others may already be *)
(* alive and hold, then the call with all of them alive.                   *)
InnerHolds == HoldOf(uses \intersect Inner)

HoldsInCallOnly ==         \* mutant: a set-up is taken to be alone
  {setup[f] : f \in uses \intersect Inner} \union {slots + InnerHolds}
Stages ==
  {setup[f] + InnerHolds - hold[f] : f \in uses \intersect Inner} \union {slots + InnerHolds}

TestSlots == Max(Stages)

(* Costs.charge: the instances alive, and the set-ups still owed.          *)
Charge ==
  LET after == warm \union (uses \intersect Shared)
      owed  == {setup[f] : f \in (uses \intersect Shared) \ warm}
  IN  [peak  |-> Max(owed \union {TestSlots}) + HoldOf(after),
       holds |-> HoldOf(after) + InnerHolds]

(* with_live_holds *)
WithLiveHolds(live) == Charge.peak + Max({0, live - Charge.holds})

-----------------------------------------------------------------------------
Choose ==
  /\ ~started
  /\ started' = TRUE
  /\ slots' \in Declarable \ {0}
  /\ setup' \in [AllFixtures -> Declarable \ {0}]
  /\ hold' \in [AllFixtures -> Declarable]
  /\ uses' \in SUBSET AllFixtures
  /\ warm' \in SUBSET Shared
  /\ alive' = warm'
  /\ UNCHANGED busy

SetUp(f) ==
  /\ started /\ busy = "nothing"
  /\ f \in uses \ alive
  /\ f \in Inner => uses \intersect Shared \subseteq alive
  /\ busy' = f
  /\ UNCHANGED <<slots, setup, hold, uses, warm, alive, started>>

Ready(f) ==
  /\ busy = f
  /\ busy' = "nothing"
  /\ alive' = alive \union {f}
  /\ UNCHANGED <<slots, setup, hold, uses, warm, started>>

Call ==
  /\ started /\ busy = "nothing" /\ uses \subseteq alive
  /\ busy' = "call"
  /\ UNCHANGED <<slots, setup, hold, uses, warm, alive, started>>

DeclaringInit ==
  /\ started = FALSE /\ slots = 1 /\ uses = {} /\ warm = {} /\ alive = {} /\ busy = "nothing"
  /\ setup = [f \in AllFixtures |-> 1] /\ hold = [f \in AllFixtures |-> 0]

DeclaringNext == Choose \/ Call \/ \E f \in AllFixtures : SetUp(f) \/ Ready(f)

DeclaringSpec == DeclaringInit /\ [][DeclaringNext]_declaring

-----------------------------------------------------------------------------
Needed ==
  HoldOf(alive) + (CASE busy = "nothing" -> 0 [] busy = "call" -> slots [] OTHER -> setup[busy])

(* The one reservation a test gets covers every moment of it, whatever is  *)
(* set up in which order and whatever is alive before (from_items,         *)
(* "stages"; Costs.charge).                                                *)
EveryMomentCovered == started => Needed <= Charge.peak

(* When the worker reports what its instances hold, nothing the            *)
(* reservation already contains is added again (with_live_holds): reports  *)
(* of declared fixtures never raise it.                                    *)
HoldsCountedOnce == started => WithLiveHolds(HoldOf(alive)) = Charge.peak

ReservationFits == EveryMomentCovered /\ HoldsCountedOnce
==============================================================================
