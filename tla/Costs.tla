-------------------------------- MODULE Costs --------------------------------
(***************************************************************************)
(* What a test costs in slots on a worker whose live fixtures are known    *)
(* (pytest_timing/schedule.py, classes Costs and Charge).  A fixture has   *)
(* the slots its set-up needs and the slots it holds while it is alive; it *)
(* stays alive for as long as the worker's next test lies in its scope.    *)
(* A function's own fixture is one whose scope only its test lies in.      *)
(* Seconds, slot-seconds, bytes and the replacing of one parameter of a    *)
(* fixture by another are left out.                                        *)
(***************************************************************************)
EXTENDS Integers, FiniteSets

CONSTANTS
  Tests,       \* indices into the collection
  Fixtures,    \* keys of the shared fixtures
  Demand,      \* test -> slots of its own body
  Uses,        \* test -> the fixtures it needs (its family)
  Scope,       \* test -> the fixtures whose scope it lies in
  SetupSlots,  \* fixture -> slots its set-up needs
  Hold         \* fixture -> slots it holds while alive

ASSUME TestsAssumption    == IsFiniteSet(Tests)
ASSUME FixturesAssumption == IsFiniteSet(Fixtures)
ASSUME DemandAssumption   == Demand \in [Tests -> Nat \ {0}]
ASSUME UsesAssumption     == Uses \in [Tests -> SUBSET Fixtures]
ASSUME ScopeAssumption    == Scope \in [Tests -> SUBSET Fixtures]
ASSUME SetupAssumption    == SetupSlots \in [Fixtures -> Nat \ {0}]
ASSUME HoldAssumption     == Hold \in [Fixtures -> Nat]

Larger(a, b) == IF a >= b THEN a ELSE b
Greatest(S)  == CHOOSE n \in S : \A m \in S : m <= n

(* The slots the fixtures F hold together. *)
HoldOf(F) == Cardinality(UNION {{f} \X (1 .. Hold[f]) : f \in F})

(* The instances of F still alive when t starts. *)
Kept(t, F) == F \cap (Uses[t] \cup Scope[t])

(* The instances alive while t runs: those kept and those it sets up. *)
After(t, F) == Kept(t, F) \cup Uses[t]

(* Slots needed to run t on a worker with the fixtures F: its body or the  *)
(* heaviest set-up it still owes, next to everything then alive.           *)
Peak(t, F) ==
  Greatest({Demand[t]} \cup {SetupSlots[f] : f \in Uses[t] \ Kept(t, F)})
  + HoldOf(After(t, F))

(* What a dispatch is charged; `parts` are the fixtures it accounts for.   *)
SharedPeak(t, F) ==   \* mutant: what the fixtures hold is not added to the body's slots
  [peak |-> Greatest({Demand[t], HoldOf(After(t, F))}), holds |-> HoldOf(After(t, F)),
   parts |-> After(t, F)]
Charge(t, F) ==
  [peak |-> Peak(t, F), holds |-> HoldOf(After(t, F)), parts |-> After(t, F)]

(* A charge, raised by live holds it does not already contain.             *)
WithLiveHolds(c, live) == c.peak + Larger(0, live - c.holds)

(* A charge, reconciled once with a fixture reached at run time: setup and *)
(* live are 0 in the charge of another test than the one that reached it.  *)
AddingFixture(c, f, setup, live) ==
  LET extra == IF f \in c.parts THEN 0 ELSE Hold[f]
  IN  [peak |-> Larger(c.peak + extra, setup + live), holds |-> c.holds + extra,
       parts |-> c.parts \cup {f}]

NoCharge == [peak |-> 0, holds |-> 0, parts |-> {}]
=============================================================================
