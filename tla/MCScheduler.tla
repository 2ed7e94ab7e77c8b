----------------------------- MODULE MCScheduler -----------------------------
(***************************************************************************)
(* The instances of Scheduler that TLC checks.  Tests are numbered; test 1 *)
(* and, in the second suite, test 4 need two slots, every other body and   *)
(* every set-up one, and a fixture holds one slot while it is alive.  A    *)
(* suite says which tests use which fixture and how far the fixtures'      *)
(* scopes extend.                                                          *)
(***************************************************************************)
EXTENDS Scheduler, TLC

Symmetry == Permutations(Workers)

NoFixtures == [t \in Tests |-> {}]
One        == [f \in Fixtures |-> 1]

ModuleDemand  == [t \in Tests |-> IF t = 1 THEN 2 ELSE 1]

(* A module that sets up "db" in test 2 and keeps it through test 3.       *)
ModuleUses  == [t \in Tests |-> IF t = 2 THEN {"db"} ELSE {}]
ModuleScope == [t \in Tests |-> IF t \in {2, 3} THEN {"db"} ELSE {}]

(* Two fixtures of session scope, set up by tests 2 and 3.                 *)
SessionUses  ==
  [t \in Tests |-> CASE t = 2 -> {"db"} [] t = 3 -> {"cache"} [] OTHER -> {}]
SessionDemand == [t \in Tests |-> IF t \in {1, 4} THEN 2 ELSE 1]
SessionScope == [t \in Tests |-> Fixtures]

(* Fixtures of a run's end and of a function: every test reaches "tmp" at  *)
(* run time, whose set-up takes three slots; test 3 may reach "cache", of  *)
(* session scope, too.                                                     *)
AlwaysUses     == [t \in Tests |-> {"db"}]
RuntimeScope   == [t \in Tests |-> Fixtures \ {"tmp"}]
RuntimeReaches == [t \in Tests |-> IF t = 3 THEN Fixtures \ {"db"} ELSE {"tmp"}]
RuntimeSetup   == [f \in Fixtures |-> IF f = "tmp" THEN 3 ELSE 1]
=============================================================================
