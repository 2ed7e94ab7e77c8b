SPECIFICATION FairSpec
CONSTANTS
  Workers = {w1, w2}
  Spares = {s1}
  Tests = {2, 3}
  Fixtures = {"db", "tmp", "cache"}
  Demand <- ModuleDemand
  Uses <- AlwaysUses
  Scope <- RuntimeScope
  SetupSlots <- RuntimeSetup
  Hold <- One
  Reaches <- RuntimeReaches
  Shared = {"db", "cache"}
  MaxAsks = 1
  Budget = 4
  Ahead = 2
  MaxCrashes = 1
  MaxRestarts = 1
  MaxMoves = 0
INVARIANTS TestsConserved NothingAbandoned
PROPERTIES NeverReplayed PermitsKept Terminates
CHECK_DEADLOCK FALSE
