SPECIFICATION Spec
CONSTANTS
  Workers = {w1, w2, w3}
  Spares = {}
  Tests = {1, 2, 3}
  Fixtures = {"db"}
  Demand <- ModuleDemand
  Uses <- ModuleUses
  Scope <- ModuleUses
  SetupSlots <- One
  Hold <- One
  Reaches <- NoFixtures
  Shared = {}
  MaxAsks = 0
  Budget = 3
  Ahead = 2
  MaxCrashes = 1
  MaxRestarts = 0
  MaxMoves = 0
SYMMETRY Symmetry
INVARIANT WithdrawnNeverRuns
