SPECIFICATION Spec
CONSTANTS
  Workers = {w1, w2}
  Spares = {}
  Tests = {1, 2, 3, 4}
  Fixtures = {"db"}
  Demand <- ModuleDemand
  Uses <- ModuleUses
  Scope <- ModuleScope
  SetupSlots <- One
  Hold <- One
  Reaches <- NoFixtures
  Shared = {}
  MaxAsks = 0
  Budget = 2
  Ahead = 3
  MaxCrashes = 0
  MaxRestarts = 0
  MaxMoves = 0
SYMMETRY Symmetry
PROPERTY ForcedAtStandstill
