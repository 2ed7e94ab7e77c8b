SPECIFICATION Spec
CONSTANTS
  Workers = {w1, w2, w3}
  Spares = {}
  Tests = {1, 2, 3}
  Fixtures = {"db", "tmp"}
  Demand <- SessionDemand
  Uses <- ModuleUses
  Scope <- RuntimeScope
  SetupSlots <- RuntimeSetup
  Hold <- One
  Reaches <- RuntimeReaches
  Shared = {"db"}
  MaxAsks = 1
  Budget = 3
  Ahead = 2
  MaxCrashes = 1
  MaxRestarts = 0
  MaxMoves = 0
SYMMETRY Symmetry
INVARIANTS WaitersBlocked ExitLeavesNothing
PROPERTY WithdrawnInTime
