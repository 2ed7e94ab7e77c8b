SPECIFICATION OvertakingSpec
CONSTANTS
  Workers = {w1, w2}
  Spares = {}
  Tests = {1, 2, 3, 4, 5, 6}
  Fixtures = {}
  Demand <- ModuleDemand
  Uses <- NoFixtures
  Scope <- NoFixtures
  SetupSlots <- One
  Hold <- One
  Reaches <- NoFixtures
  Shared = {}
  MaxAsks = 0
  Budget = 2
  Ahead = 5
  MaxCrashes = 0
  MaxRestarts = 0
  MaxMoves = 0
INVARIANT SmallTestsYield
