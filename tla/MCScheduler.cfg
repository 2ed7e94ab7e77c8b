SPECIFICATION FairSpec
CONSTANTS
  Workers = {w1, w2}
  Spares = {}
  Tests = {2, 3, 4, 5}
  Fixtures = {"db", "cache"}
  Demand <- SessionDemand
  Uses <- SessionUses
  Scope <- SessionScope
  SetupSlots <- One
  Hold <- One
  Reaches <- NoFixtures
  Shared = {}
  MaxAsks = 0
  Budget = 3
  Ahead = 2
  MaxCrashes = 0
  MaxRestarts = 0
  MaxMoves = 2
INVARIANTS UseIsReserved
PROPERTIES ForcedAtStandstill Terminates
CHECK_DEADLOCK FALSE
