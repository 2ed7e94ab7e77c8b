SPECIFICATION StealSpec
CONSTANTS
  Workers = {w1, w2}
  Spares = {}
  Tests = {t1, t2, t3, t4, t5, t6}
  Heavy = {t1}
  Fixtures = {}
  Demand <- HeavyTwo
  Uses <- Plain
  Scope <- Plain
  SetupSlots <- OneSlot
  Hold <- OneSlot
  Reaches <- Plain
  Shared = {}
  MaxAsks = 0
  Budget = 2
  Ahead = 7
  MaxCrashes = 0
  MaxRestarts = 0
  MaxMoves = 0
INVARIANT LastTestServed
CHECK_DEADLOCK FALSE
SYMMETRY Symmetry
