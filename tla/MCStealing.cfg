SPECIFICATION StealSpec
CONSTANTS
  Workers = {w1, w2}
  Spares = {}
  Tests = {t1, t2, t3, t4, t5}
  Heavy = {t4, t5}
  Fixtures = {"db"}
  Demand <- AllOne
  Uses <- HeavyUses
  Scope <- Session
  SetupSlots <- TwoSlots
  Hold <- OneSlot
  Reaches <- Plain
  Shared = {}
  MaxAsks = 0
  Budget = 4
  Ahead = 6
  MaxCrashes = 1
  MaxRestarts = 0
  MaxMoves = 0
INVARIANTS TestsConserved UseIsReserved AnswersExpected StarvingServed
SYMMETRY Symmetry
CHECK_DEADLOCK FALSE
