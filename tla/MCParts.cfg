SPECIFICATION PartsSpec
CONSTANTS
  Budget = 3
  StepDownAfter = 2
  RecoverAfter = 3
  Cooldown = 4
  Steps = {1, 3}
  Rates = {0, 2}
  MaxSeconds = 12
  Workers = {w1, w2}
  Gated = {w1}
  MaxAsks = 3
  Members = {u, v, w}
  SlotBudget = 2
  ByteBudget = 2
  MaxSlots = 3
  MaxBytes = 3
  Tests <- MixedDemands
  MaxTests = 4
  MaxForced = 4
  NodeId <- ThreeItems
  MaxReruns = 1
  MaxWaits = 1
  Sizes = {1, 2}
  Totals = {0, 1}
  TreeInterval = 1
  IdleInterval = 2
  MaxWindows = 2
  Fixtures = {"a", "b", "c"}
  MaxTimed = 2
  MaxClock = 1
  Shared = {"s"}
  Inner = {"i", "j"}
  Declarable = {0, 1, 3}
CHECK_DEADLOCK FALSE
INVARIANTS
  OnePermit OwnPermit SpansAreExecutions BadEndsShown ReadingIsExact PeakOfItsOwn
  CountedWhileRecent SetUpsMeasuredApart UsesReported ReservationFits EachPlannedOnce
  PromiseKept EndsAsPromised BothOrNone NoStandoff MergedAsRecorded PassedOnEvidence
PROPERTIES
  MovesOnSustained FreshBackfillEndsInTime LimitRecovers PressureYields GatesAdmit
