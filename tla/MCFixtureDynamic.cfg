SPECIFICATION TimerSpec
CONSTANTS
  Fixtures = {"a", "b", "c"}
  MaxTimed = 2
  MaxClock = 2
INVARIANT AllUsesReported
CHECK_DEADLOCK FALSE
