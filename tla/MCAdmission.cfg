SPECIFICATION Spec
CONSTANTS
  Workers = {w1, w2, w3}
  Budget = 2
  MaxDemand = 2
  Never = 3
  MaxSince = 1
  MaxForced = 1
SYMMETRY Symmetry
INVARIANTS ShadowIsEarliestStart
PROPERTIES GrowthPastLimitIsCounted HeadNotDelayed
