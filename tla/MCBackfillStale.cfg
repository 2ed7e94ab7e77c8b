SPECIFICATION ClockSpec
CONSTANTS
  Workers = {w1, w2, w3, w4}
  Budget = 2
  MaxDemand = 2
  Never = 12
  MaxSince = 12
  MaxForced = 0
  Lengths = {1, 2}
  MaxTests = 5
SYMMETRY Symmetry

PROPERTIES BackfillEndsInTime
CHECK_DEADLOCK FALSE
