SPECIFICATION Spec
CONSTANTS
  c1 = c1
  c2 = c2
  c3 = c3
  Callers = {c1, c2}
  Resetters = {}
  Threshold = 1
  HalfOpenMax = 2
  Cfg <- MCCfg
  MaxClock = 2
  Skew = 1
  Faults = {"crash", "sink", "store"}
SYMMETRY Symmetry
CHECK_DEADLOCK FALSE
INVARIANTS ProbeSlotsExclusive CoolDownBounded
PROPERTY CoolDownKept
