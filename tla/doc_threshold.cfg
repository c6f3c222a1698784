SPECIFICATION Spec
CONSTANTS
  c1 = c1
  c2 = c2
  c3 = c3
  Callers = {c1, c2, c3}
  Resetters = {}
  Threshold = 2
  HalfOpenMax = 1
  Cfg <- MCCfg
  MaxClock = 3
  Skew = 0
  Faults = {}
SYMMETRY Symmetry
PROPERTY OpensOnlyAtThreshold
