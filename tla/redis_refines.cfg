SPECIFICATION Spec
CONSTANTS
  c1 = c1
  c2 = c2
  c3 = c3
  Callers = {c1, c2}
  Resetters = {c2}
  Threshold = 2
  HalfOpenMax = 1
  Cfg <- MCCfg
  MaxClock = 1
  Skew = 1
  Faults = {"store", "crash", "sink"}
CHECK_DEADLOCK FALSE
INVARIANT TypeOK
PROPERTY ImplementsBreaker
