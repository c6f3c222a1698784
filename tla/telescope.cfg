SPECIFICATION TelescopeFairSpec
CONSTANTS
  c1 = c1
  c2 = c2
  c3 = c3
  Callers = {c1, c2}
  Resetters = {c2}
  Threshold = 1
  HalfOpenMax = 1
  Cfg <- MCCfg
  MaxClock = 2
  Skew = 0
  Faults = {}
INVARIANTS WatcherHearsAll OpeningCarried
PROPERTIES OpeningAnnounced ClosesForGood HalfOpenDecided
