SPECIFICATION TelescopeSpec
CONSTANTS
  c1 = c1
  c2 = c2
  c3 = c3
  Callers = {c1, c2}
  Resetters = {}
  Threshold = 1
  HalfOpenMax = 1
  Cfg <- MCCfg
  MaxClock = 1
  Skew = 0
  Faults = {}
INVARIANT PanelShowsCircuit
