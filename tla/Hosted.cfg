SPECIFICATION FairSpec
CONSTANTS
  c1 = c1  c2 = c2  c3 = c3
  r1 = r1  r2 = r2  r3 = r3
  s1 = s1  s2 = s2
  NoChild = NoChild
  Children = {c1, c2, c3}
  Starts = {r1, r2, r3}
  Stops = {s1, s2}
  MaxCrashes = 1
CHECK_DEADLOCK FALSE
INVARIANTS
  OneRuntime
PROPERTIES
  StopEndsProcess
