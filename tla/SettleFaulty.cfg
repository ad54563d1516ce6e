SPECIFICATION FairSpec
CONSTANTS
  o1 = o1  o2 = o2
  s1 = s1  s2 = s2
  Outcomes = {o1, o2}
  Sweeps = {s1, s2}
  BatchSize = 2
  MaxFaults = 1
CHECK_DEADLOCK FALSE
INVARIANTS
  NoSilentMove
  RecordedNotReversed
PROPERTIES
  EveryRowReconciled
  DriftReported
