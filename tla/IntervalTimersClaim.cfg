\* The controller's clock of IntervalTimers.cfg, for one turn and a half.
SPECIFICATION Spec
CONSTANTS
  Wrap = 12
  Interval = 3
  MaxStep = 4
  MaxTime = 20
INVARIANTS OnlyEveryInterval
CHECK_DEADLOCK FALSE
