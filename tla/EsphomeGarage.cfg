SPECIFICATION EGFairSpec
CONSTANTS
  Doors = {leaf, outback}
  Delay = 3
INVARIANTS NeverHeldLong
PROPERTIES PulseIsWhole FinallyReleased
