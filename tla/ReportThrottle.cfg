SPECIFICATION RTSpec
CONSTANTS
  Channels = {temperature, humidity}
  Values = {zero, v1}
  Zero = zero
  Unknown = Unknown
  Forced = 2
  MaxLosses = 2
  MaxGood = 9
INVARIANTS ShownIsLast HeardInTime
CHECK_DEADLOCK FALSE
