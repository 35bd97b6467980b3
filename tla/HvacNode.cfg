\* Settings made at any time, one message lost or one power failure.
SPECIFICATION FairSpec
CONSTANTS
  Temps = {41}
  Asked = {"off", "cool"}
  MaxWishes = 2
  Faults = {"loss", "power"}
  MaxFaults = 1
INVARIANTS UnitFollows SetpointsAgree UnitAsShown HeatWishKept
PROPERTY FinallyAgree
CHECK_DEADLOCK FALSE
