\* Users toggle the switch while runs of the automations go on; Home Assistant
\* restarts and misses messages.
SPECIFICATION FairSpec
CONSTANTS
  Faults = {"restart", "miss"}
  MaxRequests = 4
  MaxFaults = 2
INVARIANTS SwitchShowsNetwork OpenNetworkIsTimed ShownOnIsWatched
PROPERTY FinallyClosed
CHECK_DEADLOCK FALSE
