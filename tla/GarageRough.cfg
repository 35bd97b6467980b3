\* Lossy radio, late answers, lost parents, power failures, reconnections.
SPECIFICATION Spec
CONSTANTS
  Lossy = TRUE
  Prompt = FALSE
  MaxCommands = 2
  MaxReconnects = 1
  MaxCrashes = 1
  MaxAbandoned = 1
  UplinkCap = 1
INVARIANTS RelayReleased PulsesAccountedFor
