\* Nothing lost or late; power failures and gateway reconnections happen.
SPECIFICATION FairSpec
CONSTANTS
  Lossy = FALSE
  Prompt = TRUE
  MaxCommands = 2
  MaxReconnects = 1
  MaxCrashes = 1
  MaxAbandoned = 2
  UplinkCap = 3
INVARIANTS PulsesAnnounced EveryCommandPulsesOnce
PROPERTIES ButtonShownReleased DoorFinallyShown
