\* Answers as late as can be, with messages lost, power failures and
\* reconnections of the gateway in any combination of three.
SPECIFICATION FairSpec
CONSTANTS
  Faults = {"loss", "power", "reconnect"}
  MaxCommands = 3
  MaxFaults = 3
  MaxInFlight = 4
INVARIANTS LightAsShown LightAsAsked
PROPERTY FinallyAsShown
