\* Two settings, so that a command can name one, the other or both; with
\* remoteTemp or custom the larger ones have no room.
SPECIFICATION Spec
CONSTANTS
  Fields = {power, temperature}
  Values = {a, b}
  Unset = Unset
  MaxKeys = 2
  Disturbances = {"drop", "restart", "failure", "remote"}
  MaxCommands = 2
  MaxMishaps = 2
INVARIANTS TypeOK RetainedIsCurrent Obeyed
PROPERTY FinallyShown
