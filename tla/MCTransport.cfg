\* Two possible parents, an ID request that may be repeated with the same token
\* or another; every limit small.
\* The counter of failures comes round after four, and more may fail between two looks.
SPECIFICATION FairSpec
CONSTANTS
  gateway = gateway
  repeater = repeater
  Neighbours = {gateway, repeater}
  Distance <- MCDistance
  AUTO = AUTO
  Invalid = 255
  Tokens = {1, 2}
  StateRetries = 1
  MaxTxFailures = 1
  MaxTsmFailures = 1
  CounterSize = 4
  MaxFailed = 5
INVARIANTS RouteIsKnown ReadyIsConfirmed FailuresNoticed
PROPERTIES KeepsPromise FinallyReady
