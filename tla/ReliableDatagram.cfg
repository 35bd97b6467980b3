SPECIFICATION Spec
CONSTANTS
  Stations = {bedroom, lounge}
  Everybody = Everybody
  Ids = 3
  Retries = 1
  FifoSize = 2
  MaxMessages = 4
  MaxRestarts = 1
INVARIANTS TypeOK NeverTold AckedIsDelivered OnceInOrder CalmIsAcked
CHECK_DEADLOCK FALSE
