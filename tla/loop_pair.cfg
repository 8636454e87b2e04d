CONSTANTS
  alice = alice  bob = bob  carol = carol  LISTENER = LISTENER  NULL = NULL
  Clients = {alice, bob}  Readers = {bob}  Script <- PairScript  Owed <- InTurn
  Departures = {"shut", "reset"}  Addresses = {1, 2}  WINDOW = 1  MAX_EVENTS = 2  Limits = {1, 2}
SPECIFICATION FairSpec
INVARIANTS TypeOK
PROPERTIES ImplementsHub LoopReturns StayersAnswered DepartureFreed AcceptedAtLast
CHECK_DEADLOCK FALSE
