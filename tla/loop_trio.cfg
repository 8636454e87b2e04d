CONSTANTS
  alice = alice  bob = bob  carol = carol  LISTENER = LISTENER  NULL = NULL
  Clients = {alice, bob, carol}  Readers = {alice, bob, carol}  Script <- TrioScript  Owed <- InTurn
  Departures = {"shut"}  Addresses = {1, 2, 3}  WINDOW = 1  MAX_EVENTS = 3  Limits = {2}
SPECIFICATION Spec
INVARIANTS BatchSound OneStructureEach
CHECK_DEADLOCK FALSE
