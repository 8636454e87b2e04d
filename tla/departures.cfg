CONSTANTS
  GROUP = 2  VARINT_BITS = 5  VARINT_BYTES = 3  VARLONG_BITS = 7  VARLONG_BYTES = 4
  NULL = NULL  UUID_BYTES = 2
  Streams <- LeavingStreams  Departures = {"shut", "reset"}
  INIT_CAPACITY = 4  MIN_SPACE = 2  ALLOC_FAILS = TRUE
SPECIFICATION FairSpec
INVARIANTS BufferSound NoByteLost HangsUpOnlyOnDeparture LoginOnce ChunksBeforeEvent
PROPERTIES DepartureNoticed
CHECK_DEADLOCK FALSE
