CONSTANTS
  GROUP = 2  VARINT_BITS = 5  VARINT_BYTES = 3  VARLONG_BITS = 7  VARLONG_BYTES = 4
  NULL = NULL  UUID_BYTES = 2
  Streams <- LongStreams  Departures = {}
  INIT_CAPACITY = 12  MIN_SPACE = 3  ALLOC_FAILS = FALSE
SPECIFICATION Spec
PROPERTIES ReadOut
CHECK_DEADLOCK FALSE
