CONSTANTS
  GROUP = 2  VARINT_BITS = 5  VARINT_BYTES = 3  VARLONG_BITS = 7  VARLONG_BYTES = 4
  NULL = NULL  UUID_BYTES = 2
  Dialogues <- MCDialogues  Streams <- DialogueStreams  Departures = {}
  INIT_CAPACITY = 24  MIN_SPACE = 4  ALLOC_FAILS = FALSE
SPECIFICATION FairSpec
PROPERTIES RefusedIsClosed
CHECK_DEADLOCK FALSE
