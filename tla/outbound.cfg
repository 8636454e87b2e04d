CONSTANTS
  GROUP = 2  VARINT_BITS = 5  VARINT_BYTES = 3  VARLONG_BITS = 7  VARLONG_BYTES = 4
  Posted <- MixedPosted  SEND_BUFFER = 4  MemoryFails = TRUE
SPECIFICATION FairSpec
INVARIANTS TypeOK WrapperFits PacketSound
PROPERTIES ImplementsMailbox AllDelivered
CHECK_DEADLOCK FALSE
