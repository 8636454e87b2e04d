CONSTANTS
  BASE = 16  SHORT = 1  INT = 2  NAME_MAX = 1  STRING_MAX = 1  DAMAGE_TYPES = 46  NULL = NULL
  Scripts <- RoundTrips  Inputs <- AnyBytes
SPECIFICATION Spec
INVARIANTS PosInside RoundTrip
PROPERTIES DumpEnds
CHECK_DEADLOCK FALSE
