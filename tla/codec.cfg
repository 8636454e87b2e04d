CONSTANTS
  GROUP = 2  VARINT_BITS = 5  VARINT_BYTES = 3  VARLONG_BITS = 7  VARLONG_BYTES = 4
SPECIFICATION Spec
INVARIANTS Canonical
PROPERTIES PrefixStable
CHECK_DEADLOCK FALSE
