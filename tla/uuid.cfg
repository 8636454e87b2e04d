CONSTANTS
  BYTES = 16  DASHES = {4, 6, 8, 10}  RAND_LENGTH = 4
  Randoms <- FewRandoms  Uuids <- Patterns  Texts <- AnyTexts
SPECIFICATION Spec
INVARIANTS ParsesBack
PROPERTIES Filled
CHECK_DEADLOCK FALSE
