SPECIFICATION Spec
CONSTANTS
  Byte = {0, 1}
INVARIANT CompatibleWithOriginal
CHECK_DEADLOCK FALSE
