SPECIFICATION Spec
CONSTANTS
  MaxUint = 2147483647
  Documents <- Floats
  Nodes <- AllNodes
  Written <- AllWritten
  SkippedFloat = 0
  AsNumber <- PlainAsNumber
INVARIANTS Aligned

