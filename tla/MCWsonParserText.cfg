SPECIFICATION Spec
CONSTANTS
  MaxUint = 2147483647
  Documents <- Texts
  Nodes <- AllNodes
  Written <- AllWritten
  SkippedFloat = 0
  AsNumber <- AllAsNumber
INVARIANTS Aligned

