SPECIFICATION Spec
CONSTANTS
  MaxUint = 2147483647
  Documents <- PlainAndFloats
  Nodes <- AllNodes
  Written <- AllWritten
  SkippedFloat = 4
  AsNumber <- PlainAsNumber
INVARIANTS TypeOK Aligned WholeDocument
PROPERTIES WalksTheTree
