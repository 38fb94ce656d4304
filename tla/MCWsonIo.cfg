SPECIFICATION Spec
CONSTANTS
  MaxUint = 2147483647
  NewSizes <- MCNewSizes
  SmallLimit = 4
  LargeFactor = 2
  Slack = 1
  RawBytes <- MCRawBytes
  Uints <- MCUints
  Ints <- MCInts
  Longs <- MCLongs
  Floats <- MCFloats
  Strings <- MCStrings
  MaxPosition = 4
INVARIANTS TypeOK InCapacity Initialised
PROPERTIES Doubling AppendOnly
CHECK_DEADLOCK FALSE
