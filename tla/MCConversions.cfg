SPECIFICATION MCSpec
CONSTANTS
  MaxUint = 2147483647
  MaxInt = 127
  Least = 16
  Lengths <- MCLengths
  Numbers <- MCNumbers
  Created <- MCCreated
  Modulus = 64
  SmallLimit = 6
  Slack = 3
  NewLengths <- MCNewLengths
  PushedLengths <- MCPushedLengths
  PushedNumbers <- MCPushedNumbers
  Sizes <- MCSizes
  MaxMost = 40
  Texts <- MCTexts
INVARIANTS TypeOK FailsOnlyTooLarge NumbersReadBack TextReadsBack TextUnquotesBack TextFits OutsideOnlyTooLarge InProportion
PROPERTIES Doubles
CHECK_DEADLOCK FALSE
