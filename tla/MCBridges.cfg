SPECIFICATION MCSpec
CONSTANTS
  top = top
  array = array
  inner = inner
  frame = frame
  leaf = leaf
  Objects <- MCObjects
  Leaves = {leaf}
  Null = Null
  Undefined = Undefined
  Function = Function
  Native = Native
  Missing = Missing
  Keys <- MCKeys
  Heaps <- MCHeaps
  MaxDeep = 2
  SystemCount = 4
  LocalCount = 2
  Documents <- MCValues
  Strings <- MCStrings
  MaxNesting = 8
INVARIANTS TypeOK ReadsBack VanishedIsAbsent   
