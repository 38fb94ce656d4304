SPECIFICATION Spec
CONSTANTS
  cyclic = cyclic
  list = list
  bean = bean
  failing = failing
  json = json
  outer = outer
  inner = inner
  broken = broken
  frail = frail
  shaky = shaky
  calling = calling
  plain = plain
  looping = looping
  Objects <- MCObjects
  Kind <- MCKind
  Items <- MCItems
  Json <- MCJson
  Class <- MCClass
  Equal <- MCEqual
  Null = Null
  Leaf = Leaf
  Thrower = Thrower
  Caller = Caller
  NullKey = NullKey
  None = None
  Buffers = {buf1}
  Lists = {lst1}
  MaxNest = 1
  SafeDepth = 99
  Roots <- ShakyRoots
INVARIANTS WellFormed
