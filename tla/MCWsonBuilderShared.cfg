SPECIFICATION Spec
CONSTANTS
  cyclic = cyclic
  list = list
  bean = bean
  failing = failing
  json = json
  outer = outer
  inner = inner
  broken = broken
  frail = frail
  shaky = shaky
  calling = calling
  plain = plain
  looping = looping
  Objects <- MCObjects
  Kind <- MCKind
  Items <- MCItems
  Json <- MCJson
  Class <- MCClass
  Equal <- MCEqual
  Null = Null
  Leaf = Leaf
  Thrower = Thrower
  Caller = Caller
  NullKey = NullKey
  None = None
  Buffers = {buf1, buf2}
  Lists = {lst1, lst2}
  MaxNest = 2
  SafeDepth = 99
  Roots <- LoopingRoots
INVARIANTS NoReentry
