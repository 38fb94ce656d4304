SPECIFICATION Spec
CONSTANTS
  Keys = {k1, k2, k3}
  Values = {v1, v2, v3, v4}
  Callers = {p1, p2, p3}
  NoKey = NoKey
  NoValue = NoValue
  MaxSize = 1
INVARIANTS TypeOK SizeAgrees Bounded Conserved OneEldest
PROPERTIES Shrinks
