SPECIFICATION KeySpec
CONSTANTS
  a = a
  b = b
  slot1 = slot1
  slot2 = slot2
  Nul = Nul
  Threads = {t1, t2}
  Chars = {a, b, Nul}
  Texts <- MCTexts
  Slots = {slot1, slot2}
  Index <- MCIndex
  CachedBelow = 3
  MinChars = 1
  Spare = 1
  PoolLimit = 4
INVARIANTS KeyTypeOK AsInStream CacheBounded
