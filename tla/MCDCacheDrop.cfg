\* The timer at its value in the code.
SPECIFICATION Spec
CONSTANTS
  t1 = t1
  t2 = t2
  t3 = t3
  NumWay = 1
  Tag = {t1, t2}
  Byte <- OneByte
  Masks <- WordMask
  StoreVal = {1}
  FillVal = {0}
  TimeoutMax = 4
INVARIANTS
  DispatchedIsTaken
