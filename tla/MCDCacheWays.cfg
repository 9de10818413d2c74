\* Two ways of two words: the interleaving of the banks, the choice of a victim.
\* The timer at its least, so that it fires in between everything else.
SPECIFICATION Spec
CONSTANTS
  t1 = t1
  t2 = t2
  t3 = t3
  NumWay = 2
  Tag = {t1, t2}
  Byte <- OneByte
  Masks <- WordMask
  StoreVal = {1}
  FillVal = {0}
  TimeoutMax = 1
SYMMETRY Symmetry
VIEW StateView
INVARIANTS
  CacheInv
  AnswersAreCurrent
  OneHit
