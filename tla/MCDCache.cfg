\* One way: every miss evicts.  Two bytes: stores of one and of two bytes.
\* The timer at its value in the code.
SPECIFICATION Spec
CONSTANTS
  t1 = t1
  t2 = t2
  t3 = t3
  NumWay = 1
  Tag = {t1, t2}
  Byte <- TwoBytes
  Masks <- HalfMasks
  StoreVal = {0, 1}
  FillVal = {0}
  TimeoutMax = 4
SYMMETRY Symmetry
VIEW StateView
INVARIANTS
  TypeOK
  LoadsAreCurrent
  AnswersAreCurrent
  NoStoreLost
  WriteBufferFits
  MissIsNoticed
