\* One way, words of one byte: nothing is assumed of the pipeline.
SPECIFICATION FairSpec
CONSTANTS
  t1 = t1
  t2 = t2
  t3 = t3
  NumWay = 1
  Tag = {t1, t2}
  Byte <- OneByte
  Masks <- WordMask
  StoreVal = {1}
  FillVal = {0}
  TimeoutMax = 2
PROPERTIES
  CommandsEnd
  MissesEnd
