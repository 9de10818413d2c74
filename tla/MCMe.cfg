\* Two caches, one of them an instruction cache, two ways, three tags: misses
\* that fill invalid ways, evict, write back, invalidate and transfer.  None of
\* the invariants depends on what a block holds, so one value is enough.
SPECIFICATION Spec
CONSTANTS
  NumLce = 2
  NumWay = 2
  ICache = {1}
  Tag = {t1, t2, t3}
  Value = {z}
  Zero = z
SYMMETRY Symmetry
VIEW LiveView
INVARIANTS
  TypeOK
  SingleCopy
  DirectoryAccurate
  OneSharer
  AcksMatch
  WritebacksMatch
  ReplacementIsDirty
  FillsCleanWay
  NeverStalls
  ChannelBound
