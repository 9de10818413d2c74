\* Two data caches, one way, two tags: every block is evicted or taken away
\* while dirty, in every order.  A D$ that never stores behaves as an I$ does.
SPECIFICATION FairSpec
CONSTANTS
  NumLce = 2
  NumWay = 1
  ICache = {}
  Tag = {t1, t2}
  Value = {z, v}
  Zero = z
VIEW LiveView
PROPERTIES ImplementsAtomicMemory MissesEnd
