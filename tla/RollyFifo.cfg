SPECIFICATION Spec
CONSTANTS
  Item = {a, b}
  Els = 4
INVARIANT PointersOrdered
PROPERTY ImplementsReplayQueue
