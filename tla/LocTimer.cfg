SPECIFICATION Spec
CONSTANTS
  Kept = {a}
  Wrappers = {w}
  Delays = {1, 2}
  MaxStarts = 3
  MaxTime = 3
  a = a
  w = w
INVARIANTS
  DelegatesOutliveUse
  HeapSorts
PROPERTY
  FiresUnlessStopped
