\* Two threads and two keys, and four failures; an interval of 3/2 ms.
CONSTANTS
  Thread = {t1, t2}
  Key = {k1, k2}
  Interval = 3
  Ms = 2
  MaxTime = 3
  MaxCalls = 4
SPECIFICATION Spec
SYMMETRY Symmetry
INVARIANTS SpacedFromPredecessor OnlyRepeatsWait RateBound
CHECK_DEADLOCK FALSE
