\* One thread and one key, an interval of four ticks, three failures.
CONSTANTS
  Thread = {t1}
  Key = {k1}
  Interval = 4
  Ms = 1
  MaxTime = 5
  MaxCalls = 3
SPECIFICATION Spec
INVARIANT MinimumInterval
CHECK_DEADLOCK FALSE
