SPECIFICATION LimiterSpec
CONSTANTS
  c1 = c1
  c2 = c2
  c3 = c3
  Callers = {c1, c2, c3}
  Minute = 10
  PerMinute = 4
  Limit = 5
  MaxTime = 14
CHECK_DEADLOCK FALSE
SYMMETRY CallerSymmetry
INVARIANT RateIsKept
