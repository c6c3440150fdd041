SPECIFICATION FairSchedule
CONSTANTS
  a = a
  b = b
  c = c
  v = v
  Objects <- MCObjects
  Results <- MCResults
  Closure <- MCClosure
  Size <- MCSize
  Refused <- MCRefused
  TargetSize = 2
  Interval = 1
  MaxSave = 2
  MaxFailures = 1
  MaxCount = 6
INVARIANT DelayPerPack
PROPERTY
  PublishedUnlessRefused
