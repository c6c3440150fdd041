SPECIFICATION ReceivedSpec
CONSTANTS
  empty = empty
  f = f
  g = g
  d = d
  t = t
  upper = upper
  Hashes = {empty, f, g, d, t}
  Sizes = {0, 1, 2}
  MaxInt64 = 2
  MaxFields = 3
  EmptyHash = empty
  MaxObjects = 4
  Changing = {f, d}
  Sum <- MCSum
  Cases <- MCCases
  Fields <- MCFields
  Disturbed <- MCDisturbed
INVARIANTS
  AcceptedIsComplete
  OncePerObject
  AcceptedNamesOnlyFound
  ExactReferences
  TreeIsClosed
CHECK_DEADLOCK FALSE
