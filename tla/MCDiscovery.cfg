SPECIFICATION StartSpec
CONSTANTS
  PageSize = 2
  Limit = 4
  Foreign <- MCForeign
  MaxKeys = 8
  MaxEvictions = 2
  MaxRestores = 1
  NodeOf <- MCNodeOf
  CIDOf <- MCCIDOf
  KeyCID <- MCKeyCID
  OwnPacks <- MCOwnPacks
  MaxParents = 5
  MaxPacks = 2
  MaxCAS = 2
  MaxActions = 2
  Uploads <- MCUploads
INVARIANTS
  MissedArePaidFor
  IndexIsClosed
  IndexIsMerge
  RoundTrip
  WrittenIsReadable
CHECK_DEADLOCK FALSE
