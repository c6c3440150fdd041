SPECIFICATION FairSpec
CONSTANTS
  h1 = h1
  h2 = h2
  h3 = h3
  d1 = d1
  k1 = k1
  None = None
  KeyOf <- MCKeyOf
  Keys = {k1}
  Handlers = {h1, h2}
  Downloads = {d1}
  MaxConcurrent = 1
  Polls = 2
INVARIANTS
  TruthfulAnswers
  Coalesced
CHECK_DEADLOCK FALSE
PROPERTIES EveryCallReturns DownloadsProceed
