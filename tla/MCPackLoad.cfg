SPECIFICATION FairSpec
CONSTANTS
  r1 = r1
  r2 = r2
  r3 = r3
  p1 = p1
  p2 = p2
  None = None
  Flusher = Flusher
  Readers = {r1, r2}
  Packs = {p1, p2}
  MaxConcurrent = 1
INVARIANTS
  OneDownload
  TruthfulAnswers
PROPERTY EveryReaderReturns
