SPECIFICATION FairSpec
CONSTANTS
  T = 6
  Grace = 1
  MinWait = 6
  Slack = 3
  FlushInterval = 3
  FailOpen = FALSE
  RequestMayFail = TRUE
INVARIANT BudgetSuffices
PROPERTY ServerEnds
