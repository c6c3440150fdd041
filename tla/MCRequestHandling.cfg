SPECIFICATION Spec
CONSTANTS
  q1 = q1
  q2 = q2
  q3 = q3
  None = None
  Requests = {q1, q2, q3}
  Configs <- AllConfigs
CHECK_DEADLOCK FALSE
SYMMETRY RequestSymmetry
INVARIANTS
  SpoolIsExact
  FailurePolicy
  AnswersAddUp
