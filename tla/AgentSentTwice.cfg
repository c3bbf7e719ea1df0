SPECIFICATION Spec
CONSTANTS
  Null = Null
  t1 = t1
  t2 = t2
  r1 = r1
  r2 = r2
  Thread <- OneThread
  Run <- TwoRuns
  Gathered <- FewFound
  Message <- OneMessage
  Turns <- FewTurns
  MaxIterations = 1
  MaxLost = 1
  Cli = FALSE
  Faults = FALSE
CHECK_DEADLOCK FALSE
INVARIANTS
  SentOnce
