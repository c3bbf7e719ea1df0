SPECIFICATION Spec
CONSTANTS
  Null = Null
  t1 = t1
  t2 = t2
  r1 = r1
  r2 = r2
  Thread <- TwoThreads
  Run <- OneRun
  Gathered <- FewFound
  Message <- OneMessage
  Turns <- DifferentTurns
  MaxIterations = 1
  MaxLost = 0
  Cli = TRUE
  Faults = FALSE
CHECK_DEADLOCK FALSE
INVARIANTS
  OnlyApprovedIsSent
