SPECIFICATION Spec
CONSTANTS
  Null = Null
  t1 = t1
  t2 = t2
  r1 = r1
  r2 = r2
  Thread <- TwoThreads
  Run <- TwoRuns
  Gathered <- FewFound
  Message <- OneMessage
  Turns <- DifferentTurns
  MaxIterations = 1
  MaxLost = 1
  Cli = TRUE
  Faults = TRUE
CHECK_DEADLOCK FALSE
SYMMETRY RunSymmetry
INVARIANTS
  NothingSentUnasked
