SPECIFICATION FairSpec
CONSTANTS
  Null = Null
  t1 = t1
  t2 = t2
  r1 = r1
  r2 = r2
  Thread <- OneThread
  Run <- TwoRuns
  Gathered <- AllFound
  Message <- OneMessage
  Turns <- AllTurns
  MaxIterations = 2
  MaxLost = 1
  Cli = FALSE
  Faults = TRUE
CHECK_DEADLOCK FALSE
INVARIANTS
  OnlyApprovedIsSent
  InjectedDraftNeverPut
  OnlyBlocksAskForAwaited
  SentOnceIfAnswered
PROPERTIES
  ImplementsGate
  EveryRequestEnds
