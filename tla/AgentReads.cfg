SPECIFICATION Spec
CONSTANTS
  Null = Null
  c1 = c1
  c2 = c2
  short = short
  CaseId <- MCCaseId
  Ref <- MCRef
  EndsWith <- MCEndsWith
  Name <- MCName
  Blank = ""
  Fold <- MCFold
  PassportBuffer = 5
  EnglishValid = 4
  EnglishWarn = 1
  GradPass = 1
  GradWarn = 2
  Content <- MCContent
  Metas <- MCMetas
  IdOrder <- MCIdOrder
  MaxDocuments = 7
  MaxWrites = 1
  MaxEvents = 2
  AskedFilters <- MCFilters
  AskedDays <- MCDays
  Starts <- MCStarts
  Today = 5
  Level = {"diploma", "bachelor", "master"}
  Word = {"name", "certificate", "passport", "ielts", "expired", "it", "law", "sydney"}
  Text <- MCText
  PolicyId = {1, 2, 3}
  ProgramId = {11, 12}
  Query <- MCQuery
  Words <- MCWords
  Similar <- MCSimilar
  MinCosine = 30
  RowLimit = 1
  Editions <- MCEditions
  MaxSeeds = 2
CHECK_DEADLOCK FALSE
INVARIANTS
  TypeOK
  ProceedIsSignedOff
  CitedInForce
  OneCaseThroughout
  WebAndAgentAgree
  IndexIsWhole
PROPERTIES
  SearchesAgree
