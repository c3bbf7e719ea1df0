SPECIFICATION Spec
CONSTANTS
  Null = Null
  c1 = c1
  CaseId <- MCCaseId
  Ref <- MCRef
  EndsWith <- MCEndsWith
  Name <- MCName
  Blank = ""
  Fold <- MCFold
  PassportBuffer = 5
  EnglishValid = 4
  EnglishWarn = 1
  GradPass = 1
  GradWarn = 2
  Content <- MCContent
  Metas <- MCMetas
  IdOrder <- MCIdOrder
  MaxDocuments = 7
  MaxWrites = 2
  MaxEvents = 2
  Handler = {h1, h2}
  Refresher = {r1, r2}
  Confirmable = {"R1", "R4"}
  Arriving = {"transcript", "english_test", "other"}
  Patches <- MCPatches
  Starts <- MCStarts
  Today = 5
SYMMETRY Symmetry
CHECK_DEADLOCK FALSE
INVARIANTS
  TypeOK
  SavesAreKept
  ReadyIsBacked
  VectorIsOfItsText
  ProfileIsCurrent
