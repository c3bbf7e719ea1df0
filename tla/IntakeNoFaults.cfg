SPECIFICATION FairSpec
CONSTANTS
  Null = Null
  f1 = f1
  v1 = v1
  DocType <- MCDocType
  Field <- MCField
  FieldsFor <- MCFieldsFor
  Value <- MCValue
  Valid <- MCValid
  Extractions <- MCExtractions
  MaxFiles = 4
  Batches <- MCBatches
  Handler = {h1, h2}
  MaxUploads = 2
  MaxDocuments = 3
  MaxRequests = 0
  Faults = FALSE
INVARIANTS
  HeldIsUnreadAndExplained
  SortingFollowsTheRule
PROPERTIES
  HeldIsSettled
CHECK_DEADLOCK FALSE
