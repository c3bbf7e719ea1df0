SPECIFICATION FairSpec
CONSTANTS
  Null = Null
  f1 = f1
  v1 = v1
  DocType <- MCDocType
  Field <- MCField
  FieldsFor <- MCFieldsFor
  Value <- MCValue
  Valid <- MCValid
  Extractions <- MCExtractions
  MaxFiles = 2
  Batches <- MCBatches
  Handler = {h1, h2}
  MaxUploads = 2
  MaxDocuments = 2
  MaxRequests = 0
  Faults = FALSE
PROPERTIES
  ExtractedIsNotSortedAgain
CHECK_DEADLOCK FALSE
