SPECIFICATION Spec
CONSTANTS
  Null = Null
  r1 = r1
  r2 = r2
  good = good
  typed = typed
  misfit = misfit
  f1 = f1
  f2 = f2
  passport = passport
  Reviewer <- MCReviewer
  DocType <- MCDocType
  Field <- MCField
  FieldsFor <- MCFieldsFor
  Value <- MCValue
  Valid <- MCValid
  Extractions <- MCExtractions
  MaxRequests = 1
  MaxOrphans = 1
SYMMETRY Symmetry
INVARIANTS
  ConfirmedIffSignedOff
  BatchIsHighAsExtracted
  NoDeadEnd
  NoSignOffLost
  ScreenNeverAhead
PROPERTY ReviewMovesForward
CHECK_DEADLOCK FALSE
