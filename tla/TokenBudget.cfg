SPECIFICATION FairSpec
CONSTANTS
  c1 = c1
  c2 = c2
  Absent = Absent
  Torn = Torn
  Nobody = Nobody
  Slot <- MCSlot
  Limit = 2
  MaxPages = 2
  MaxCost = 2
  MaxDay = 2
  MaxAsked = 4
  MaxRestarts = 1
INVARIANTS
  OverdraftBounded
  NoChargeLost
PROPERTIES
  UnreadableStaysClosed
  ImplementsMeter
  EveryRequestEnds
CHECK_DEADLOCK FALSE
