SPECIFICATION Spec
CONSTANTS
  Histories <- MCHistories
  MaxTries = 2
  MaxCrashes = 1
INVARIANTS OneIsInCharge 
PROPERTIES CommandsEnd
CHECK_DEADLOCK FALSE
