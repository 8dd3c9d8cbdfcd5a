CONSTANTS
  v4 = v4
  e4 = e4
  c = c
  d = d
  f = f
  Endpoint = {e4}
  Family = {v4}
  Search = {c, d, f}
  FamilyOf <- MCFamilyOf
  ClientFamily <- MCClientFamily
  Cap = 2
  Bursts = 1
  MaxSearches = 3
  MaxStarts = 1
SPECIFICATION Spec
CHECK_DEADLOCK FALSE
INVARIANTS ServiceSound ByebyeSoonHolds
PROPERTIES ImplementsAdvertiser 
