CONSTANTS
  Top = Top
  F = F
  a = a
  b = b
  P = P
  e = e
  x = x
  Node = {F, a}
  Parent <- MCParent
  Kind <- MCKind
  Removable = {a}
  Flaky = {F}
  AutoScan = TRUE
  MaxGen = 2
  MaxUpdateId = 6
  MaxCrashes = 1
  Base = 10
  IdMax = 13
  IdMin <- MCIdMin
SPECIFICATION HSpec
CHECK_DEADLOCK FALSE
INVARIANTS CatalogConsistent HeldResolves
   
