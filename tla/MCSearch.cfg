CONSTANTS
  Top = Top
  f = f
  x = x
  all = all
  Node = {f, x}
  Parent <- MCParent
  Kind <- MCKind
  Removable = {x}
  Flaky = {}
  AutoScan = TRUE
  MaxGen = 2
  MaxUpdateId = 5
  Base = 10
  IdMax = 12
  IdMin <- MCIdMin
  Worker = {w1}
  Searched = {Top, f}
  Criteria = {all}
  Matches <- MCMatches
  MaxContainers = 1
  MaxItems = 1
SPECIFICATION SSpec
INVARIANTS SearchMissesNothing BudgetKept
CHECK_DEADLOCK FALSE
