SPECIFICATION Spec
CONSTANTS
  Override = {"card", "stick"}
  Config = "config"
  Patience = 4
INVARIANTS  LeavesNothing
PROPERTIES CloseEnds IllIsStopped
