CONSTANTS
  Address = {"a", "b"}
  Sources = {"netlink"}
  Resumes = 1
  Flaky = TRUE
  Interval = 1
  RestartGap = 2
  MaxChanges = 3
  MaxStarts = 2
SPECIFICATION Spec
CHECK_DEADLOCK FALSE
INVARIANTS OwedIsPending 
PROPERTIES WaitsEnd
