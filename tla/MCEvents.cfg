CONSTANTS
  MaxSubscriptions = 1
  MaxQueuedJobs = 1
  Senders = 2
  MaxSids = 2
  MaxUpdates = 2
  MaxStops = 1
  StoreFirst = TRUE
SPECIFICATION EventsFairSpec
CHECK_DEADLOCK FALSE
INVARIANTS TablesAgree 
PROPERTIES Paced 
