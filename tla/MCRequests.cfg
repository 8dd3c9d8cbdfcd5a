SPECIFICATION ReplySpec
CONSTANTS
  MaxSize = 2
  MaxChunk = 2
  MaxRequests = 2
  MaxPage = 2
CHECK_DEADLOCK FALSE
INVARIANTS KeptAliveIsFramed PartsAreRight
PROPERTIES StoppedEnds
