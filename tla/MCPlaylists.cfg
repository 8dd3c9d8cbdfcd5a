CONSTANTS
  S = S
  T = T
  P = P
  Q = Q
  R = R
  Source = {S, T}
  Playlist = {P, Q, R}
  Roots <- MCRoots
  Nested <- MCNested
  Direct = {S}
  Throwing = {Q}
  MaxDepth = 0
  SourceWorkers = 2
  Worker = {w1, w2}
  MaxQueueDepth = 1
  ReferenceCount = 5
  Concurrency <- MCConcurrency
SPECIFICATION FairSpec
CHECK_DEADLOCK FALSE
INVARIANTS CountsAreExact ScanIsComplete
PROPERTIES NodesDealtWith
