CONSTANTS
  Caller = {k1, k2}
  Client = {c1, c2, c3}
  MaxClients = 1
  MaxCalls = 3
SPECIFICATION FairSpec
CHECK_DEADLOCK FALSE
INVARIANTS LimitsHold StoppedIsQuiet DeathIsSeen
PROPERTIES StopEnds
