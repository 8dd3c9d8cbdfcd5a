CONSTANTS
  AutoScan = TRUE
SPECIFICATION FairSpec
INVARIANTS LifecycleSound WatchedWhileRunning
PROPERTIES ChangesAreScanned CallsReturn
