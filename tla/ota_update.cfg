SPECIFICATION FairSpec
CONSTANTS
  Last = 3
  Space = 2
  MaxBreaks = 3
INVARIANTS Startable VersionIsInstalled SavedFirst
PROPERTY Converges
