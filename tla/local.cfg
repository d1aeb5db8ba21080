SPECIFICATION FairSpec
CONSTANTS
  Files = {1, 2}
  Modes = {"incremental", "snapshot"}
  MaxRunRecords = 2
  MaxTieBreak = 2
  MaxListed = 1
  MaxTime = 2
  MaxVersion = 2
  MaxFaults = 1
INVARIANTS
  SettledFilesAreHeld
PROPERTIES
  OnlyGoneFilesAreRemoved
  EventuallyMirrored
