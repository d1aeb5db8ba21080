SPECIFICATION Spec
CONSTANTS
  Files = {1, 2}
  Modes = {"snapshot"}
  MaxRunRecords = 1
  MaxTieBreak = 1
  MaxListed = 1
  MaxTime = 2
  MaxVersion = 2
  MaxFaults = 0
PROPERTIES
  OnlyGoneFilesAreRemoved
