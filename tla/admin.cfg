SPECIFICATION Spec
CONSTANTS
  Profiles = {"work"}
  Accounts = {"me", "other"}
  None = None
  FieldIds <- MCFieldIds
  Choices <- MCChoices
  Manifests <- MCManifests
  OptionChoices <- MCOptions
  MaxCommands = 5
  MaxFaults = 1
INVARIANTS
  StatusPredictsTheRun
  TokenStaysUsable
  CursorIsOwn
  LabelIsTrue
PROPERTIES
  SnapshotNeverForgets
CHECK_DEADLOCK FALSE
