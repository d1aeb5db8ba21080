SPECIFICATION Spec
CONSTANTS
  k1 = k1
  k2 = k2
  a1 = a1
  a2 = a2
  Keys = {k1, k2}
  Times = {1, 2}
  Artifacts = {a1, a2}
  MaxVersion = 3
  MaxNoteIds = 3
  Scopes = {"first", "second"}
  Fields <- FaultyFields
  MaxRunRecords = 3
  MaxRunDiagnostics = 1
  MaxRunArtifactBytes = 2
  MaxFaults = 1
INVARIANTS
  CursorNeverLeads
  DeletedNotesAreGone
  ArtifactsBeforeNotes
  OneNotePerObject
PROPERTIES
  IdentityIsKept
  RemovalIsJustified
SYMMETRY KeySymmetry
