SPECIFICATION Spec
CONSTANTS
  k1 = k1
  u1 = u1
  u2 = u2
  d1 = d1
  SourceKeys = {k1}
  Upserts = {u1, u2}
  Deletions = {d1}
  Unseen = Unseen
  Scopes = {"all"}
  Cursors = {c}
  MaxRunRecords = 2
  MaxRunDiagnostics = 1
  MaxRunArtifactBytes = 0
  MaxSeq = 4
  Sizes = {0, 1}
  Runs <- MCRuns
  Seeds <- MCUnseeded
INVARIANTS
  TypeOK
  CommittedCursorIsDurable
  NoFrameIsMissing
  LastAssertionRules
  AuthorizationIsEarned
PROPERTIES
  RejectedRunCommitsNothing
  CommitNeverRegresses
SYMMETRY Symmetry
