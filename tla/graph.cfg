CONSTANTS
    None = None
    Declared <- Connector
    Pool <- Copies
    Stems <- Channels
    EvidenceLimit = 1
    MaxCopies = 3
SPECIFICATION Spec
INVARIANTS
  EntitiesFollowTheEvidence
PROPERTIES
  RebuildSettles
  IdsFollowTheirSubject
