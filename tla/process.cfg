SPECIFICATION FairSpec
CONSTANTS
  Clients = {"child", "helper"}
  Frames = {"genuine", "response"}
  MaxGrants = 1
  MaxRequests = 2
  PipeSize = 1
  QueueSize = 1
  MaxFrames = 3
  MaxOutput = 2
  RequestFits = FALSE
  Helpers = {"output", "both"}
INVARIANTS
  OutcomeIsTrue
  ExitIsTrue
PROPERTIES
  EndsOrWaitsOutside
  AskedIsAnswered
