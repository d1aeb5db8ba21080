SPECIFICATION FairSpec
CONSTANTS
  Objects = {"a", "b"}
  MaxAttempts = 2
  PageSize = 2
  Fields = {"mail", "calendar", "contacts"}
  OddObjects = {"b"}
  Oddities = {"none", "old", "no_instant", "undeclared", "unreadable"}
  Attached = {"a"}
  Scarce = 1
  Ample = 9
  NoCursor = NoCursor
  NoLink = NoLink
  MaxChanges = 3
  MaxFaults = 1
INVARIANTS
  LinkNeverLeads
  DeletionsAreReported
  RejectionsAreEarned
PROPERTIES
  OnlyDeletionsRemove
  EventuallyCollected
