CONSTANTS
  Tests <- AllTests
SPECIFICATION Spec
INVARIANTS
  RefusedForItsReason
  OwnRecordsAreAdmitted
  AbsenceIsProven
CHECK_DEADLOCK FALSE
