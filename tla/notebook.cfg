CONSTANTS
  Procs = {p1, p2}
  Inputs <- AllInputs
  MaxNotes = 2
  MaxInstances = 2
  MaxCommands = 3
  MaxUpsets = 1
SYMMETRY Sym
SPECIFICATION Spec
INVARIANTS
  NotesStand
  InspectTellsTheTruth
CHECK_DEADLOCK FALSE
