SPECIFICATION Spec
CONSTANTS
  Projects = {p, q}
  Contents = {c}
  Ordinary = Ordinary
  None = None
  Faults = {}
  Repeats = TRUE
  MaxJobs = 1
  MaxRelease = 1
  MaxEdits = 0
  MaxInterrupts = 1
SYMMETRY Symmetry
INVARIANT Inductive
INVARIANT OwnsWhileWorking
PROPERTY ReservationSpec
CHECK_DEADLOCK FALSE
