SPECIFICATION Spec
CONSTANTS
  Projects = {p, q}
  Contents = {c, d}
  Ordinary = Ordinary
  None = None
  Faults = {}
  Repeats = TRUE
  MaxJobs = 1
  MaxRelease = 1
  MaxEdits = 0
  MaxInterrupts = 0
SYMMETRY Symmetry
INVARIANT ReservationIsNeeded
