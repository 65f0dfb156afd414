SPECIFICATION Spec
CONSTANTS
  Projects = {p, q}
  Contents = {c, d}
  Ordinary = Ordinary
  None = None
  Faults = {"ha", "lost", "disk"}
  Repeats = FALSE
  MaxJobs = 1
  MaxRelease = 1
  MaxEdits = 1
  MaxInterrupts = 2
SYMMETRY Symmetry
INVARIANT InOrder
INVARIANT RestartAtMostOnce
INVARIANT ReservationIsNeeded
INVARIANT HeldForJobs
PROPERTY EvidenceFirst
PROPERTY SuccessMeansDeployed
PROPERTY JobMovesForward
CHECK_DEADLOCK FALSE
