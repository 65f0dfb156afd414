SPECIFICATION FairSpec
CONSTANTS
  Projects = {p, q}
  Contents = {c}
  Ordinary = Ordinary
  None = None
  Faults = {"ha", "replace"}
  Repeats = FALSE
  MaxJobs = 1
  MaxRelease = 1
  MaxEdits = 1
  MaxInterrupts = 1
PROPERTY RunningEnds
