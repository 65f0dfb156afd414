SPECIFICATION FairSpec
CONSTANTS
  Files = {f, g}
  Unmanaged = Unmanaged
  Contents = {c, d}
  NoFile = NoFile
  Missing = Missing
  None = None
  MaxJobs = 2
  MaxEdits = 1
  MaxFaults = 2
INVARIANT Inductive
INVARIANT OldCodeKept
INVARIANT NeverHalfInstalled
INVARIANT SuccessMeansInstalled
PROPERTY ResumedGetsThrough
PROPERTY AtomicInstallSpec
CHECK_DEADLOCK FALSE
