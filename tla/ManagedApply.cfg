SPECIFICATION Spec
CONSTANTS
  Packages = {p}
  Modules = {m}
  Templates = {t}
  Contents = {c, d}
  Absent = Absent
  NoBase = NoBase
  Plain = Plain
  NoForm = NoForm
  NoJob = NoJob
  Faults = {"write", "readback", "activate", "ha", "lost", "bases", "journal", "restore", "crash"}
  InitialLive = {c, Absent}
  InitialGit = {c}
  MaxEdits = 1
  MaxCommits = 1
  MaxApplies = 1
INVARIANT Inductive
INVARIANT BasesWereLive
INVARIANT RolledBackMeansRestored
INVARIANT AppliedMeansRunning
INVARIANT UndoneMeansDeleted
PROPERTY OverwritesWhatWasReviewed
PROPERTY OnlyOwnResourcesDeleted
