SPECIFICATION Spec
CONSTANTS
  Packages = {p}
  Modules = {m}
  Templates = {t}
  Contents = {c, d}
  Absent = Absent
  NoBase = NoBase
  Plain = Plain
  NoForm = NoForm
  NoJob = NoJob
  Faults = {}
  InitialLive = {c, Absent}
  InitialGit = {c, d}
  MaxEdits = 0
  MaxCommits = 0
  MaxApplies = 1
PROPERTY VersionNamesLive
