SPECIFICATION Spec
CONSTANTS
  Dashboards = {a, b}
  Contents = {x, m, s}
  Shells = {s}
  Malformed = {m}
  Creatable = {a, b}
  NoEntry = NoEntry
  NoFile = NoFile
  NoBase = NoBase
  NoConfig = NoConfig
  Unregistered = Unregistered
  Unsaved = Unsaved
  NoDashboard = NoDashboard
  NoForm = NoForm
  Faults = {"persist", "save", "lose_local", "restore", "arm", "crash", "export"}
  Activities = {}
  Overlap = FALSE
  InitialLive = {Unregistered, Unsaved, s}
  InitialGit = {x, m}
  EditValues = {Unregistered, Unsaved, x, m}
  MaxEdits = 0
  MaxCommits = 0
  MaxRevisions = 1
SYMMETRY Symmetry
INVARIANT WorkInOrder
INVARIANT AppliedIsRecorded
PROPERTY FailedApplyRestoresLive
