SPECIFICATION Spec
CONSTANTS
  Dashboards = {a}
  Contents = {x, y, z}
  Shells = {}
  Malformed = {}
  Creatable = {a}
  NoEntry = NoEntry
  NoFile = NoFile
  NoBase = NoBase
  NoConfig = NoConfig
  Unregistered = Unregistered
  Unsaved = Unsaved
  NoDashboard = NoDashboard
  NoForm = NoForm
  Faults = {"save", "readback"}
  Activities = {"jobs"}
  Overlap = TRUE
  InitialLive = {x, y, z}
  InitialGit = {x, y, z}
  EditValues = {x, y, z}
  MaxEdits = 1
  MaxCommits = 1
  MaxRevisions = 3
SYMMETRY Symmetry
INVARIANT Inductive
INVARIANT WorkInOrder
PROPERTY NoLostHaEdit
PROPERTY NoLostGitChange
