SPECIFICATION Spec
CONSTANTS
  NoOverride = NoOverride
  NoWorkspace = NoWorkspace
  NoGroup = NoGroup
  Windows = {t1, t2}
  Infos <- OneInfo
  Configs <- JumpConfigs
  Worlds <- Two
  BirthKinds = {"shown","sticky"}
  MayIgnore = {"move"}
  Upheavals = {"switch", "add", "remove"}
  MruCap = 2
  WarnThreshold = 2
  MaxWorkspaces = 3
  MaxTouches = 0
  MaxReuses = 1
  MaxBirths = 2
  MaxTimers = 0
  MaxSessions = 1
PROPERTIES JumpsAreSound SharingNeedsStaleness
SYMMETRY Symmetry
CHECK_DEADLOCK FALSE
