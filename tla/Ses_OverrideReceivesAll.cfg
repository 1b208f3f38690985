SPECIFICATION Spec
CONSTANTS
  NoOverride = NoOverride
  NoWorkspace = NoWorkspace
  NoGroup = NoGroup
  Windows = {t1}
  Infos <- TwoInfos
  Configs <- OverrideConfigs
  Worlds <- Two
  BirthKinds = {"shown"}
  MayIgnore = {}
  Upheavals = {}
  MruCap = 2
  WarnThreshold = 2
  MaxWorkspaces = 4
  MaxTouches = 0
  MaxReuses = 0
  MaxBirths = 1
  MaxTimers = 0
  MaxSessions = 1
INVARIANT OverrideReceivesAll
CHECK_DEADLOCK FALSE
