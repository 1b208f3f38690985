SPECIFICATION Spec
CONSTANTS
  NoOverride = NoOverride
  NoWorkspace = NoWorkspace
  NoGroup = NoGroup
  Windows = {t1, t2}
  Infos <- OneInfo
  Configs <- SwitchConfigs
  Worlds <- One2
  BirthKinds = {"shown"}
  MayIgnore = {}
  Upheavals = {}
  MruCap = 2
  WarnThreshold = 2
  MaxWorkspaces = 2
  MaxTouches = 0
  MaxReuses = 0
  MaxBirths = 2
  MaxTimers = 2
  MaxSessions = 1
INVARIANT CallersCancelFirst
CHECK_DEADLOCK FALSE
