SPECIFICATION Spec
CONSTANTS
  NoOverride = NoOverride
  NoWorkspace = NoWorkspace
  NoGroup = NoGroup
  Windows = {t1, t2}
  Infos <- OneInfo
  Configs <- NewEachConfigs
  Worlds <- One1
  BirthKinds = {"shown"}
  MayIgnore = {}
  Upheavals = {}
  MruCap = 2
  WarnThreshold = 2
  MaxWorkspaces = 3
  MaxTouches = 0
  MaxReuses = 0
  MaxBirths = 2
  MaxTimers = 0
  MaxSessions = 1
INVARIANT NewEachIsPerToplevel
CHECK_DEADLOCK FALSE
