SPECIFICATION Spec
CONSTANTS
  NoOverride = NoOverride
  NoWorkspace = NoWorkspace
  NoGroup = NoGroup
  Windows = {t1, t2}
  Infos <- TwoInfos
  Configs <- QueueConfigs
  Worlds <- One2
  BirthKinds = {"shown"}
  MayIgnore = {"create"}
  Upheavals = {"add", "unplug", "reconnect"}
  MruCap = 2
  WarnThreshold = 2
  MaxWorkspaces = 4
  MaxTouches = 1
  MaxReuses = 0
  MaxBirths = 3
  MaxTimers = 0
  MaxSessions = 2
INVARIANTS
  TypeOK
  PendingsAreLive
  MovedAtMostOnce
PROPERTIES
  OneDoneSettlesAll
  SharingNeedsStaleness
  PlacementIsImplemented
SYMMETRY Symmetry
CHECK_DEADLOCK FALSE
