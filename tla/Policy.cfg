SPECIFICATION Spec
CONSTANTS
  NoOverride = NoOverride
  Strings <- MCStrings
  Unset = Unset
  NotUnicode = NotUnicode
  None = None
  MaxMillis = 7
  Inputs <- MCInputs
  Pendings <- MCPendings
  Environments <- MCEnvironments
INVARIANTS
  PlacementIsSound
  SkipsAreForced
  WarnsAreExact
  OrderIsIrrelevant
  PendingIsSound
  ErrorsAreExact
  EnvironmentIsExact
CHECK_DEADLOCK FALSE
