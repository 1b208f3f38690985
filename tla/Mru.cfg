SPECIFICATION Spec
CONSTANTS
  NoWorkspace = NoWorkspace
  Groups <- MCGroups
  Workspaces <- MCWorkspaces
  GroupOf <- MCGroupOf
  CoordinatesOf <- MCCoordinates
  Cap = 3
  MaxVisits = 6
INVARIANTS
  TypeOK
  ListIsTheRecentVisits
  FirstIsLastKnown
  JumpIsBest
