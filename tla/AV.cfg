SPECIFICATION FairSpec
CONSTANTS
  Handles = {a, b, c}
  WarnThreshold = 2
  MaxTimers = 4
INVARIANTS
  TypeOK
  TablesAgree
  WarnIsRare
  CleanTimersAreTracked
  CleanAnswersAreBelieved
PROPERTIES
  NoWarnOnceConfirmed
  PendingResolves
