SPECIFICATION FairSpec
CONSTANTS
  Signals = {SIGTERM, SIGINT}
  BackoffSteps <- ScaledSteps
INVARIANTS
  TypeOK
  CursorCountsFailures
  BackoffEndsWithinOnePoll
  EndIsJustified
PROPERTIES
  LadderIsFollowed
  CrashesAreSurvived
  LifecycleIsImplemented
  NoConnectAfterFlag
  BackoffShutdown
  SessionShutdown
  Recovery
  SocketOnlySessionsEnd
