SPECIFICATION FairSpec
CONSTANTS
  Signals = {SIGTERM}
  BackoffSteps <- ShortSteps
PROPERTY
  SignalStopsLoop
