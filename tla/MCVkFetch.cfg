CONSTANTS
  AttemptLimit = 3
  NumCreds = 2
  CaptchaLimit = 3
  MaxSliderChecks = 2
SPECIFICATION FairSpec
INVARIANTS
  DeadCallIsFinal
  LockedOutIsQuiet
  StaleResultIsDropped
PROPERTIES
  FetchEnds
  EachStepIsOneLess
  LinesAreRead
