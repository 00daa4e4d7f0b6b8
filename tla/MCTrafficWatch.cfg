CONSTANTS
  ProbeAfter = 2
  StallTimeout = 5
  ProbeArmFor = 5
  Patience = 1
  Keepalive = 2
SPECIFICATION FairSpec
CHECK_DEADLOCK FALSE

  
PROPERTIES
  DeadTunnelIsGivenUp
  StalledRelayIsGivenUp
