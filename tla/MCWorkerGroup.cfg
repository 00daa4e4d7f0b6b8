CONSTANTS
  w1 = w1
  w2 = w2
  w3 = w3
  Nobody = Nobody
  NumGroups = 1
  Workers = {w1, w2}
  GroupOf <- OneGroup
  ConnModes = {"rawtun", "vpn", "socks"}
  MaxVersion = 3
SPECIFICATION Spec
CHECK_DEADLOCK FALSE
INVARIANTS
  ClosedAfterSessions
  ToldBeforeGivingUp
PROPERTIES
  OneRequestAtATime
  RefreshesSpaced
