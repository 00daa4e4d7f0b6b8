CONSTANTS
  w1 = w1
  w2 = w2
  w3 = w3
  Nobody = Nobody
  NumGroups = 2
  Workers = {w1, w2}
  GroupOf <- TwoGroups
  ConnModes = {"rawtun", "socks"}
  MaxVersion = 1
SPECIFICATION ReachableSpec
CHECK_DEADLOCK FALSE
INVARIANTS
  CascadeInOrder
PROPERTIES
  LivesAsPromised
  EveryGroupGetsItsTurn
  ClientExits
  
