CONSTANTS
  g = g
  h = h
  l1 = l1
  l2 = l2
  None = None
  Streams = {g, h}
  Links = {l1}
  LinksOf <- OneLinkEach
  Checks = {h}
  AuthMode = "account"
  MaxErrors = 1
  Workers <- OneWorker
SPECIFICATION FairSpec
PROPERTIES
  EveryCallReturns
  
