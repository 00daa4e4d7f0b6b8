CONSTANTS
  g = g
  h = h
  l1 = l1
  l2 = l2
  None = None
  Streams = {g, h}
  Links = {l1, l2}
  LinksOf <- MCLinksOf
  Checks = {h}
  AuthMode = "anonymous"
  MaxErrors = 3
  Workers <- MCWorkers
SPECIFICATION Spec
INVARIANTS
  OneFetchAtATime
  RightCreds
PROPERTIES
  FetchesSpaced
