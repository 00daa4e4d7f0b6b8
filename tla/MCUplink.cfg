CONSTANTS
  Workers = {w1, w2}
  Addresses = {a1, a2}
  NoAddress = NoAddress
  Relays = {r1}
  HandshakeSlots = 1
  MaxMoves = 1
SPECIFICATION FairSpec
CHECK_DEADLOCK FALSE
INVARIANTS
  RelaysAreHeld
  SlotsAreHeld
  QuickNeedsAMove
PROPERTIES
  PathIsFollowed
