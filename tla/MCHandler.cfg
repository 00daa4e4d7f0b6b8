CONSTANTS
  a = a
  b = b
  NoSection = NoSection
  Ifaces = {a, b}
  Sections <- Conflicts
  First <- ConflictsFirst
SPECIFICATION Spec
INVARIANTS
  IdsDiffer
  PortsDiffer
  ReconnectKeepsDevice
