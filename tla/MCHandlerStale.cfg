CONSTANTS
  a = a
  b = b
  NoSection = NoSection
  Ifaces = {a, b}
  Sections <- Switched
  First <- SwitchedFirst
SPECIFICATION Spec
PROPERTIES
  RefusedForARunningOne
