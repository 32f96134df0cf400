SPECIFICATION Spec
CONSTANTS
  Calls = {c1, c2}
  Packages = {cm, p1, p2}
  Asked = {cm}
  ContainerManager = cm
  Slots = 1
  MaxSessions = 2
  MaxEvents = 1
SYMMETRY Symmetry
INVARIANTS TypeOK FanOutBounded StatusHonest
CHECK_DEADLOCK FALSE
